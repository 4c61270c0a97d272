--------------------------- MODULE Training_proofs ---------------------------
(***************************************************************************)
(* Proofs about the loader and the training process that reads from it,    *)
(* for every split, permutation, number of workers, prefetch factor and    *)
(* length of the recordings, number of epochs and validation frequency,    *)
(* with or without unreadable videos.  They go from the bottom up:         *)
(*                                                                         *)
(*   - the samples of a worker in a pass (Nth) are its positions in order, *)
(*     each once, and of two that follow each other the second continues   *)
(*     the segment of the first or begins one;                             *)
(*   - the worker pool keeps PoolInv: tasks are handed out in rounds, the  *)
(*     tasks of a worker and its results are in the order of its samples,  *)
(*     and a result is lost only when the worker has no more of them;      *)
(*   - over the passes the loader keeps BatchIInv, which adds that every   *)
(*     worker is in the pass the loader is in, or will be when it takes    *)
(*     its first task;                                                     *)
(*   - the training process keeps IInv, on the samples of a pass.  The     *)
(*     rows of a batch begin and end their segments together only because  *)
(*     the recordings of a split are of one length (SameLength): the state *)
(*     of every row is reset when all of them have finished, never one by  *)
(*     one.                                                                *)
(***************************************************************************)
EXTENDS TrainLoop, BatchLoader, FiniteSetTheorems, WellFoundedInduction, SequenceTheorems, TLAPS

\* A set of natural numbers has a least element.
LEMMA LeastExists ==
    ASSUME NEW S \in SUBSET Nat, S # {}
    PROVE  \E m \in S : \A n \in S : m <= n
<1>1. PICK m \in S : \A n \in S : <<n, m>> \notin OpToRel(<, Nat)
  BY NatLessThanWellFounded, WFMin
<1>2. ASSUME NEW n \in S PROVE m <= n
  <2>1. ~(n < m)
    BY <1>1, <1>2 DEF OpToRel
  <2> QED
    BY <2>1
<1> QED
  BY <1>2

\* There are n numbers from 0 to n - 1.
LEMMA IndexSet ==
    ASSUME NEW n \in Nat
    PROVE  IsFiniteSet(0 .. n - 1) /\ Cardinality(0 .. n - 1) = n
<1>1. PICK b \in Int : b = n - 1
  OBVIOUS
<1>2. 0 \in Int
  OBVIOUS
<1>3. IsFiniteSet(0 .. b) /\ Cardinality(0 .. b) = IF 0 > b THEN 0 ELSE b - 0 + 1
  BY <1>2, FS_Interval, Zenon
<1>4. Cardinality(0 .. b) = n
  BY <1>1, <1>3
<1> QED
  BY <1>1, <1>3, <1>4

----------------------------------------------------------------------------
(* The lists of a split. *)

\* A list of different segments.
IsList(list) ==
    /\ IsFiniteSet(DOMAIN list) /\ DOMAIN list \subseteq Nat
    /\ list \in [DOMAIN list -> Segments]
    /\ \A v, u \in DOMAIN list : v # u => list[v] # list[u]

\* One shuffle of a list.
Shuffled(list, shuffle) == [v \in DOMAIN list |-> list[shuffle[v]]]

\* The lists after up to k shuffles, as a function.
IsHistory(o, k, first, shuffle) ==
    /\ DOMAIN o = 0 .. k /\ o[0] = first
    /\ \A j \in 1 .. k : o[j] = [v \in DOMAIN first |-> o[j - 1][shuffle[v]]]

LEMMA HistoryExists ==
    ASSUME NEW first, NEW shuffle
    PROVE  \E o : IsHistory(o, Passes, first, shuffle)
<1> DEFINE Without == {k \in 0 .. Passes : ~ \E o : IsHistory(o, k, first, shuffle)}
<1>1. SUFFICES Without = {}
  BY DatasetAssumption
<1>2. SUFFICES ASSUME Without # {} PROVE FALSE
  OBVIOUS
<1>3. PICK k \in Without : \A j \in Without : k <= j
  <2>1. Without \in SUBSET Nat
    BY DatasetAssumption
  <2> HIDE DEF Without
  <2> QED
    BY <1>2, <2>1, LeastExists
<1>4. k # 0
  <2>1. IsHistory([j \in 0 .. 0 |-> first], 0, first, shuffle)
    BY DEF IsHistory
  <2> QED
    BY <2>1
<1>5. k - 1 \in 0 .. Passes /\ k - 1 \notin Without
  BY <1>3, <1>4, DatasetAssumption
<1>6. PICK o : IsHistory(o, k - 1, first, shuffle)
  BY <1>5
<1> DEFINE oo == [j \in 0 .. k |-> IF j = k THEN [v \in DOMAIN first |-> o[k - 1][shuffle[v]]]
                                            ELSE o[j]]
<1>7. IsHistory(oo, k, first, shuffle)
  <2>1. k \in Nat /\ k - 1 \in Nat
    BY <1>5
  <2>2. oo[0] = first
    BY <1>4, <1>6, <2>1 DEF IsHistory
  <2>3. ASSUME NEW j \in 1 .. k
        PROVE  oo[j] = [v \in DOMAIN first |-> oo[j - 1][shuffle[v]]]
    BY <1>6, <2>1 DEF IsHistory
  <2> QED
    BY <2>2, <2>3 DEF IsHistory
<1> QED
  BY <1>3, <1>7

\* The recursive definition of Shuffles has a solution.
LEMMA ShufflesDef ==
    ASSUME NEW first, NEW shuffle
    PROVE  Shuffles(first, shuffle) =
             [k \in 0 .. Passes |->
                IF k = 0 THEN first
                ELSE [v \in DOMAIN first |-> Shuffles(first, shuffle)[k - 1][shuffle[v]]]]
<1> DEFINE Solves(o) == o = [k \in 0 .. Passes |->
                IF k = 0 THEN first ELSE [v \in DOMAIN first |-> o[k - 1][shuffle[v]]]]
<1>1. PICK h : IsHistory(h, Passes, first, shuffle)
  BY HistoryExists
<1> DEFINE o == [k \in 0 .. Passes |-> h[k]]
<1>2. Solves(o)
  <2>1. ASSUME NEW k \in 0 .. Passes, k # 0
        PROVE  o[k] = [v \in DOMAIN first |-> o[k - 1][shuffle[v]]]
    <3>1. k \in 1 .. Passes /\ k - 1 \in 0 .. Passes
      BY <2>1, DatasetAssumption
    <3> QED
      BY <1>1, <3>1 DEF IsHistory
  <2>2. o[0] = first
    BY <1>1, DatasetAssumption DEF IsHistory
  <2> QED
    BY <2>1, <2>2
<1>3. Shuffles(first, shuffle) = CHOOSE oo : Solves(oo)
  BY DEF Shuffles
<1> HIDE DEF Solves
<1>4. Solves(Shuffles(first, shuffle))
  BY <1>2, <1>3
<1> QED
  BY <1>4 DEF Solves

\* However often it is shuffled, the list of a split has the same segments, each once.
LEMMA ShufflesAreLists ==
    ASSUME NEW first, NEW shuffle, IsSplit(first, shuffle), NEW k \in 0 .. Passes
    PROVE  /\ IsList(Shuffles(first, shuffle)[k])
           /\ DOMAIN Shuffles(first, shuffle)[k] = DOMAIN first
<1> DEFINE o == Shuffles(first, shuffle)
           Good(list) == /\ DOMAIN list = DOMAIN first
                         /\ list \in [DOMAIN first -> Segments]
                         /\ \A v, u \in DOMAIN first : v # u => list[v] # list[u]
           Bad == {j \in 0 .. Passes : ~Good(o[j])}
<1>1. IsFiniteSet(DOMAIN first) /\ DOMAIN first \subseteq Nat
  <2>1. IsFiniteSet(DOMAIN first) /\ DOMAIN first = 0 .. Cardinality(DOMAIN first) - 1
    BY DEF IsSplit
  <2>2. Cardinality(DOMAIN first) \in Nat
    BY <2>1, FS_CardinalityType
  <2>3. \A n \in Nat : 0 .. n - 1 \subseteq Nat
    OBVIOUS
  <2> QED
    BY <2>1, <2>2, <2>3
<1>2. Bad = {}
  <2>1. SUFFICES ASSUME Bad # {} PROVE FALSE
    OBVIOUS
  <2>2. PICK j \in Bad : \A i \in Bad : j <= i
    <3>1. Bad \in SUBSET Nat
      BY DatasetAssumption
    <3> HIDE DEF Bad
    <3> QED
      BY <2>1, <3>1, LeastExists
  <2>3. /\ Good(first) /\ shuffle \in [DOMAIN first -> DOMAIN first]
        /\ \A v, u \in DOMAIN first : v # u => shuffle[v] # shuffle[u]
    BY DEF IsSplit
  <2>4. o = [i \in 0 .. Passes |->
                IF i = 0 THEN first ELSE [v \in DOMAIN first |-> o[i - 1][shuffle[v]]]]
    BY ShufflesDef
  <2> HIDE DEF o
  <2>5. j # 0
    BY <2>2, <2>3, <2>4, DatasetAssumption
  <2>6. j - 1 \in 0 .. Passes /\ Good(o[j - 1])
    BY <2>2, <2>5, DatasetAssumption
  <2>7. o[j] = [v \in DOMAIN first |-> o[j - 1][shuffle[v]]]
    BY <2>2, <2>4, <2>5
  <2>8. Good(o[j])
    BY <2>3, <2>6, <2>7
  <2> QED
    BY <2>2, <2>8
<1>3. Good(o[k])
  BY <1>2
<1> QED
  BY <1>1, <1>3 DEF IsList

----------------------------------------------------------------------------
(* The positions of a worker in a pass over a list. *)

SeqsAt(list, v) == NumSeqs(list[v])

\* A segment has a whole number of sequences.
LEMMA LengthsType ==
    ASSUME NEW list, IsList(list), NEW v \in DOMAIN list
    PROVE  list[v] \in Segments /\ SeqsAt(list, v) \in Nat
<1>1. list[v] \in Segments
  BY DEF IsList
<1> QED
  BY <1>1, DatasetAssumption DEF SeqsAt, NumSeqs

\* What a position is.
LEMMA PositionIs ==
    ASSUME NEW w, NEW list, IsList(list), NEW p \in Positions(w, list)
    PROVE  /\ p = <<p[1], p[2]>> /\ p[1] \in DOMAIN list /\ p[1] \in Nat /\ p[2] \in Nat
           /\ p[1] % NumWorkers = w /\ p[2] < SeqsAt(list, p[1])
           /\ SeqsAt(list, p[1]) \in Nat /\ list[p[1]] \in Segments
<1>1. PICK v \in {u \in DOMAIN list : u % NumWorkers = w} :
         p \in {<<v, s>> : s \in 0 .. NumSeqs(list[v]) - 1}
  BY Zenon DEF Positions
<1>2. PICK s \in 0 .. SeqsAt(list, v) - 1 : p = <<v, s>>
  BY <1>1 DEF SeqsAt
<1>3. SeqsAt(list, v) \in Nat /\ list[v] \in Segments
  BY <1>1, LengthsType
<1>4. v \in DOMAIN list /\ v \in Nat /\ v % NumWorkers = w
  BY <1>1 DEF IsList
<1>5. p[1] = v /\ p[2] = s
  BY <1>2
<1> QED
  BY <1>2, <1>3, <1>4, <1>5

LEMMA IsPosition ==
    ASSUME NEW w, NEW list, NEW v \in DOMAIN list, v % NumWorkers = w,
           NEW s \in 0 .. SeqsAt(list, v) - 1
    PROVE  <<v, s>> \in Positions(w, list)
<1>1. v \in {u \in DOMAIN list : u % NumWorkers = w}
  OBVIOUS
<1>2. <<v, s>> \in {<<v, i>> : i \in 0 .. NumSeqs(list[v]) - 1}
  BY DEF SeqsAt
<1> QED
  BY <1>1, <1>2, Zenon DEF Positions

LEMMA PositionsFinite ==
    ASSUME NEW w, NEW list, IsList(list)
    PROVE  IsFiniteSet(Positions(w, list))
<1> DEFINE Turns == {u \in DOMAIN list : u % NumWorkers = w}
           Of(v) == {<<v, s>> : s \in 0 .. SeqsAt(list, v) - 1}
           f == [v \in Turns |-> Of(v)]
           Sets == {Of(v) : v \in Turns}
<1>1. IsFiniteSet(Turns)
  BY FS_Subset DEF IsList
<1>2. f \in Surjection(Turns, Sets)
  BY DEF Surjection
<1>3. IsFiniteSet(Sets)
  BY <1>1, <1>2, FS_Surjection
<1>4. ASSUME NEW v \in Turns PROVE IsFiniteSet(Of(v))
  <2>1. IsFiniteSet(0 .. SeqsAt(list, v) - 1)
    BY LengthsType, FS_Interval
  <2> DEFINE g == [s \in 0 .. SeqsAt(list, v) - 1 |-> <<v, s>>]
  <2>2. g \in Surjection(0 .. SeqsAt(list, v) - 1, Of(v))
    BY DEF Surjection
  <2> QED
    BY <2>1, <2>2, FS_Surjection
<1>5. IsFiniteSet(UNION Sets)
  <2>1. \A T \in Sets : IsFiniteSet(T)
    BY <1>4
  <2> HIDE DEF Sets
  <2> QED
    BY <1>3, <2>1, FS_UNION
<1>6. Positions(w, list) = UNION Sets
  BY DEF Positions, SeqsAt
<1> QED
  BY <1>5, <1>6

\* The rank of a position is the number of positions before it.
Below(w, list, p) == {q \in Positions(w, list) : Precedes(q, p)}
Rank(w, list, p) == Cardinality(Below(w, list, p))

\* Precedes is a strict total order of the positions.
LEMMA OrderOfPositions ==
    ASSUME NEW w, NEW list, IsList(list),
           NEW p \in Positions(w, list), NEW q \in Positions(w, list)
    PROVE  /\ ~Precedes(p, p)
           /\ p # q => Precedes(p, q) \/ Precedes(q, p)
           /\ \A r \in Positions(w, list) : Precedes(p, q) /\ Precedes(q, r) => Precedes(p, r)
<1>1. ASSUME NEW a \in Positions(w, list)
      PROVE  a[1] \in Nat /\ a[2] \in Nat /\ a = <<a[1], a[2]>>
  BY PositionIs
<1> QED
  BY <1>1 DEF Precedes

LEMMA RanksGrow ==
    ASSUME NEW w, NEW list, IsList(list), NEW p \in Positions(w, list), NEW q \in Positions(w, list)
    PROVE  /\ Rank(w, list, p) \in 0 .. Cardinality(Positions(w, list)) - 1
           /\ Precedes(p, q) => Rank(w, list, p) < Rank(w, list, q)
           /\ Rank(w, list, p) = Rank(w, list, q) => p = q
<1> DEFINE P == Positions(w, list)
<1>1. ASSUME NEW a \in P
      PROVE  /\ IsFiniteSet(Below(w, list, a)) /\ Rank(w, list, a) \in Nat
             /\ Rank(w, list, a) < Cardinality(P)
  <2>1. Below(w, list, a) \in SUBSET P /\ Below(w, list, a) # P
    BY OrderOfPositions DEF Below
  <2> QED
    BY <2>1, PositionsFinite, FS_Subset, FS_CardinalityType DEF Rank
<1>2. ASSUME NEW a \in P, NEW b \in P, Precedes(a, b)
      PROVE  Rank(w, list, a) < Rank(w, list, b)
  <2>1. Below(w, list, a) \in SUBSET Below(w, list, b)
    BY <1>2, OrderOfPositions DEF Below
  <2>2. Below(w, list, a) # Below(w, list, b)
    BY <1>2, OrderOfPositions DEF Below
  <2> QED
    BY <1>1, <2>1, <2>2, FS_Subset, FS_CardinalityType DEF Rank
<1>3. Cardinality(P) \in Nat
  BY PositionsFinite, FS_CardinalityType
<1> HIDE DEF P
<1>4. p \in P /\ q \in P
  BY DEF P
<1>5. Rank(w, list, p) = Rank(w, list, q) => p = q
  <2>1. p # q => Precedes(p, q) \/ Precedes(q, p)
    BY OrderOfPositions
  <2> QED
    BY <1>1, <1>2, <1>4, <2>1
<1> QED
  BY <1>1, <1>2, <1>3, <1>4, <1>5 DEF P

\* Every number below the number of positions is the rank of one of them.
LEMMA RanksCover ==
    ASSUME NEW w, NEW list, IsList(list), NEW n \in 1 .. Cardinality(Positions(w, list))
    PROVE  \E p \in Positions(w, list) : Rank(w, list, p) = n - 1
<1> DEFINE P == Positions(w, list)
           R == 0 .. Cardinality(P) - 1
           f == [p \in P |-> Rank(w, list, p)]
<1>1. IsFiniteSet(P) /\ Cardinality(P) \in Nat
  BY PositionsFinite, FS_CardinalityType
<1>2. IsFiniteSet(R) /\ Cardinality(R) = Cardinality(P)
  BY <1>1, IndexSet
<1>3. f \in Injection(P, R)
  BY RanksGrow DEF Injection, IsInjective
<1>4. f \in Surjection(P, R)
  BY <1>2, <1>3, FS_Injection
<1>5. n - 1 \in R
  BY <1>1
<1> HIDE DEF R
<1> QED
  BY <1>4, <1>5 DEF Surjection

\* The fields of a sample.
LEMMA SampleFields ==
    ASSUME NEW w, NEW list, NEW p
    PROVE  LET d == Sample(w, list, p)
           IN  /\ d.seg = list[p[1]] /\ d.seq = p[2] /\ d.worker = w
               /\ d.finished <=> p[2] = SeqsAt(list, p[1]) - 1
BY DEF Sample, SeqsAt

\* The position of the n-th sample.
PositionOf(w, list, n) == CHOOSE p \in Positions(w, list) : Rank(w, list, p) = n - 1

LEMMA NthIsAt ==
    ASSUME NEW w, NEW list, IsList(list), NEW n \in 1 .. Cardinality(Positions(w, list))
    PROVE  /\ PositionOf(w, list, n) \in Positions(w, list)
           /\ Rank(w, list, PositionOf(w, list, n)) = n - 1
           /\ Nth(w, list, n) = Sample(w, list, PositionOf(w, list, n))
<1>1. PositionOf(w, list, n) \in Positions(w, list) /\ Rank(w, list, PositionOf(w, list, n)) = n - 1
  BY RanksCover DEF PositionOf
<1>2. Nth(w, list, n) = Sample(w, list, PositionOf(w, list, n))
  BY DEF Nth, PositionOf, Rank, Below
<1> QED
  BY <1>1, <1>2

\* The position before one that does not begin a segment is the sequence before.
LEMMA RankInSegment ==
    ASSUME NEW w, NEW list, IsList(list), NEW p \in Positions(w, list), p[2] # 0
    PROVE  /\ <<p[1], p[2] - 1>> \in Positions(w, list)
           /\ Rank(w, list, p) = Rank(w, list, <<p[1], p[2] - 1>>) + 1
<1> DEFINE q == <<p[1], p[2] - 1>>
<1>1. /\ p = <<p[1], p[2]>> /\ p[1] \in DOMAIN list /\ p[1] \in Nat /\ p[2] \in Nat
      /\ p[1] % NumWorkers = w /\ p[2] < SeqsAt(list, p[1]) /\ SeqsAt(list, p[1]) \in Nat
  BY PositionIs
<1>2. p[2] - 1 \in 0 .. SeqsAt(list, p[1]) - 1
  BY <1>1
<1>3. q[1] = p[1] /\ q[2] = p[2] - 1
  OBVIOUS
<1>4. q \in Positions(w, list)
  BY <1>1, <1>2, IsPosition
<1>5. \A a \in Positions(w, list) : Precedes(a, p) <=> a = q \/ Precedes(a, q)
  <2>1. ASSUME NEW a \in Positions(w, list)
        PROVE  a[1] \in Nat /\ a[2] \in Nat /\ a = <<a[1], a[2]>>
    BY PositionIs
  <2>2. q[1] \in Nat /\ q[2] \in Nat /\ q = <<q[1], q[2]>>
    BY <1>4, <2>1
  <2> HIDE DEF q
  <2> QED
    BY <1>1, <1>3, <2>1, <2>2 DEF Precedes
<1> HIDE DEF q
<1>6. Below(w, list, p) = Below(w, list, q) \cup {q} /\ q \notin Below(w, list, q)
  BY <1>4, <1>5, OrderOfPositions DEF Below
<1>7. IsFiniteSet(Below(w, list, q))
  BY PositionsFinite, FS_Subset DEF Below
<1>8. Rank(w, list, p) = Rank(w, list, q) + 1
  BY <1>6, <1>7, FS_AddElement DEF Rank
<1> QED
  BY <1>4, <1>8 DEF q

\* A sample's fields.
LEMMA NthType ==
    ASSUME NEW w, NEW list, IsList(list), NEW n \in 1 .. Cardinality(Positions(w, list))
    PROVE  LET d == Nth(w, list, n)
           IN  /\ d.seg \in Segments /\ d.seq \in 0 .. NumSeqs(d.seg) - 1 /\ d.worker = w
               /\ d.finished <=> d.seq = NumSeqs(d.seg) - 1
<1> DEFINE p == PositionOf(w, list, n)
<1>1. p \in Positions(w, list) /\ Nth(w, list, n) = Sample(w, list, p)
  BY NthIsAt
<1> HIDE DEF p
<1>2. p[2] \in 0 .. SeqsAt(list, p[1]) - 1 /\ list[p[1]] \in Segments
  BY <1>1, PositionIs
<1> QED
  BY <1>1, <1>2, SampleFields DEF SeqsAt

\* A pass never gives the same sample twice, and no segment to two workers.
LEMMA NthDistinct ==
    ASSUME NEW list, IsList(list), NEW w \in Workers, NEW u \in Workers,
           NEW n \in 1 .. Cardinality(Positions(w, list)),
           NEW m \in 1 .. Cardinality(Positions(u, list))
    PROVE  /\ w # u => Nth(w, list, n).seg # Nth(u, list, m).seg
           /\ w = u /\ n # m => Nth(w, list, n) # Nth(u, list, m)
<1> DEFINE p == PositionOf(w, list, n)
           q == PositionOf(u, list, m)
<1>1. p \in Positions(w, list) /\ Rank(w, list, p) = n - 1 /\ Nth(w, list, n) = Sample(w, list, p)
  BY NthIsAt
<1>2. q \in Positions(u, list) /\ Rank(u, list, q) = m - 1 /\ Nth(u, list, m) = Sample(u, list, q)
  BY NthIsAt
<1> HIDE DEF p, q
<1>3. /\ p[1] \in DOMAIN list /\ p[1] % NumWorkers = w /\ p = <<p[1], p[2]>>
      /\ q[1] \in DOMAIN list /\ q[1] % NumWorkers = u /\ q = <<q[1], q[2]>>
  BY <1>1, <1>2, PositionIs
<1>4. Nth(w, list, n).seg = list[p[1]] /\ Nth(w, list, n).seq = p[2]
  BY <1>1, SampleFields
<1>5. Nth(u, list, m).seg = list[q[1]] /\ Nth(u, list, m).seq = q[2]
  BY <1>2, SampleFields
<1>6. Nth(w, list, n).seg = Nth(u, list, m).seg => p[1] = q[1]
  BY <1>3, <1>4, <1>5 DEF IsList
<1>7. w # u => p[1] # q[1]
  BY <1>3
<1>8. ASSUME w = u, Nth(w, list, n) = Nth(u, list, m) PROVE n = m
  <2>1. p = q
    <3>1. p[1] = q[1] /\ p[2] = q[2]
      BY <1>4, <1>5, <1>6, <1>8
    <3> QED
      BY <1>3, <3>1
  <2> QED
    BY <1>1, <1>2, <1>8, <2>1
<1> QED
  BY <1>6, <1>7, <1>8

\* The first sample of a pass begins a segment.
LEMMA NthFirst ==
    ASSUME NEW w, NEW list, IsList(list), 1 <= Cardinality(Positions(w, list))
    PROVE  Nth(w, list, 1).seq = 0
<1> DEFINE p == PositionOf(w, list, 1)
<1>1. 1 \in 1 .. Cardinality(Positions(w, list))
  BY PositionsFinite, FS_CardinalityType
<1>2. p \in Positions(w, list) /\ Rank(w, list, p) = 0 /\ Nth(w, list, 1) = Sample(w, list, p)
  BY <1>1, NthIsAt
<1> HIDE DEF p
<1>3. p[2] = 0
  <2> SUFFICES ASSUME p[2] # 0 PROVE FALSE
    OBVIOUS
  <2>1. /\ <<p[1], p[2] - 1>> \in Positions(w, list)
        /\ Rank(w, list, p) = Rank(w, list, <<p[1], p[2] - 1>>) + 1
    BY <1>2, RankInSegment
  <2>2. Rank(w, list, <<p[1], p[2] - 1>>) \in 0 .. Cardinality(Positions(w, list)) - 1
    BY <2>1, RanksGrow
  <2> QED
    BY <1>2, <2>1, <2>2
<1> QED
  BY <1>2, <1>3, SampleFields

\* Of two samples in a row, the second goes on where the first stops, or begins a
\* segment after the first has finished one.
LEMMA NthNext ==
    ASSUME NEW w, NEW list, IsList(list), NEW n \in Nat \ {0},
           n + 1 <= Cardinality(Positions(w, list))
    PROVE  LET d == Nth(w, list, n)
               e == Nth(w, list, n + 1)
           IN  IF d.finished THEN e.seq = 0
                             ELSE e.seg = d.seg /\ e.seq = d.seq + 1
<1> DEFINE p == PositionOf(w, list, n)
           q == PositionOf(w, list, n + 1)
<1>1. n \in 1 .. Cardinality(Positions(w, list)) /\ n + 1 \in 1 .. Cardinality(Positions(w, list))
  BY PositionsFinite, FS_CardinalityType
<1>2. p \in Positions(w, list) /\ Rank(w, list, p) = n - 1 /\ Nth(w, list, n) = Sample(w, list, p)
  BY <1>1, NthIsAt
<1>3. q \in Positions(w, list) /\ Rank(w, list, q) = n /\ Nth(w, list, n + 1) = Sample(w, list, q)
  BY <1>1, NthIsAt
<1> HIDE DEF p, q
<1>4. /\ p = <<p[1], p[2]>> /\ p[1] \in DOMAIN list /\ p[1] % NumWorkers = w
      /\ p[2] \in Nat /\ p[2] < SeqsAt(list, p[1]) /\ SeqsAt(list, p[1]) \in Nat
  BY <1>2, PositionIs
<1>5. q[2] \in Nat /\ q[2] < SeqsAt(list, q[1]) /\ SeqsAt(list, q[1]) \in Nat
  BY <1>3, PositionIs
<1>6. CASE q[2] # 0
  <2> DEFINE r == <<q[1], q[2] - 1>>
  <2>1. r \in Positions(w, list) /\ Rank(w, list, q) = Rank(w, list, r) + 1
    BY <1>3, <1>6, RankInSegment
  <2>2. Rank(w, list, r) = Rank(w, list, p)
    BY <1>2, <1>3, <2>1, RanksGrow
  <2>3. r = p
    BY <1>2, <2>1, <2>2, RanksGrow
  <2>4. p[1] = q[1] /\ p[2] = q[2] - 1
    BY <2>3
  <2> QED
    <3>1. p[2] # SeqsAt(list, p[1]) - 1 /\ q[2] = p[2] + 1
      BY <1>4, <1>5, <2>4
    <3> DEFINE d == Sample(w, list, p)
               e == Sample(w, list, q)
    <3>2. ~d.finished
      BY <3>1, SampleFields
    <3>3. e.seg = d.seg /\ e.seq = d.seq + 1
      <4>1. d.seg = list[p[1]] /\ d.seq = p[2]
        BY SampleFields
      <4>2. e.seg = list[q[1]] /\ e.seq = q[2]
        BY SampleFields
      <4> HIDE DEF d, e
      <4> QED
        BY <2>4, <3>1, <4>1, <4>2
    <3> HIDE DEF d, e
    <3> QED
      BY <1>2, <1>3, <3>2, <3>3 DEF d, e
<1>7. CASE q[2] = 0
  <2> DEFINE r == <<p[1], p[2] + 1>>
  <2>1. p[2] = SeqsAt(list, p[1]) - 1
    <3> SUFFICES ASSUME p[2] # SeqsAt(list, p[1]) - 1 PROVE FALSE
      OBVIOUS
    <3>1. p[2] + 1 \in 0 .. SeqsAt(list, p[1]) - 1 /\ p[2] + 1 # 0 /\ p[2] + 1 - 1 = p[2]
      BY <1>4
    <3>2. r \in Positions(w, list) /\ r[1] = p[1] /\ r[2] = p[2] + 1
      BY <1>4, <3>1, IsPosition
    <3> HIDE DEF r
    <3>3. p = <<r[1], r[2] - 1>> /\ r[2] # 0
      BY <1>4, <3>1, <3>2
    <3>4. Rank(w, list, r) = n
      BY <1>2, <3>2, <3>3, RankInSegment
    <3>5. r = q
      BY <1>3, <3>2, <3>4, RanksGrow
    <3> QED
      BY <1>7, <3>3, <3>5
  <2> QED
    BY <1>2, <1>3, <1>7, <2>1, SampleFields
<1> QED
  BY <1>6, <1>7

----------------------------------------------------------------------------
(* The batches of a pass. *)

\* No worker has fewer samples than a pass has batches.
LEMMA BatchesAreFull ==
    ASSUME NEW list, IsList(list)
    PROVE  /\ FullBatches(list) \in Nat
           /\ \A w \in Workers : FullBatches(list) <= Cardinality(Positions(w, list))
<1> DEFINE S == {Cardinality(Positions(w, list)) : w \in Workers}
<1>1. S \in SUBSET Nat
  BY PositionsFinite, FS_CardinalityType
<1>2. S # {}
  <2>1. 0 \in Workers
    BY DatasetAssumption DEF Workers
  <2> QED
    BY <2>1
<1>3. \A w \in Workers : Cardinality(Positions(w, list)) \in S
  OBVIOUS
<1>4. FullBatches(list) = Min(S)
  BY DEF FullBatches
<1> HIDE DEF S
<1>5. Min(S) \in S /\ \A n \in S : Min(S) <= n
  BY <1>1, <1>2, LeastExists DEF Min
<1> QED
  BY <1>1, <1>3, <1>4, <1>5

----------------------------------------------------------------------------
(* The pool while a pass over a list goes on: pending are the tasks handed *)
(* out and not returned, alive the workers not known to have stopped and   *)
(* answers the queue of results.  rank[i] says that task i is to yield the *)
(* rank[i]-th sample of its worker, made[w] how many results worker w has  *)
(* made, got[w] how many of them were returned, and lap in which round of  *)
(* the workers the next task is handed out.                                *)

Share(w, list) == Cardinality(Positions(w, list))
IsNth(w, list, n, d) == n <= Share(w, list) /\ (d = Failure \/ d = Nth(w, list, n))

\* The results of a task that are on their way; a task that has one, or had one kept; and
\* a worker with a failure that was not returned yet.
OnTheWay(answers, i) == {k \in DOMAIN answers : answers[k].idx = i /\ answers[k].data # Stop}
Answered(pending, answers, i) == pending[i].data # Pending \/ OnTheWay(answers, i) # {}
Failed(pending, answers, w) ==
    \E i \in DOMAIN pending :
        /\ pending[i].worker = w
        /\ \/ pending[i].data = Failure
           \/ \E k \in OnTheWay(answers, i) : answers[k].data = Failure

\* Of one worker the tasks are handed out, and so return, in the order of its samples.
Ranks(pending, rank, got) ==
    /\ rank \in [0 .. sendIdx - 1 -> Nat]
    /\ DOMAIN pending \subseteq 0 .. sendIdx - 1
    /\ \A i \in DOMAIN pending : pending[i] \in Task
    /\ \A i, j \in DOMAIN pending :
          i < j => /\ rank[i] <= rank[j]
                   /\ pending[i].worker = pending[j].worker => rank[i] # rank[j]
    /\ \A i \in DOMAIN pending : got[pending[i].worker] < rank[i]

\* The rank of the last task handed out to an active worker.
Latest(w, lap) == IF w < cycle THEN lap + 1 ELSE lap

\* Tasks are handed out to the active workers in turn, and none of theirs gets lost.
Rounds(pending, alive, rank, lap, got) ==
    /\ lap \in Nat
    /\ \A i \in DOMAIN pending : rank[i] <= lap + 1
    /\ \A w \in alive :
          /\ got[w] <= Latest(w, lap)
          /\ \A n \in got[w] + 1 .. Latest(w, lap) :
                \E i \in DOMAIN pending : pending[i].worker = w /\ rank[i] = n
          /\ \A i \in DOMAIN pending : pending[i].worker = w => rank[i] <= Latest(w, lap)

\* Each result on its way is the only one of its task; after its notice a worker sends none.
Arrivals(pending, alive, answers, rank, made, list) ==
    \A k \in DOMAIN answers :
        /\ answers[k].worker \in alive
        /\ IF answers[k].data = Stop
           THEN /\ stopped[answers[k].worker]
                /\ \A l \in DOMAIN answers : k < l => answers[l].worker # answers[k].worker
           ELSE /\ answers[k].idx \in DOMAIN pending
                /\ pending[answers[k].idx] = [worker |-> answers[k].worker, data |-> Pending]
                /\ rank[answers[k].idx] <= made[answers[k].worker]
                /\ IsNth(answers[k].worker, list, rank[answers[k].idx], answers[k].data)
                /\ \A l \in DOMAIN answers :
                      answers[l].data # Stop /\ k # l => answers[k].idx # answers[l].idx

\* Results that were kept, and that none which was made is missing.
Results(pending, answers, rank, made, got, list) ==
    /\ \A i \in DOMAIN pending : pending[i].data # Pending =>
          /\ rank[i] <= made[pending[i].worker]
          /\ IsNth(pending[i].worker, list, rank[i], pending[i].data)
    /\ \A w \in Workers :
          /\ got[w] <= made[w] /\ got[w] <= Share(w, list)
          /\ \A n \in got[w] + 1 .. made[w] : \E i \in DOMAIN pending :
                pending[i].worker = w /\ rank[i] = n /\ Answered(pending, answers, i)

\* The tasks a worker still finds in its queue.
Queued(pending, alive, rank, made, lap) ==
    \A w \in Workers :
        /\ w \notin alive => stopped[w]
        /\ ~stopped[w] =>
              /\ \A j \in DOMAIN taskQ[w] :
                    /\ taskQ[w][j] \in DOMAIN pending
                    /\ pending[taskQ[w][j]] = [worker |-> w, data |-> Pending]
                    /\ rank[taskQ[w][j]] = made[w] + j
              /\ made[w] + Len(taskQ[w]) = Latest(w, lap)

\* Where its generator is.
Generators(pending, answers, made, list) ==
    \A w \in Workers :
        /\ stopped[w] => cursor[w] = Finished
        /\ cursor[w] = Fresh => made[w] = 0
        /\ cursor[w] = Finished => made[w] = Share(w, list) \/ Failed(pending, answers, w)
        /\ cursor[w] \notin {Fresh, Finished} => Rank(w, list, cursor[w]) = made[w]

PoolWith(pending, alive, answers, rank, made, lap, got, list) ==
    /\ made \in [Workers -> Nat] /\ got \in [Workers -> Nat]
    /\ Ranks(pending, rank, got) /\ Rounds(pending, alive, rank, lap, got)
    /\ Arrivals(pending, alive, answers, rank, made, list)
    /\ Results(pending, answers, rank, made, got, list)
    /\ Queued(pending, alive, rank, made, lap) /\ Generators(pending, answers, made, list)

PoolInv(rank, made, lap, got, list) ==
    /\ PoolWith(tasks, active, dataQ, rank, made, lap, got, list)
    /\ active # {} => LiveTasks # {}

----------------------------------------------------------------------------
(* Values. *)

LEMMA ResultsDiffer ==
    /\ \A d \in Samples : d # Pending /\ d # Failure /\ d # Stop
    /\ Pending # Failure /\ Pending # Stop /\ Failure # Stop
    /\ Fresh # Finished /\ Fresh \notin Nat \X Nat /\ Finished \notin Nat \X Nat
    /\ ResumeIteration \notin Nat /\ ResumeIteration \in Int
<1>1. ASSUME NEW d \in Samples PROVE d # Pending /\ d # Failure /\ d # Stop
  <2>1. "seg" \in DOMAIN d
    BY DEF Samples
  <2>2. "seg" \notin DOMAIN Pending /\ "seg" \notin DOMAIN Failure /\ "seg" \notin DOMAIN Stop
    BY DEF Pending, Failure, Stop
  <2> QED
    BY <2>1, <2>2
<1>2. Pending # Failure /\ Pending # Stop /\ Failure # Stop
  <2>1. Pending.note = "pending" /\ Failure.note = "failure" /\ Stop.note = "stop"
    BY DEF Pending, Failure, Stop
  <2> QED
    BY <2>1
<1>3. Fresh # Finished /\ Fresh \notin Nat \X Nat /\ Finished \notin Nat \X Nat
  BY DEF Fresh, Finished
<1> QED
  BY <1>1, <1>2, <1>3 DEF ResumeIteration

\* The least of some numbers is one of them.
LEMMA MinIsLeast ==
    ASSUME NEW S \in SUBSET Nat, S # {}
    PROVE  Min(S) \in S /\ \A n \in S : Min(S) <= n
<1>1. \E m \in S : \A n \in S : m <= n
  BY LeastExists
<1> QED
  BY <1>1 DEF Min

----------------------------------------------------------------------------
(* A step of a worker's generator. *)

\* The positions before a place and those that are left.
LEMMA PositionsLeft ==
    ASSUME NEW w, NEW list, IsList(list), NEW from \in Nat \X Nat,
           NEW rest, rest = {p \in Positions(w, list) : ~Precedes(p, from)}
    PROVE  /\ Rank(w, list, from) \in Nat
           /\ rest = {} => Rank(w, list, from) = Share(w, list)
           /\ rest # {} => \E p \in rest : \A q \in rest : p = q \/ Precedes(p, q)
<1>1. IsFiniteSet(Below(w, list, from))
  BY PositionsFinite, FS_Subset DEF Below
<1>2. Rank(w, list, from) \in Nat
  BY <1>1, FS_CardinalityType DEF Rank
<1>3. ASSUME rest = {} PROVE Rank(w, list, from) = Share(w, list)
  <2>1. Below(w, list, from) = Positions(w, list)
    BY <1>3 DEF Below
  <2> QED
    BY <2>1 DEF Rank, Share
<1>4. ASSUME rest # {} PROVE \E p \in rest : \A q \in rest : p = q \/ Precedes(p, q)
  <2> DEFINE R == {Rank(w, list, p) : p \in rest}
  <2>1. R \in SUBSET Nat /\ R # {}
    BY <1>4, RanksGrow
  <2>2. PICK m \in R : \A n \in R : m <= n
    <3> HIDE DEF R
    <3> QED
      BY <2>1, LeastExists
  <2>3. PICK p \in rest : \A q \in rest : Rank(w, list, p) <= Rank(w, list, q)
    BY <2>2
  <2>4. ASSUME NEW q \in rest PROVE p = q \/ Precedes(p, q)
    <3>1. p \in Positions(w, list) /\ q \in Positions(w, list) /\ Rank(w, list, p) <= Rank(w, list, q)
      BY <2>3
    <3>2. Rank(w, list, p) \in Nat /\ Rank(w, list, q) \in Nat
      BY <3>1, RanksGrow
    <3>3. ~Precedes(q, p)
      BY <3>1, <3>2, RanksGrow
    <3> QED
      BY <3>1, <3>3, OrderOfPositions
  <2> QED
    BY <2>4
<1> QED
  BY <1>2, <1>3, <1>4

\* The first of those left is the next sample.
LEMMA NextPosition ==
    ASSUME NEW w, NEW list, IsList(list), NEW from \in Nat \X Nat,
           NEW here \in Positions(w, list), ~Precedes(here, from),
           \A q \in Positions(w, list) : Precedes(q, from) \/ here = q \/ Precedes(here, q)
    PROVE  /\ <<here[1], here[2] + 1>> \in Nat \X Nat
           /\ Rank(w, list, from) + 1 \in 1 .. Share(w, list)
           /\ Sample(w, list, here) = Nth(w, list, Rank(w, list, from) + 1)
           /\ Rank(w, list, <<here[1], here[2] + 1>>) = Rank(w, list, from) + 1
<1> DEFINE P == Positions(w, list)
           next == <<here[1], here[2] + 1>>
<1>1. ASSUME NEW p \in P PROVE p = <<p[1], p[2]>> /\ p[1] \in Nat /\ p[2] \in Nat
  BY PositionIs
<1>2. IsFiniteSet(P) /\ IsFiniteSet(Below(w, list, from))
  BY PositionsFinite, FS_Subset DEF Below
<1>3. Rank(w, list, from) \in Nat
  BY <1>2, FS_CardinalityType DEF Rank
<1>4. here = <<here[1], here[2]>> /\ here[1] \in Nat /\ here[2] \in Nat
  BY <1>1
<1>5. ASSUME NEW q \in P PROVE Precedes(q, here) <=> Precedes(q, from)
  <2>1. q[1] \in Nat /\ q[2] \in Nat /\ from[1] \in Nat /\ from[2] \in Nat
    BY <1>1
  <2>2. Precedes(q, from) => Precedes(q, here)
    BY <1>4, <2>1 DEF Precedes
  <2>3. Precedes(q, here) => Precedes(q, from)
    BY <1>4, <2>1 DEF Precedes
  <2> QED
    BY <2>2, <2>3
<1>6. Below(w, list, here) = Below(w, list, from)
  BY <1>5 DEF Below
<1>7. Rank(w, list, here) = Rank(w, list, from)
  BY <1>6 DEF Rank
<1>8. Rank(w, list, from) + 1 \in 1 .. Share(w, list)
  <2>1. Rank(w, list, here) \in 0 .. Cardinality(P) - 1
    BY RanksGrow
  <2>2. Cardinality(P) \in Nat
    BY <1>2, FS_CardinalityType
  <2> QED
    BY <1>3, <1>7, <2>1, <2>2 DEF Share
<1>9. Sample(w, list, here) = Nth(w, list, Rank(w, list, from) + 1)
  <2> DEFINE n == Rank(w, list, from) + 1
             at == PositionOf(w, list, n)
  <2>1. n \in 1 .. Cardinality(P)
    BY <1>8 DEF Share
  <2>2. n - 1 = Rank(w, list, from)
    BY <1>3
  <2> HIDE DEF n
  <2>3. at \in P /\ Rank(w, list, at) = n - 1 /\ Nth(w, list, n) = Sample(w, list, at)
    BY <2>1, NthIsAt
  <2> HIDE DEF at
  <2>4. at = here
    BY <1>7, <2>2, <2>3, RanksGrow
  <2> QED
    BY <2>3, <2>4 DEF n
<1>10. next \in Nat \X Nat /\ next[1] = here[1] /\ next[2] = here[2] + 1
  BY <1>4
<1>11. Rank(w, list, next) = Rank(w, list, from) + 1
  <2>1. ASSUME NEW q \in P PROVE Precedes(q, next) <=> q = here \/ Precedes(q, here)
    <3>1. q = <<q[1], q[2]>> /\ q[1] \in Nat /\ q[2] \in Nat
      BY <1>1
    <3> HIDE DEF next
    <3> QED
      BY <1>4, <1>10, <3>1 DEF Precedes
  <2>2. ~Precedes(here, here)
    BY OrderOfPositions
  <2>3. /\ Below(w, list, next) = Below(w, list, here) \cup {here}
        /\ here \notin Below(w, list, here)
    BY <2>1, <2>2 DEF Below
  <2>4. IsFiniteSet(Below(w, list, here))
    BY <1>2, <1>6
  <2> QED
    BY <1>7, <2>3, <2>4, FS_AddElement DEF Rank
<1> QED
  BY <1>8, <1>9, <1>10, <1>11

\* A worker whose generator has made n results yields its next sample, or raises in
\* its place, or has come to its end.
LEMMA GeneratorSteps ==
    ASSUME NEW w, NEW list, IsList(list), list = Order[ShufflesAfter(w)], NEW n \in Nat,
           cursor[w] \in {Fresh, Finished} \cup (Nat \X Nat),
           cursor[w] = Fresh => n = 0,
           cursor[w] \notin {Fresh, Finished} => Rank(w, list, cursor[w]) = n,
           NEW step \in GeneratorStep(w)
    PROVE  /\ step.shuffles = ShufflesAfter(w)
           /\ \/ /\ step.result = Stop /\ step.cursor = Finished
                 /\ cursor[w] = Finished \/ n = Share(w, list)
              \/ /\ cursor[w] # Finished /\ n + 1 \in 1 .. Share(w, list)
                 /\ \/ /\ step.result = Nth(w, list, n + 1)
                       /\ step.cursor \in Nat \X Nat /\ Rank(w, list, step.cursor) = n + 1
                    \/ step.result = Failure /\ step.cursor = Finished
<1> DEFINE from == IF cursor[w] = Fresh THEN <<0, 0>> ELSE cursor[w]
           rest == IF cursor[w] = Finished THEN {}
                   ELSE {p \in Positions(w, list) : ~Precedes(p, from)}
           here == CHOOSE p \in rest : \A q \in rest : p = q \/ Precedes(p, q)
           outcome(res, at) == [result |-> res, cursor |-> at,
                                shuffles |-> ShufflesAfter(w)]
           next == <<here[1], here[2] + 1>>
<1>1. step \in IF rest = {} THEN {outcome(Stop, Finished)}
               ELSE {outcome(Sample(w, list, here), next)}
                    \cup (IF MayFail THEN {outcome(Failure, Finished)} ELSE {})
  BY DEF GeneratorStep
<1>2. CASE cursor[w] = Finished
  BY <1>1, <1>2
<1>3. CASE cursor[w] # Finished
  <2>1. from \in Nat \X Nat
    BY <1>3
  <2>2. rest = {p \in Positions(w, list) : ~Precedes(p, from)}
    BY <1>3
  <2>3. Rank(w, list, from) = n
    <3>1. CASE cursor[w] = Fresh
      <4>1. ASSUME NEW p \in Positions(w, list) PROVE ~Precedes(p, <<0, 0>>)
        <5>1. p[1] \in Nat /\ p[2] \in Nat
          BY PositionIs
        <5> QED
          BY <5>1 DEF Precedes
      <4>2. Below(w, list, from) = {}
        BY <3>1, <4>1 DEF Below
      <4> QED
        BY <3>1, <4>2, FS_EmptySet DEF Rank
    <3>2. CASE cursor[w] # Fresh
      BY <1>3, <3>2
    <3> QED
      BY <3>1, <3>2
  <2> HIDE DEF from, rest
  <2>4. rest = {} => n = Share(w, list)
    BY <2>1, <2>2, <2>3, PositionsLeft
  <2>5. rest # {} => /\ next \in Nat \X Nat /\ n + 1 \in 1 .. Share(w, list)
                     /\ Sample(w, list, here) = Nth(w, list, n + 1)
                     /\ Rank(w, list, next) = n + 1
    <3> SUFFICES ASSUME rest # {} PROVE /\ next \in Nat \X Nat /\ n + 1 \in 1 .. Share(w, list)
                                        /\ Sample(w, list, here) = Nth(w, list, n + 1)
                                        /\ Rank(w, list, next) = n + 1
      OBVIOUS
    <3>1. \E p \in rest : \A q \in rest : p = q \/ Precedes(p, q)
      BY <2>1, <2>2, PositionsLeft
    <3>2. here \in rest /\ \A q \in rest : here = q \/ Precedes(here, q)
      BY <3>1, Zenon
    <3> HIDE DEF here
    <3>3. /\ here \in Positions(w, list) /\ ~Precedes(here, from)
          /\ \A q \in Positions(w, list) : Precedes(q, from) \/ here = q \/ Precedes(here, q)
      BY <2>2, <3>2
    <3> QED
      BY <2>1, <2>3, <3>3, NextPosition
  <2> HIDE DEF here, next
  <2>6. CASE rest = {}
    BY <1>1, <2>4, <2>6
  <2>7. CASE rest # {}
    <3>1. \/ step = outcome(Nth(w, list, n + 1), next)
          \/ step = outcome(Failure, Finished)
      BY <1>1, <2>5, <2>7
    <3>2. ASSUME NEW d, NEW at, step = outcome(d, at)
          PROVE  step.result = d /\ step.cursor = at /\ step.shuffles = ShufflesAfter(w)
      BY <3>2
    <3> HIDE DEF outcome
    <3>3. CASE step = outcome(Nth(w, list, n + 1), next)
      <4>1. /\ step.result = Nth(w, list, n + 1) /\ step.cursor = next
            /\ step.shuffles = ShufflesAfter(w)
        BY <3>2, <3>3
      <4> QED
        BY <1>3, <2>5, <2>7, <4>1
    <3>4. CASE step = outcome(Failure, Finished)
      <4>1. /\ step.result = Failure /\ step.cursor = Finished
            /\ step.shuffles = ShufflesAfter(w)
        BY <3>2, <3>4
      <4> QED
        BY <1>3, <2>5, <2>7, <4>1
    <3> QED
      BY <3>1, <3>3, <3>4
  <2> QED
    BY <2>6, <2>7
<1> QED
  BY <1>2, <1>3

----------------------------------------------------------------------------
(* The tasks of the loader. *)

\* The front task is the first that is live.
LEMMA FrontIs ==
    ASSUME PoolTypeOK, LiveTasks # {}
    PROVE  /\ FrontTask \in DOMAIN tasks /\ FrontTask \in Nat /\ Live(FrontTask)
           /\ \A i \in DOMAIN tasks : Live(i) => FrontTask <= i
<1>1. LiveTasks \in SUBSET Nat
  BY DEF PoolTypeOK, LiveTasks
<1>2. FrontTask \in LiveTasks /\ \A i \in LiveTasks : FrontTask <= i
  BY <1>1, MinIsLeast DEF FrontTask
<1> QED
  BY <1>1, <1>2 DEF LiveTasks

\* The index of a worker.
LEMMA WorkerIs == \A w : w \in Workers <=> w \in Nat /\ w < NumWorkers
BY DatasetAssumption DEF Workers

\* A turn is at most a lap ahead.
LEMMA TurnOf ==
    ASSUME NEW c \in Workers, NEW j \in Workers
    PROVE  /\ (c + j) % NumWorkers \in Workers
           /\ (c + j) % NumWorkers = IF c + j < NumWorkers THEN c + j ELSE c + j - NumWorkers
<1>1. c \in Nat /\ j \in Nat /\ c < NumWorkers /\ j < NumWorkers /\ NumWorkers \in Nat
  BY WorkerIs, DatasetAssumption
<1>2. CASE c + j < NumWorkers
  <2>1. (c + j) % NumWorkers = c + j
    BY <1>1, <1>2
  <2> QED
    BY <1>1, <1>2, <2>1, WorkerIs
<1>3. CASE ~(c + j < NumWorkers)
  <2>1. (c + j) % NumWorkers = c + j - NumWorkers
    BY <1>1, <1>3
  <2> QED
    BY <1>1, <1>3, <2>1, WorkerIs
<1> QED
  BY <1>2, <1>3

\* A task is handed out to worker w, and w is the next of those alive.
PutTo(pending, w) ==
    /\ tasks' = [i \in DOMAIN pending \cup {sendIdx} |->
                    IF i = sendIdx THEN [worker |-> w, data |-> Pending] ELSE pending[i]]
    /\ taskQ' = [taskQ EXCEPT ![w] = Append(@, sendIdx)]
    /\ sendIdx' = sendIdx + 1
    /\ cycle' = IF w + 1 < NumWorkers THEN w + 1 ELSE 0
IsNext(alive, w) == \/ cycle <= w /\ \A u \in alive : cycle <= u => w <= u
                    \/ w < cycle /\ \A u \in alive : u < cycle /\ w <= u

\* A task goes to the next of the workers alive, in turn.
LEMMA PutTurn ==
    ASSUME cycle \in Workers, NEW pending, NEW alive \in SUBSET Workers, TryPut(pending, alive)
    PROVE  /\ alive = {} => tasks' = pending /\ UNCHANGED <<taskQ, sendIdx, cycle>>
           /\ alive # {} => \E w \in alive : PutTo(pending, w) /\ IsNext(alive, w)
<1> DEFINE turn(j) == (cycle + j) % NumWorkers
           hops == {j \in 0 .. NumWorkers - 1 : turn(j) \in alive}
           w == turn(Min(hops))
<1>1. NumWorkers \in Nat /\ NumWorkers > 0 /\ cycle \in Nat /\ cycle < NumWorkers
  BY WorkerIs, DatasetAssumption
<1>2. ASSUME NEW j \in 0 .. NumWorkers - 1
      PROVE  turn(j) = IF cycle + j < NumWorkers THEN cycle + j ELSE cycle + j - NumWorkers
  <2>1. j \in Workers
    BY DEF Workers
  <2> QED
    BY <2>1, TurnOf
<1>3. ASSUME NEW u \in alive
      PROVE  \E j \in hops : /\ turn(j) = u
                             /\ j = IF cycle <= u THEN u - cycle ELSE u + NumWorkers - cycle
  <2> DEFINE j == IF cycle <= u THEN u - cycle ELSE u + NumWorkers - cycle
  <2>1. u \in Nat /\ u < NumWorkers
    BY WorkerIs
  <2>2. j \in 0 .. NumWorkers - 1
    BY <1>1, <2>1
  <2>3. turn(j) = u
    <3>1. turn(j) = IF cycle + j < NumWorkers THEN cycle + j ELSE cycle + j - NumWorkers
      BY <1>2, <2>2
    <3> HIDE DEF turn
    <3> QED
      BY <1>1, <2>1, <3>1
  <2> QED
    BY <2>2, <2>3
<1>4. alive = {} => hops = {}
  OBVIOUS
<1>5. CASE alive = {}
  BY <1>4, <1>5 DEF TryPut
<1>6. CASE alive # {}
  <2>1. hops # {}
    BY <1>3, <1>6
  <2>2. /\ tasks' = [i \in DOMAIN pending \cup {sendIdx} |->
                              IF i = sendIdx THEN [worker |-> w, data |-> Pending] ELSE pending[i]]
        /\ taskQ' = [taskQ EXCEPT ![w] = Append(@, sendIdx)]
        /\ sendIdx' = sendIdx + 1
        /\ cycle' = (w + 1) % NumWorkers
    BY <2>1 DEF TryPut
  <2>3. Min(hops) \in hops /\ \A j \in hops : Min(hops) <= j
    <3>1. hops \in SUBSET Nat
      OBVIOUS
    <3> HIDE DEF hops
    <3> QED
      BY <2>1, <3>1, MinIsLeast
  <2> DEFINE m == Min(hops)
  <2>4. m \in 0 .. NumWorkers - 1 /\ w \in alive
    BY <2>3
  <2>5. w = IF cycle + m < NumWorkers THEN cycle + m ELSE cycle + m - NumWorkers
    BY <1>2, <2>4
  <2>6. ASSUME NEW u \in alive
        PROVE  m <= IF cycle <= u THEN u - cycle ELSE u + NumWorkers - cycle
    BY <1>3, <2>3
  <2> HIDE DEF hops, turn, m, w
  <2>7. w \in Nat /\ w < NumWorkers
    BY <2>4, WorkerIs
  <2>8. cycle' = IF w + 1 < NumWorkers THEN w + 1 ELSE 0
    BY <1>1, <2>2, <2>7
  <2>9. \/ cycle <= w /\ \A u \in alive : cycle <= u => w <= u
        \/ w < cycle /\ \A u \in alive : u < cycle /\ w <= u
    <3>1. \A u \in alive : u \in Nat /\ u < NumWorkers
      BY WorkerIs
    <3> QED
      BY <1>1, <2>4, <2>5, <2>6, <3>1
  <2>10. PutTo(pending, w) /\ IsNext(alive, w)
    BY <2>2, <2>8, <2>9 DEF PutTo, IsNext
  <2> QED
    BY <1>6, <2>4, <2>10
<1> QED
  BY <1>5, <1>6

\* Handing out a task keeps the order: it is the next one of its worker, and no task that
\* is pending has a higher rank.
LEMMA PutKeeps ==
    ASSUME PoolTypeOK, NEW pending, NEW alive \in SUBSET Workers, NEW answers,
           NEW rank, NEW made, NEW lap, NEW got, NEW list,
           PoolWith(pending, alive, answers, rank, made, lap, got, list),
           TryPut(pending, alive), active' = alive, dataQ' = answers, UNCHANGED workerVars
    PROVE  \E rank2, lap2 : PoolInv(rank2, made, lap2, got, list)'
<1>p. /\ Ranks(pending, rank, got) /\ Rounds(pending, alive, rank, lap, got)
      /\ Arrivals(pending, alive, answers, rank, made, list)
      /\ Results(pending, answers, rank, made, got, list)
      /\ Queued(pending, alive, rank, made, lap) /\ Generators(pending, answers, made, list)
  BY DEF PoolWith
<1>0. /\ made \in [Workers -> Nat] /\ got \in [Workers -> Nat] /\ lap \in Nat
      /\ cycle \in Workers /\ cycle \in Nat /\ sendIdx \in Nat /\ NumWorkers \in Nat
      /\ \A u \in Workers : u \in Nat /\ u < NumWorkers
      /\ stopped' = stopped /\ cursor' = cursor
      /\ DOMAIN pending \subseteq 0 .. sendIdx - 1
      /\ \A i \in DOMAIN pending : rank[i] \in Nat /\ pending[i] \in Task
  BY <1>p, WorkerIs, DatasetAssumption DEF PoolWith, Rounds, Ranks, PoolTypeOK, workerVars
<1>1. CASE alive = {}
  <2>1. tasks' = pending /\ UNCHANGED <<taskQ, sendIdx, cycle>>
    BY <1>0, <1>1, PutTurn
  <2>2. PoolWith(tasks, active, dataQ, rank, made, lap, got, list)'
    BY <1>0, <1>p, <2>1 DEF PoolWith, Ranks, Rounds, Latest, Arrivals, Results, Queued, Generators
  <2> QED
    BY <1>1, <2>1, <2>2 DEF PoolInv
<1>2. CASE alive # {}
  <2>0. PICK w \in alive : PutTo(pending, w) /\ IsNext(alive, w)
    BY <1>0, <1>2, PutTurn
  <2>1. /\ tasks' = [i \in DOMAIN pending \cup {sendIdx} |->
                        IF i = sendIdx THEN [worker |-> w, data |-> Pending] ELSE pending[i]]
        /\ taskQ' = [taskQ EXCEPT ![w] = Append(@, sendIdx)]
        /\ sendIdx' = sendIdx + 1
        /\ cycle' = IF w + 1 < NumWorkers THEN w + 1 ELSE 0
        /\ \/ cycle <= w /\ \A u \in alive : cycle <= u => w <= u
           \/ w < cycle /\ \A u \in alive : u < cycle /\ w <= u
    BY <2>0 DEF PutTo, IsNext
  <2>t. PICK top : top = Latest(w, lap) + 1
    OBVIOUS
  <2>r. PICK rank2 : rank2 = [i \in 0 .. sendIdx |-> IF i = sendIdx THEN top ELSE rank[i]]
    OBVIOUS
  <2>l. PICK lap2 : lap2 = IF w < cycle \/ w + 1 = NumWorkers THEN lap + 1 ELSE lap
    OBVIOUS
  <2>2. /\ w \in Workers /\ w \in Nat /\ w < NumWorkers
        /\ top \in Nat /\ lap2 \in Nat /\ lap + 1 <= top /\ top <= lap2 + 1 /\ lap <= lap2
    BY <1>0, <2>t, <2>l DEF Latest
  <2>3. ASSUME NEW u \in alive
        PROVE  Latest(u, lap2)' = IF u = w THEN top ELSE Latest(u, lap)
    <3>1. u \in Nat /\ u < NumWorkers
      BY <1>0
    <3>2. CASE u = w
      BY <1>0, <2>1, <2>2, <2>t, <2>l, <3>1, <3>2 DEF Latest
    <3>3. CASE u # w
      BY <1>0, <2>1, <2>2, <2>t, <2>l, <3>1, <3>3 DEF Latest
    <3> QED
      BY <3>2, <3>3
  <2>4. /\ DOMAIN tasks' = DOMAIN pending \cup {sendIdx} /\ sendIdx \notin DOMAIN pending
        /\ tasks'[sendIdx] = [worker |-> w, data |-> Pending] /\ rank2[sendIdx] = top
        /\ \A i \in DOMAIN pending : i \in Nat /\ i < sendIdx /\ tasks'[i] = pending[i] /\ rank2[i] = rank[i]
    BY <1>0, <2>1, <2>r
  <2>5. /\ rank2 \in [0 .. sendIdx' - 1 -> Nat] /\ DOMAIN tasks' \subseteq 0 .. sendIdx' - 1
    BY <1>0, <1>p, <2>1, <2>2, <2>r DEF Ranks
  <2>6. /\ Latest(w, lap) \in Nat /\ \A u \in Workers : Latest(u, lap) \in Nat
    BY <1>0, <2>2 DEF Latest
  <2>7. got[w] < top
    BY <1>0, <1>p, <2>2, <2>6, <2>t DEF Rounds
  <2>8. \A i \in DOMAIN tasks' : tasks'[i] \in Task /\ rank2[i] \in Nat /\ got[tasks'[i].worker] < rank2[i]
    BY <1>0, <1>p, <2>2, <2>4, <2>7 DEF Ranks, Task
  <2>9. \A i, j \in DOMAIN tasks' :
          i < j => /\ rank2[i] <= rank2[j]
                   /\ tasks'[i].worker = tasks'[j].worker => rank2[i] # rank2[j]
    <3> SUFFICES ASSUME NEW i \in DOMAIN tasks', NEW j \in DOMAIN tasks', i < j
                 PROVE  /\ rank2[i] <= rank2[j]
                        /\ tasks'[i].worker = tasks'[j].worker => rank2[i] # rank2[j]
      OBVIOUS
    <3>1. i \in DOMAIN pending
      BY <1>0, <2>4
    <3>2. CASE j \in DOMAIN pending
      BY <1>p, <2>4, <3>1, <3>2 DEF Ranks
    <3>3. CASE j = sendIdx
      <4>1. rank[i] <= lap + 1 /\ (pending[i].worker = w => rank[i] <= Latest(w, lap))
        BY <1>p, <3>1 DEF Rounds
      <4> QED
        BY <1>0, <2>2, <2>4, <2>6, <2>t, <3>1, <3>3, <4>1
    <3> QED
      BY <2>4, <3>2, <3>3
  <2>10. Ranks(tasks, rank2, got)'
    BY <2>5, <2>8, <2>9 DEF Ranks
  <2>11. Rounds(tasks, active, rank2, lap2, got)'
    <3>1. \A i \in DOMAIN tasks' : rank2[i] <= lap2 + 1
      BY <1>0, <1>p, <2>2, <2>4 DEF Rounds
    <3>2. ASSUME NEW u \in alive
          PROVE  /\ got[u] <= Latest(u, lap2)'
                 /\ \A n \in got[u] + 1 .. Latest(u, lap2)' :
                       \E i \in DOMAIN tasks' : tasks'[i].worker = u /\ rank2[i] = n
                 /\ \A i \in DOMAIN tasks' : tasks'[i].worker = u => rank2[i] <= Latest(u, lap2)'
      <4>0. u \in Workers /\ got[u] \in Nat /\ Latest(u, lap) \in Nat
        BY <1>0, <2>6
      <4>1. /\ got[u] <= Latest(u, lap)
            /\ \A n \in got[u] + 1 .. Latest(u, lap) :
                  \E i \in DOMAIN pending : pending[i].worker = u /\ rank[i] = n
            /\ \A i \in DOMAIN pending : pending[i].worker = u => rank[i] <= Latest(u, lap)
        BY <1>p DEF Rounds
      <4>2. CASE u = w
        <5>1. Latest(u, lap2)' = Latest(u, lap) + 1 /\ top = Latest(u, lap) + 1
          BY <2>3, <2>t, <4>2
        <5>2. ASSUME NEW n \in got[u] + 1 .. Latest(u, lap) + 1
              PROVE  \E i \in DOMAIN tasks' : tasks'[i].worker = u /\ rank2[i] = n
          <6>1. CASE n = Latest(u, lap) + 1
            BY <2>4, <4>2, <5>1, <6>1
          <6>2. CASE n # Latest(u, lap) + 1
            <7>1. n \in got[u] + 1 .. Latest(u, lap)
              BY <4>0, <6>2
            <7> QED
              BY <2>4, <4>1, <7>1
          <6> QED
            BY <6>1, <6>2
        <5> QED
          BY <1>0, <2>4, <4>0, <4>1, <5>1, <5>2
      <4>3. CASE u # w
        <5>1. Latest(u, lap2)' = Latest(u, lap)
          BY <2>3, <4>3
        <5> QED
          BY <2>4, <4>1, <4>3, <5>1
      <4> QED
        BY <4>2, <4>3
    <3> QED
      BY <1>0, <2>2, <3>1, <3>2 DEF Rounds
  <2>12. Arrivals(tasks, active, dataQ, rank2, made, list)'
    BY <1>0, <1>p, <2>4 DEF Arrivals
  <2>13. Results(tasks, dataQ, rank2, made, got, list)'
    BY <1>p, <2>4 DEF Results, Answered, OnTheWay
  <2>14. Queued(tasks, active, rank2, made, lap2)'
    <3> SUFFICES ASSUME NEW u \in Workers
                 PROVE  /\ u \notin alive => stopped[u]
                        /\ ~stopped[u] =>
                            /\ \A j \in DOMAIN taskQ'[u] :
                                  /\ taskQ'[u][j] \in DOMAIN tasks'
                                  /\ tasks'[taskQ'[u][j]] = [worker |-> u, data |-> Pending]
                                  /\ rank2[taskQ'[u][j]] = made[u] + j
                            /\ made[u] + Len(taskQ'[u]) = Latest(u, lap2)'
      BY <1>0 DEF Queued
    <3>1. /\ u \notin alive => stopped[u]
          /\ ~stopped[u] =>
              /\ \A j \in DOMAIN taskQ[u] :
                    /\ taskQ[u][j] \in DOMAIN pending
                    /\ pending[taskQ[u][j]] = [worker |-> u, data |-> Pending]
                    /\ rank[taskQ[u][j]] = made[u] + j
              /\ made[u] + Len(taskQ[u]) = Latest(u, lap)
      BY <1>p DEF Queued
    <3>2. taskQ \in [Workers -> Seq(Nat \cup {ResumeIteration})] /\ taskQ[u] \in Seq(Nat \cup {ResumeIteration})
      BY DEF PoolTypeOK
    <3>3. CASE u # w
      <4>1. taskQ'[u] = taskQ[u]
        BY <2>1, <3>2, <3>3
      <4> QED
        BY <2>3, <2>4, <3>1, <3>3, <4>1
    <3>4. CASE u = w
      <4>1. taskQ'[u] = Append(taskQ[u], sendIdx) /\ sendIdx \in Nat \cup {ResumeIteration}
        BY <1>0, <2>1, <3>2, <3>4
      <4>2. /\ Len(taskQ'[u]) = Len(taskQ[u]) + 1 /\ Len(taskQ[u]) \in Nat
            /\ DOMAIN taskQ[u] = 1 .. Len(taskQ[u]) /\ DOMAIN taskQ'[u] = 1 .. Len(taskQ[u]) + 1
            /\ \A j \in 1 .. Len(taskQ[u]) : taskQ'[u][j] = taskQ[u][j]
            /\ taskQ'[u][Len(taskQ[u]) + 1] = sendIdx
        BY <3>2, <4>1
      <4> QED
        <5>1. /\ top = Latest(u, lap) + 1 /\ Latest(u, lap2)' = top
              /\ made[u] \in Nat /\ Latest(u, lap) \in Nat
          BY <1>0, <2>3, <2>6, <2>t, <3>4
        <5>2. ASSUME ~stopped[u], NEW j \in DOMAIN taskQ'[u]
              PROVE  /\ taskQ'[u][j] \in DOMAIN tasks'
                     /\ tasks'[taskQ'[u][j]] = [worker |-> u, data |-> Pending]
                     /\ rank2[taskQ'[u][j]] = made[u] + j
          <6>1. CASE j \in 1 .. Len(taskQ[u])
            BY <2>4, <3>1, <4>2, <5>2, <6>1
          <6>2. CASE j = Len(taskQ[u]) + 1
            <7>1. taskQ'[u][j] = sendIdx
              BY <4>2, <6>2
            <7>2. top = made[u] + j
              BY <3>1, <4>2, <5>1, <5>2, <6>2
            <7> QED
              BY <2>4, <3>4, <7>1, <7>2
          <6> QED
            BY <4>2, <5>2, <6>1, <6>2
        <5> QED
          BY <3>1, <4>2, <5>1, <5>2
    <3> QED
      BY <3>3, <3>4
  <2>15. Generators(tasks, dataQ, made, list)'
    BY <1>0, <1>p, <2>4 DEF Generators, Failed, OnTheWay
  <2>16. LiveTasks' # {}
    BY <2>4 DEF LiveTasks, Live
  <2> QED
    BY <1>0, <2>10, <2>11, <2>12, <2>13, <2>14, <2>15, <2>16 DEF PoolInv, PoolWith
<1> QED
  BY <1>1, <1>2

----------------------------------------------------------------------------
(* What the loader does with its tasks. *)

\* The tasks that are skipped to get to the front task matter to nobody.
LEMMA DropSkipped ==
    ASSUME PoolTypeOK, LiveTasks # {},
           NEW rank, NEW made, NEW lap, NEW got, NEW list, PoolInv(rank, made, lap, got, list)
    PROVE  PoolWith(Beyond(FrontTask - 1), active, dataQ, rank, made, lap, got, list)
<1> DEFINE pending == Beyond(FrontTask - 1)
<1>p. /\ Ranks(tasks, rank, got) /\ Rounds(tasks, active, rank, lap, got)
      /\ Arrivals(tasks, active, dataQ, rank, made, list)
      /\ Results(tasks, dataQ, rank, made, got, list)
      /\ Queued(tasks, active, rank, made, lap) /\ Generators(tasks, dataQ, made, list)
  BY DEF PoolInv, PoolWith
<1>1. FrontTask \in Nat /\ \A i \in DOMAIN tasks : i \in Nat
  BY FrontIs DEF PoolTypeOK
<1>2. /\ DOMAIN pending \subseteq DOMAIN tasks
      /\ \A i \in DOMAIN pending : pending[i] = tasks[i]
      /\ \A i \in DOMAIN tasks : FrontTask <= i => i \in DOMAIN pending
  BY <1>1 DEF Beyond
<1> HIDE DEF pending
<1>3. \A i \in DOMAIN tasks : tasks[i].worker \in active => i \in DOMAIN pending
  BY <1>2, FrontIs DEF Live
<1>4. ASSUME NEW i \in DOMAIN tasks, Answered(tasks, dataQ, i)
      PROVE  i \in DOMAIN pending /\ Answered(pending, dataQ, i)
  <2>1. i \in DOMAIN pending
    <3>1. CASE tasks[i].data # Pending
      BY <1>2, <3>1, FrontIs DEF Live
    <3>2. CASE OnTheWay(dataQ, i) # {}
      <4>1. PICK k \in DOMAIN dataQ : dataQ[k].idx = i /\ dataQ[k].data # Stop
        BY <3>2 DEF OnTheWay
      <4>2. /\ dataQ[k].worker \in active
            /\ tasks[dataQ[k].idx] = [worker |-> dataQ[k].worker, data |-> Pending]
        BY <1>p, <4>1 DEF Arrivals
      <4>3. tasks[i].worker \in active
        BY <4>1, <4>2
      <4> QED
        BY <1>3, <4>3
    <3> QED
      BY <1>4, <3>1, <3>2 DEF Answered
  <2> QED
    BY <1>2, <1>4, <2>1 DEF Answered
<1>5. Ranks(pending, rank, got)
  BY <1>p, <1>2 DEF Ranks
<1>6. Rounds(pending, active, rank, lap, got)
  BY <1>p, <1>2, <1>3 DEF Rounds
<1>7. Arrivals(pending, active, dataQ, rank, made, list)
  <2>1. ASSUME NEW k \in DOMAIN dataQ, dataQ[k].data # Stop
        PROVE  dataQ[k].idx \in DOMAIN pending /\ pending[dataQ[k].idx] = tasks[dataQ[k].idx]
    <3>1. /\ dataQ[k].worker \in active /\ dataQ[k].idx \in DOMAIN tasks
          /\ tasks[dataQ[k].idx] = [worker |-> dataQ[k].worker, data |-> Pending]
      BY <1>p, <2>1 DEF Arrivals
    <3>2. tasks[dataQ[k].idx].worker \in active
      BY <3>1
    <3> QED
      BY <1>2, <1>3, <3>1, <3>2
  <2> QED
    BY <1>p, <2>1 DEF Arrivals
<1>8. Results(pending, dataQ, rank, made, got, list)
  BY <1>p, <1>2, <1>4 DEF Results
<1>9. Queued(pending, active, rank, made, lap)
  <2>1. ASSUME NEW w \in Workers, ~stopped[w], NEW j \in DOMAIN taskQ[w]
        PROVE  taskQ[w][j] \in DOMAIN pending /\ pending[taskQ[w][j]] = tasks[taskQ[w][j]]
    <3>1. /\ w \in active /\ taskQ[w][j] \in DOMAIN tasks
          /\ tasks[taskQ[w][j]] = [worker |-> w, data |-> Pending]
      BY <1>p, <2>1 DEF Queued
    <3>2. tasks[taskQ[w][j]].worker \in active
      BY <3>1
    <3> QED
      BY <1>2, <1>3, <3>1, <3>2
  <2> QED
    BY <1>p, <2>1 DEF Queued
<1>10. ASSUME NEW w, Failed(tasks, dataQ, w) PROVE Failed(pending, dataQ, w)
  <2>1. PICK i \in DOMAIN tasks : /\ tasks[i].worker = w
                                  /\ \/ tasks[i].data = Failure
                                     \/ \E k \in OnTheWay(dataQ, i) : dataQ[k].data = Failure
    BY <1>10 DEF Failed
  <2>2. Answered(tasks, dataQ, i)
    BY <2>1, ResultsDiffer DEF Answered
  <2> QED
    BY <1>2, <1>4, <2>1, <2>2 DEF Failed
<1>11. Generators(pending, dataQ, made, list)
  BY <1>p, <1>10 DEF Generators
<1> QED
  BY <1>5, <1>6, <1>7, <1>8, <1>9, <1>11 DEF PoolInv, PoolWith, pending

\* A task that has a result can be returned.
LEMMA AnsweredIsLive ==
    ASSUME NEW rank, NEW made, NEW lap, NEW got, NEW list, PoolInv(rank, made, lap, got, list),
           NEW i \in DOMAIN tasks, Answered(tasks, dataQ, i)
    PROVE  Live(i)
<1>1. CASE tasks[i].data # Pending
  BY <1>1 DEF Live
<1>2. CASE OnTheWay(dataQ, i) # {}
  <2>1. PICK k \in DOMAIN dataQ : dataQ[k].idx = i /\ dataQ[k].data # Stop
    BY <1>2 DEF OnTheWay
  <2>2. /\ dataQ[k].worker \in active
        /\ tasks[dataQ[k].idx] = [worker |-> dataQ[k].worker, data |-> Pending]
    BY <2>1 DEF PoolInv, PoolWith, Arrivals
  <2>3. tasks[i].worker \in active
    BY <2>1, <2>2
  <2> QED
    BY <2>3 DEF Live
<1> QED
  BY <1>1, <1>2 DEF Answered

\* The head of the queue of results.
LEMMA HeadIs ==
    ASSUME PoolTypeOK, dataQ # << >>
    PROVE  /\ dataQ \in Seq(Message) /\ 1 \in DOMAIN dataQ /\ Head(dataQ) = dataQ[1] /\ dataQ[1] \in Message
           /\ Len(dataQ) \in Nat /\ DOMAIN dataQ = 1 .. Len(dataQ)
           /\ Tail(dataQ) \in Seq(Message) /\ DOMAIN Tail(dataQ) = 1 .. Len(dataQ) - 1
           /\ \A k \in DOMAIN Tail(dataQ) : k + 1 \in DOMAIN dataQ /\ Tail(dataQ)[k] = dataQ[k + 1]
           /\ \A k \in DOMAIN dataQ : k # 1 => k - 1 \in DOMAIN Tail(dataQ) /\ Tail(dataQ)[k - 1] = dataQ[k]
<1>1. dataQ \in Seq(Message)
  BY DEF PoolTypeOK
<1> QED
  BY <1>1

\* A result that is returned is the next sample of its worker, or the failure to read it.
LEMMA FrontReturns ==
    ASSUME PoolTypeOK,
           NEW rank, NEW made, NEW lap, NEW got, NEW list, PoolInv(rank, made, lap, got, list),
           FrontReady \/ Arriving, NEW w, w = tasks[FrontTask].worker
    PROVE  /\ LiveTasks # {} /\ w \in Workers /\ rank[FrontTask] = got[w] + 1
           /\ got[w] + 1 <= made[w] /\ IsNth(w, list, got[w] + 1, Result)
           /\ Answered(tasks, dataQ, FrontTask)
<1>p. /\ Ranks(tasks, rank, got) /\ Arrivals(tasks, active, dataQ, rank, made, list)
      /\ Results(tasks, dataQ, rank, made, got, list)
      /\ made \in [Workers -> Nat] /\ got \in [Workers -> Nat]
  BY DEF PoolInv, PoolWith
<1>1. LiveTasks # {}
  BY DEF FrontReady, Arriving, Waiting
<1>2. /\ FrontTask \in DOMAIN tasks /\ FrontTask \in Nat
      /\ \A i \in DOMAIN tasks : Live(i) => FrontTask <= i
  BY <1>1, FrontIs
<1> DEFINE f == FrontTask
<1>3. tasks[f] \in Task /\ w \in Workers
  BY <1>p, <1>2 DEF Ranks, Task
<1>4. /\ rank[f] <= made[w] /\ IsNth(w, list, rank[f], Result) /\ Answered(tasks, dataQ, f)
  <2>1. CASE FrontReady
    <3>1. tasks[f].data # Pending /\ Result = tasks[f].data
      BY <2>1 DEF FrontReady, Result
    <3> QED
      BY <1>p, <1>2, <3>1 DEF Results, Answered
  <2>2. CASE ~FrontReady
    <3>1. Arriving /\ Result = Head(dataQ).data
      BY <2>2 DEF Result
    <3>2. Head(dataQ) = dataQ[1] /\ 1 \in DOMAIN dataQ
      BY <3>1, HeadIs DEF Arriving, Waiting
    <3>3. dataQ[1].data # Stop /\ dataQ[1].idx = f
      BY <3>1, <3>2 DEF Arriving
    <3>4. /\ tasks[f] = [worker |-> dataQ[1].worker, data |-> Pending]
          /\ rank[f] <= made[dataQ[1].worker]
          /\ IsNth(dataQ[1].worker, list, rank[f], dataQ[1].data)
      BY <1>p, <3>2, <3>3 DEF Arrivals
    <3>5. w = dataQ[1].worker
      BY <3>4
    <3>6. 1 \in OnTheWay(dataQ, f)
      BY <3>2, <3>3 DEF OnTheWay
    <3> QED
      BY <3>1, <3>2, <3>4, <3>5, <3>6 DEF Answered
  <2> QED
    BY <2>1, <2>2
<1>5. got[w] \in Nat /\ made[w] \in Nat /\ rank[f] \in Nat /\ got[w] < rank[f]
  BY <1>p, <1>2, <1>3 DEF Ranks
<1>6. rank[f] = got[w] + 1
  <2> SUFFICES ASSUME rank[f] # got[w] + 1 PROVE FALSE
    OBVIOUS
  <2>1. got[w] + 1 \in got[w] + 1 .. made[w] /\ got[w] + 1 < rank[f]
    BY <1>4, <1>5
  <2>2. PICK i \in DOMAIN tasks :
           tasks[i].worker = w /\ rank[i] = got[w] + 1 /\ Answered(tasks, dataQ, i)
    BY <1>p, <1>3, <2>1 DEF Results
  <2>3. f <= i /\ i # f /\ i \in Nat
    <3>1. Live(i)
      BY <2>2, AnsweredIsLive
    <3> QED
      BY <1>p, <1>2, <2>1, <2>2, <3>1 DEF Ranks
  <2>4. rank[f] <= rank[i]
    BY <1>p, <1>2, <2>3 DEF Ranks
  <2> QED
    BY <1>5, <2>1, <2>2, <2>4
<1> QED
  BY <1>1, <1>3, <1>4, <1>5, <1>6

\* The front task is removed with its result.
LEMMA TakeFront ==
    ASSUME PoolTypeOK,
           NEW rank, NEW made, NEW lap, NEW got, NEW list, PoolInv(rank, made, lap, got, list),
           FrontReady \/ Arriving, Result # Failure,
           NEW w, w = tasks[FrontTask].worker, NEW got2, got2 = [got EXCEPT ![w] = @ + 1],
           NEW answers, answers = IF FrontReady THEN dataQ ELSE Tail(dataQ)
    PROVE  PoolWith(Beyond(FrontTask), active, answers, rank, made, lap, got2, list)
<1>f. /\ LiveTasks # {} /\ w \in Workers /\ rank[FrontTask] = got[w] + 1
      /\ got[w] + 1 <= made[w] /\ IsNth(w, list, got[w] + 1, Result)
  BY FrontReturns
<1>l. /\ FrontTask \in DOMAIN tasks /\ FrontTask \in Nat /\ \A i \in DOMAIN tasks : i \in Nat
  BY <1>f, FrontIs DEF PoolTypeOK
<1>d. PICK old : old = Beyond(FrontTask - 1)
  OBVIOUS
<1>n. PICK new : new = Beyond(FrontTask)
  OBVIOUS
<1>t. PICK f : f = FrontTask
  OBVIOUS
<1>1. PoolWith(old, active, dataQ, rank, made, lap, got, list)
  BY <1>d, <1>f, DropSkipped
<1>p. /\ made \in [Workers -> Nat] /\ got \in [Workers -> Nat]
      /\ Ranks(old, rank, got) /\ Rounds(old, active, rank, lap, got)
      /\ Arrivals(old, active, dataQ, rank, made, list)
      /\ Results(old, dataQ, rank, made, got, list)
      /\ Queued(old, active, rank, made, lap) /\ Generators(old, dataQ, made, list)
  BY <1>1 DEF PoolWith
<1>2. /\ f \in DOMAIN old /\ old[f] = tasks[f] /\ old[f].worker = w /\ rank[f] = got[w] + 1
      /\ \A i \in DOMAIN old : i \in Nat /\ f <= i /\ (i # f => i \in DOMAIN new)
      /\ \A i \in DOMAIN new : i \in DOMAIN old /\ i \in Nat /\ f < i /\ i # f /\ new[i] = old[i]
  BY <1>d, <1>f, <1>l, <1>n, <1>t DEF Beyond
<1>3. /\ \A u \in Workers : got[u] \in Nat /\ made[u] \in Nat
      /\ got2 \in [Workers -> Nat] /\ got2[w] = got[w] + 1
      /\ \A u \in Workers : u # w => got2[u] = got[u]
  BY <1>f, <1>p
<1>4. \A i \in DOMAIN old : rank[i] \in Nat /\ old[i].worker \in Workers
  BY <1>p DEF Ranks, Task
<1>5. \A i \in DOMAIN old : old[i].worker = w /\ i # f => rank[f] < rank[i]
  BY <1>2, <1>4, <1>p DEF Ranks
<1>6. ASSUME NEW i \in DOMAIN old, NEW u \in Workers, old[i].worker = u, got2[u] < rank[i]
      PROVE  i # f
  BY <1>2, <1>3, <1>4, <1>6
\* What the queue loses is at most the result of the front task.
<1>7. /\ DOMAIN dataQ \subseteq Nat
      /\ \A k \in DOMAIN dataQ : dataQ[k].data # Stop =>
            /\ dataQ[k].idx \in DOMAIN old
            /\ old[dataQ[k].idx] = [worker |-> dataQ[k].worker, data |-> Pending]
            /\ \A l \in DOMAIN dataQ :
                  dataQ[l].data # Stop /\ k # l => dataQ[k].idx # dataQ[l].idx
  <2>1. DOMAIN dataQ \subseteq Nat
    BY DEF PoolTypeOK
  <2> QED
    BY <1>p, <2>1 DEF Arrivals
<1>8. \E gone \in {0, 1} :
         /\ \A k \in DOMAIN answers :
               /\ k \in Nat /\ k + gone \in DOMAIN dataQ /\ answers[k] = dataQ[k + gone]
               /\ answers[k].data # Stop => answers[k].idx # f
         /\ \A k \in DOMAIN dataQ : dataQ[k].data # Stop /\ dataQ[k].idx # f =>
               k - gone \in DOMAIN answers /\ answers[k - gone] = dataQ[k]
         /\ \A k \in DOMAIN dataQ : dataQ[k].data # Stop /\ dataQ[k].idx = f =>
               dataQ[k].data # Failure
         /\ old[f].data # Failure
  <2>1. CASE FrontReady
    <3>1. answers = dataQ /\ old[f].data # Pending /\ Result = old[f].data
      BY <1>2, <1>t, <2>1 DEF FrontReady, Result
    <3>2. ASSUME NEW k \in DOMAIN dataQ, dataQ[k].data # Stop PROVE dataQ[k].idx # f
      <4>1. old[dataQ[k].idx] = [worker |-> dataQ[k].worker, data |-> Pending]
        BY <1>7, <3>2
      <4>2. old[dataQ[k].idx].data = Pending
        BY <4>1
      <4> QED
        BY <3>1, <4>2
    <3>3. \A k \in DOMAIN dataQ : k \in Nat /\ k + 0 = k /\ k - 0 = k
      BY <1>7
    <3> QED
      BY <3>1, <3>2, <3>3
  <2>2. CASE ~FrontReady
    <3>1. Arriving /\ answers = Tail(dataQ) /\ Result = Head(dataQ).data
      BY <2>2 DEF Result
    <3>2. /\ 1 \in DOMAIN dataQ /\ Head(dataQ) = dataQ[1]
          /\ DOMAIN Tail(dataQ) = 1 .. Len(dataQ) - 1 /\ Len(dataQ) \in Nat
          /\ \A k \in DOMAIN Tail(dataQ) : k + 1 \in DOMAIN dataQ /\ Tail(dataQ)[k] = dataQ[k + 1]
          /\ \A k \in DOMAIN dataQ : k # 1 => k - 1 \in DOMAIN Tail(dataQ) /\ Tail(dataQ)[k - 1] = dataQ[k]
      BY <3>1, HeadIs DEF Arriving, Waiting
    <3>3. dataQ[1].data # Stop /\ dataQ[1].idx = f /\ dataQ[1].data # Failure
      BY <1>t, <3>1, <3>2 DEF Arriving
    <3>4. old[f].data # Failure
      <4>1. old[dataQ[1].idx] = [worker |-> dataQ[1].worker, data |-> Pending]
        BY <1>7, <3>2, <3>3
      <4>2. old[f].data = Pending
        BY <3>3, <4>1
      <4> QED
        BY <4>2, ResultsDiffer
    <3>5. ASSUME NEW k \in DOMAIN dataQ, dataQ[k].data # Stop
          PROVE  dataQ[k].idx = f <=> k = 1
      BY <1>7, <3>2, <3>3, <3>5
    <3>6. ASSUME NEW k \in DOMAIN answers
          PROVE  /\ k \in Nat /\ k + 1 \in DOMAIN dataQ /\ answers[k] = dataQ[k + 1]
                 /\ answers[k].data # Stop => answers[k].idx # f
      <4>1. k \in Nat /\ k + 1 # 1 /\ k + 1 \in DOMAIN dataQ /\ answers[k] = dataQ[k + 1]
        BY <3>1, <3>2
      <4> QED
        BY <3>5, <4>1
    <3>7. ASSUME NEW k \in DOMAIN dataQ, dataQ[k].data # Stop, dataQ[k].idx # f
          PROVE  k - 1 \in DOMAIN answers /\ answers[k - 1] = dataQ[k]
      BY <3>1, <3>2, <3>5, <3>7
    <3> QED
      BY <3>3, <3>4, <3>5, <3>6, <3>7
  <2> QED
    BY <2>1, <2>2
<1>9. PICK gone \in {0, 1} :
         /\ \A k \in DOMAIN answers :
               /\ k \in Nat /\ k + gone \in DOMAIN dataQ /\ answers[k] = dataQ[k + gone]
               /\ answers[k].data # Stop => answers[k].idx # f
         /\ \A k \in DOMAIN dataQ : dataQ[k].data # Stop /\ dataQ[k].idx # f =>
               k - gone \in DOMAIN answers /\ answers[k - gone] = dataQ[k]
         /\ \A k \in DOMAIN dataQ : dataQ[k].data # Stop /\ dataQ[k].idx = f =>
               dataQ[k].data # Failure
         /\ old[f].data # Failure
  BY <1>8
<1>10. ASSUME NEW i \in DOMAIN old, i # f, Answered(old, dataQ, i)
       PROVE  i \in DOMAIN new /\ Answered(new, answers, i)
  <2>1. i \in DOMAIN new /\ new[i] = old[i]
    BY <1>2, <1>10
  <2>2. CASE old[i].data # Pending
    BY <2>1, <2>2 DEF Answered
  <2>3. CASE OnTheWay(dataQ, i) # {}
    <3>1. PICK k \in DOMAIN dataQ : dataQ[k].idx = i /\ dataQ[k].data # Stop
      BY <2>3 DEF OnTheWay
    <3>2. k - gone \in DOMAIN answers /\ answers[k - gone] = dataQ[k]
      BY <1>9, <1>10, <3>1
    <3>3. k - gone \in OnTheWay(answers, i)
      BY <3>1, <3>2 DEF OnTheWay
    <3> QED
      BY <2>1, <3>3 DEF Answered
  <2> QED
    BY <1>10, <2>2, <2>3 DEF Answered
<1>11. Ranks(new, rank, got2)
  <2>1. ASSUME NEW i \in DOMAIN new PROVE got2[new[i].worker] < rank[i]
    <3>1. i \in DOMAIN old /\ i # f /\ new[i] = old[i] /\ old[i].worker \in Workers
      BY <1>2, <1>4
    <3>2. got[old[i].worker] < rank[i]
      BY <1>p, <3>1 DEF Ranks
    <3>3. old[i].worker = w => rank[f] < rank[i]
      BY <1>5, <3>1
    <3> QED
      BY <1>2, <1>3, <3>1, <3>2, <3>3
  <2> QED
    BY <1>2, <1>p, <2>1 DEF Ranks
<1>12. Rounds(new, active, rank, lap, got2)
  <2>1. ASSUME NEW u \in active
        PROVE  /\ got2[u] <= Latest(u, lap)
               /\ \A n \in got2[u] + 1 .. Latest(u, lap) :
                     \E i \in DOMAIN new : new[i].worker = u /\ rank[i] = n
               /\ \A i \in DOMAIN new : new[i].worker = u => rank[i] <= Latest(u, lap)
    <3>1. u \in Workers /\ Latest(u, lap) \in Int
      BY <1>p, WorkerIs DEF PoolTypeOK, Latest, Rounds
    <3>2. /\ got[u] <= Latest(u, lap)
          /\ \A n \in got[u] + 1 .. Latest(u, lap) :
                \E i \in DOMAIN old : old[i].worker = u /\ rank[i] = n
          /\ \A i \in DOMAIN old : old[i].worker = u => rank[i] <= Latest(u, lap)
      BY <1>p DEF Rounds
    <3>3. got2[u] <= Latest(u, lap)
      BY <1>2, <1>3, <3>1, <3>2
    <3>4. ASSUME NEW n \in got2[u] + 1 .. Latest(u, lap)
          PROVE  \E i \in DOMAIN new : new[i].worker = u /\ rank[i] = n
      <4>1. n \in got[u] + 1 .. Latest(u, lap) /\ got2[u] < n
        BY <1>3, <3>1
      <4>2. PICK i \in DOMAIN old : old[i].worker = u /\ rank[i] = n
        BY <3>2, <4>1
      <4> QED
        BY <1>2, <1>6, <3>1, <4>1, <4>2
    <3> QED
      BY <1>2, <3>2, <3>3, <3>4
  <2> QED
    BY <1>2, <1>p, <2>1 DEF Rounds
<1>13. Arrivals(new, active, answers, rank, made, list)
  <2> SUFFICES ASSUME NEW k \in DOMAIN answers
               PROVE  /\ answers[k].worker \in active
                      /\ answers[k].data = Stop =>
                            /\ stopped[answers[k].worker]
                            /\ \A l \in DOMAIN answers :
                                  k < l => answers[l].worker # answers[k].worker
                      /\ answers[k].data # Stop =>
                            /\ answers[k].idx \in DOMAIN new
                            /\ new[answers[k].idx] = [worker |-> answers[k].worker, data |-> Pending]
                            /\ rank[answers[k].idx] <= made[answers[k].worker]
                            /\ IsNth(answers[k].worker, list, rank[answers[k].idx], answers[k].data)
                            /\ \A l \in DOMAIN answers :
                                  answers[l].data # Stop /\ k # l => answers[k].idx # answers[l].idx
    BY DEF Arrivals
  <2>1. k \in Nat /\ k + gone \in DOMAIN dataQ /\ answers[k] = dataQ[k + gone]
    BY <1>9
  <2>2. ASSUME NEW l \in DOMAIN answers
        PROVE  /\ l \in Nat /\ l + gone \in DOMAIN dataQ /\ answers[l] = dataQ[l + gone]
               /\ k < l => k + gone < l + gone
               /\ k # l => k + gone # l + gone
    BY <1>9, <2>1
  <2>3. answers[k].worker \in active
    BY <1>p, <2>1 DEF Arrivals
  <2>4. ASSUME answers[k].data = Stop
        PROVE  /\ stopped[answers[k].worker]
               /\ \A l \in DOMAIN answers : k < l => answers[l].worker # answers[k].worker
    <3> DEFINE m == k + gone
    <3>1. m \in DOMAIN dataQ /\ answers[k] = dataQ[m] /\ dataQ[m].data = Stop
      BY <2>1, <2>4
    <3>2. ASSUME NEW l \in DOMAIN answers
          PROVE  /\ l + gone \in DOMAIN dataQ /\ answers[l] = dataQ[l + gone]
                 /\ k < l => m < l + gone
      BY <2>2
    <3> HIDE DEF m
    <3>3. /\ stopped[dataQ[m].worker]
          /\ \A l \in DOMAIN dataQ : m < l => dataQ[l].worker # dataQ[m].worker
      BY <1>p, <3>1 DEF Arrivals
    <3>4. ASSUME NEW l \in DOMAIN answers, k < l PROVE answers[l].worker # answers[k].worker
      BY <3>1, <3>2, <3>3, <3>4
    <3> QED
      BY <3>1, <3>3, <3>4
  <2>5. ASSUME answers[k].data # Stop
        PROVE  /\ answers[k].idx \in DOMAIN old
               /\ old[answers[k].idx] = [worker |-> answers[k].worker, data |-> Pending]
               /\ rank[answers[k].idx] <= made[answers[k].worker]
               /\ IsNth(answers[k].worker, list, rank[answers[k].idx], answers[k].data)
               /\ \A l \in DOMAIN answers :
                     answers[l].data # Stop /\ k # l => answers[k].idx # answers[l].idx
    <3> DEFINE m == k + gone
    <3>1. m \in DOMAIN dataQ /\ answers[k] = dataQ[m] /\ dataQ[m].data # Stop
      BY <2>1, <2>5
    <3>2. ASSUME NEW l \in DOMAIN answers
          PROVE  /\ l + gone \in DOMAIN dataQ /\ answers[l] = dataQ[l + gone]
                 /\ k # l => m # l + gone
      BY <2>2
    <3> HIDE DEF m
    <3>3. /\ dataQ[m].idx \in DOMAIN old
          /\ old[dataQ[m].idx] = [worker |-> dataQ[m].worker, data |-> Pending]
          /\ rank[dataQ[m].idx] <= made[dataQ[m].worker]
          /\ IsNth(dataQ[m].worker, list, rank[dataQ[m].idx], dataQ[m].data)
          /\ \A l \in DOMAIN dataQ :
                dataQ[l].data # Stop /\ m # l => dataQ[m].idx # dataQ[l].idx
      BY <1>p, <3>1 DEF Arrivals
    <3>4. ASSUME NEW l \in DOMAIN answers, answers[l].data # Stop, k # l
          PROVE  answers[k].idx # answers[l].idx
      BY <3>1, <3>2, <3>3, <3>4
    <3> QED
      BY <3>1, <3>3, <3>4
  <2>6. ASSUME answers[k].data # Stop
        PROVE  answers[k].idx \in DOMAIN new /\ new[answers[k].idx] = old[answers[k].idx]
    BY <1>2, <1>9, <2>5, <2>6
  <2> QED
    BY <2>3, <2>4, <2>5, <2>6
<1>14. Results(new, answers, rank, made, got2, list)
  <2>1. ASSUME NEW i \in DOMAIN new, new[i].data # Pending
        PROVE  rank[i] <= made[new[i].worker] /\ IsNth(new[i].worker, list, rank[i], new[i].data)
    BY <1>2, <1>p, <2>1 DEF Results
  <2>2. ASSUME NEW u \in Workers PROVE got2[u] <= made[u] /\ got2[u] <= Share(u, list)
    <3>1. got[u] <= made[u] /\ got[u] <= Share(u, list)
      BY <1>p DEF Results
    <3> QED
      BY <1>3, <1>f, <3>1 DEF IsNth
  <2>3. ASSUME NEW u \in Workers, NEW n \in got2[u] + 1 .. made[u]
        PROVE  \E i \in DOMAIN new : new[i].worker = u /\ rank[i] = n /\ Answered(new, answers, i)
    <3>1. n \in got[u] + 1 .. made[u] /\ got2[u] < n
      BY <1>3
    <3>2. PICK i \in DOMAIN old : old[i].worker = u /\ rank[i] = n /\ Answered(old, dataQ, i)
      BY <1>p, <3>1 DEF Results
    <3>3. i # f
      BY <1>6, <3>1, <3>2
    <3> QED
      BY <1>2, <1>10, <3>2, <3>3
  <2> QED
    BY <2>1, <2>2, <2>3 DEF Results
<1>15. Queued(new, active, rank, made, lap)
  <2> SUFFICES ASSUME NEW u \in Workers
               PROVE  /\ u \notin active => stopped[u]
                      /\ ~stopped[u] =>
                            /\ \A j \in DOMAIN taskQ[u] :
                                  /\ taskQ[u][j] \in DOMAIN new
                                  /\ new[taskQ[u][j]] = [worker |-> u, data |-> Pending]
                                  /\ rank[taskQ[u][j]] = made[u] + j
                            /\ made[u] + Len(taskQ[u]) = Latest(u, lap)
    BY DEF Queued
  <2>1. /\ u \notin active => stopped[u]
        /\ ~stopped[u] =>
              /\ \A j \in DOMAIN taskQ[u] :
                    /\ taskQ[u][j] \in DOMAIN old
                    /\ old[taskQ[u][j]] = [worker |-> u, data |-> Pending]
                    /\ rank[taskQ[u][j]] = made[u] + j
              /\ made[u] + Len(taskQ[u]) = Latest(u, lap)
    BY <1>p DEF Queued
  <2>2. ASSUME ~stopped[u], NEW j \in DOMAIN taskQ[u] PROVE taskQ[u][j] # f
    <3> SUFFICES ASSUME taskQ[u][j] = f PROVE FALSE
      OBVIOUS
    <3>1. old[f].worker = u /\ rank[f] = made[u] + j
      BY <2>1, <2>2
    <3>2. j \in Nat /\ j > 0
      BY DEF PoolTypeOK
    <3> QED
      BY <1>2, <1>3, <1>f, <3>1, <3>2
  <2> QED
    BY <1>2, <2>1, <2>2
<1>16. Generators(new, answers, made, list)
  <2>1. ASSUME NEW u, Failed(old, dataQ, u) PROVE Failed(new, answers, u)
    <3>1. PICK i \in DOMAIN old :
             /\ old[i].worker = u
             /\ \/ old[i].data = Failure
                \/ \E k \in OnTheWay(dataQ, i) : dataQ[k].data = Failure
      BY <2>1 DEF Failed
    <3>2. i # f
      BY <1>9, <3>1 DEF OnTheWay
    <3>3. i \in DOMAIN new /\ new[i] = old[i]
      BY <1>2, <3>2
    <3>4. CASE old[i].data = Failure
      BY <3>1, <3>3, <3>4 DEF Failed
    <3>5. CASE \E k \in OnTheWay(dataQ, i) : dataQ[k].data = Failure
      <4>1. PICK k \in DOMAIN dataQ : dataQ[k].idx = i /\ dataQ[k].data # Stop /\ dataQ[k].data = Failure
        BY <3>5 DEF OnTheWay
      <4>2. k - gone \in DOMAIN answers /\ answers[k - gone] = dataQ[k]
        BY <1>9, <3>2, <4>1
      <4>3. k - gone \in OnTheWay(answers, i) /\ answers[k - gone].data = Failure
        BY <4>1, <4>2 DEF OnTheWay
      <4> QED
        BY <3>1, <3>3, <4>3 DEF Failed
    <3> QED
      BY <3>1, <3>4, <3>5
  <2> QED
    BY <1>p, <2>1 DEF Generators
<1> QED
  BY <1>3, <1>11, <1>12, <1>13, <1>14, <1>15, <1>16, <1>n, <1>p DEF PoolWith

\* The step that returns a sample.
LEMMA ReturnKeeps ==
    ASSUME PoolTypeOK,
           NEW rank, NEW made, NEW lap, NEW got, NEW list, PoolInv(rank, made, lap, got, list),
           Return, Result # Failure,
           NEW w, w = tasks[FrontTask].worker, NEW got2, got2 = [got EXCEPT ![w] = @ + 1]
    PROVE  \E rank2, lap2 : PoolInv(rank2, made, lap2, got2, list)'
<1>1. PICK answers : answers = IF FrontReady THEN dataQ ELSE Tail(dataQ)
  OBVIOUS
<1>2. PICK pending : pending = Beyond(FrontTask)
  OBVIOUS
<1>3. PICK alive : alive = active
  OBVIOUS
<1>4. /\ FrontReady \/ Arriving
      /\ dataQ' = answers
      /\ TryPut(pending, alive) /\ active' = alive /\ UNCHANGED workerVars
  BY <1>1, <1>2, <1>3 DEF Return
<1>5. PoolWith(pending, alive, answers, rank, made, lap, got2, list)
  BY <1>1, <1>2, <1>3, <1>4, TakeFront
<1>6. alive \in SUBSET Workers
  BY <1>3 DEF PoolTypeOK
<1> QED
  BY <1>4, <1>5, <1>6, PutKeeps

\* A worker's notice is the last that is heard of it.
LEMMA NoticeEnds ==
    ASSUME PoolTypeOK, NEW old, NEW rank, NEW made, NEW lap, NEW got, NEW list,
           PoolWith(old, active, dataQ, rank, made, lap, got, list),
           dataQ # << >>, Head(dataQ).data = Stop, NEW u, u = Head(dataQ).worker,
           NEW alive, alive = active \ {u}, NEW answers, answers = Tail(dataQ)
    PROVE  PoolWith(old, alive, answers, rank, made, lap, got, list)
<1>p. /\ made \in [Workers -> Nat] /\ got \in [Workers -> Nat]
      /\ Ranks(old, rank, got) /\ Rounds(old, active, rank, lap, got)
      /\ Arrivals(old, active, dataQ, rank, made, list)
      /\ Results(old, dataQ, rank, made, got, list)
      /\ Queued(old, active, rank, made, lap) /\ Generators(old, dataQ, made, list)
  BY DEF PoolWith
<1>h. /\ 1 \in DOMAIN dataQ /\ Head(dataQ) = dataQ[1] /\ Len(dataQ) \in Nat
      /\ DOMAIN dataQ = 1 .. Len(dataQ) /\ DOMAIN answers = 1 .. Len(dataQ) - 1
      /\ \A k \in DOMAIN answers : k + 1 \in DOMAIN dataQ /\ answers[k] = dataQ[k + 1]
      /\ \A k \in DOMAIN dataQ : k # 1 => k - 1 \in DOMAIN answers /\ answers[k - 1] = dataQ[k]
  BY HeadIs
<1>1. dataQ[1].data = Stop /\ dataQ[1].worker = u
  BY <1>h
<1>2. stopped[u] /\ \A l \in DOMAIN dataQ : 1 < l => dataQ[l].worker # u
  <2>1. PICK k \in DOMAIN dataQ : k = 1
    BY <1>h
  <2>2. dataQ[k].data = Stop /\ dataQ[k].worker = u
    BY <1>1, <2>1
  <2>3. stopped[u] /\ \A l \in DOMAIN dataQ : k < l => dataQ[l].worker # u
    BY <1>p, <2>2 DEF Arrivals
  <2> QED
    BY <2>1, <2>3
<1>3. \A i : \A k \in OnTheWay(dataQ, i) :
          k - 1 \in OnTheWay(answers, i) /\ answers[k - 1] = dataQ[k]
  BY <1>1, <1>h DEF OnTheWay
<1>4. \A i : Answered(old, dataQ, i) => Answered(old, answers, i)
  BY <1>3 DEF Answered
<1>5. Rounds(old, alive, rank, lap, got)
  BY <1>p DEF Rounds
<1>6. Arrivals(old, alive, answers, rank, made, list)
  <2> SUFFICES ASSUME NEW k \in DOMAIN answers
               PROVE  /\ answers[k].worker \in alive
                      /\ answers[k].data = Stop =>
                            /\ stopped[answers[k].worker]
                            /\ \A l \in DOMAIN answers :
                                  k < l => answers[l].worker # answers[k].worker
                      /\ answers[k].data # Stop =>
                            /\ answers[k].idx \in DOMAIN old
                            /\ old[answers[k].idx] = [worker |-> answers[k].worker, data |-> Pending]
                            /\ rank[answers[k].idx] <= made[answers[k].worker]
                            /\ IsNth(answers[k].worker, list, rank[answers[k].idx], answers[k].data)
                            /\ \A l \in DOMAIN answers :
                                  answers[l].data # Stop /\ k # l => answers[k].idx # answers[l].idx
    BY DEF Arrivals
  <2> DEFINE m == k + 1
  <2>1. m \in DOMAIN dataQ /\ 1 < m /\ answers[k] = dataQ[m]
    BY <1>h
  <2>2. ASSUME NEW l \in DOMAIN answers
        PROVE  /\ l + 1 \in DOMAIN dataQ /\ answers[l] = dataQ[l + 1]
               /\ k < l => m < l + 1
               /\ k # l => m # l + 1
    BY <1>h
  <2> HIDE DEF m
  <2>3. dataQ[m].worker \in active /\ dataQ[m].worker # u
    BY <1>2, <1>p, <2>1 DEF Arrivals
  <2>4. ASSUME dataQ[m].data = Stop
        PROVE  /\ stopped[dataQ[m].worker]
               /\ \A l \in DOMAIN dataQ : m < l => dataQ[l].worker # dataQ[m].worker
    BY <1>p, <2>1, <2>4 DEF Arrivals
  <2>5. ASSUME dataQ[m].data # Stop
        PROVE  /\ dataQ[m].idx \in DOMAIN old
               /\ old[dataQ[m].idx] = [worker |-> dataQ[m].worker, data |-> Pending]
               /\ rank[dataQ[m].idx] <= made[dataQ[m].worker]
               /\ IsNth(dataQ[m].worker, list, rank[dataQ[m].idx], dataQ[m].data)
               /\ \A l \in DOMAIN dataQ :
                     dataQ[l].data # Stop /\ m # l => dataQ[m].idx # dataQ[l].idx
    BY <1>p, <2>1, <2>5 DEF Arrivals
  <2>6. ASSUME answers[k].data # Stop, NEW l \in DOMAIN answers, answers[l].data # Stop, k # l
        PROVE  answers[k].idx # answers[l].idx
    BY <2>1, <2>2, <2>5, <2>6
  <2>7. ASSUME answers[k].data = Stop, NEW l \in DOMAIN answers, k < l
        PROVE  answers[l].worker # answers[k].worker
    BY <2>1, <2>2, <2>4, <2>7
  <2> QED
    BY <2>1, <2>3, <2>4, <2>5, <2>6, <2>7
<1>7. Results(old, answers, rank, made, got, list)
  BY <1>4, <1>p DEF Results
<1>8. Queued(old, alive, rank, made, lap)
  BY <1>2, <1>p DEF Queued
<1>9. \A w : Failed(old, dataQ, w) => Failed(old, answers, w)
  <2>1. ASSUME NEW w, Failed(old, dataQ, w) PROVE Failed(old, answers, w)
    <3>1. PICK i \in DOMAIN old :
             /\ old[i].worker = w
             /\ \/ old[i].data = Failure
                \/ \E k \in OnTheWay(dataQ, i) : dataQ[k].data = Failure
      BY <2>1 DEF Failed
    <3> QED
      BY <1>3, <3>1 DEF Failed
  <2> QED
    BY <2>1
<1>10. Generators(old, answers, made, list)
  BY <1>9, <1>p DEF Generators
<1> QED
  BY <1>5, <1>6, <1>7, <1>8, <1>10, <1>p DEF PoolWith

LEMMA MarkStoppedKeeps ==
    ASSUME PoolTypeOK,
           NEW rank, NEW made, NEW lap, NEW got, NEW list, PoolInv(rank, made, lap, got, list),
           MarkStopped
    PROVE  \E rank2, lap2 : PoolInv(rank2, made, lap2, got, list)'
<1>1. PICK answers : answers = Tail(dataQ)
  OBVIOUS
<1>2. PICK pending : pending = Beyond(FrontTask - 1)
  OBVIOUS
<1>3. PICK u : u = Head(dataQ).worker
  OBVIOUS
<1>4. PICK alive : alive = active \ {u}
  OBVIOUS
<1>5. /\ LiveTasks # {} /\ dataQ # << >> /\ Head(dataQ).data = Stop /\ dataQ' = answers
      /\ active' = alive /\ UNCHANGED workerVars
  BY <1>1, <1>3, <1>4 DEF MarkStopped, Waiting
<1>6. TryPut(pending, alive)
  <2>1. TryPut(pending, active')
    BY <1>2 DEF MarkStopped
  <2> QED
    BY <1>5, <2>1 DEF TryPut
<1>7. PoolWith(pending, active, dataQ, rank, made, lap, got, list)
  BY <1>2, <1>5, DropSkipped
<1>8. PoolWith(pending, alive, answers, rank, made, lap, got, list)
  BY <1>1, <1>3, <1>4, <1>5, <1>7, NoticeEnds
<1>9. alive \in SUBSET Workers
  BY <1>4 DEF PoolTypeOK
<1> QED
  BY <1>5, <1>6, <1>8, <1>9, PutKeeps

\* What a worker yields is a sample.
LEMMA NthIsSample ==
    ASSUME NEW w \in Workers, NEW list, IsList(list), NEW n \in 1 .. Share(w, list)
    PROVE  Nth(w, list, n) \in Samples /\ Nth(w, list, n).worker = w
<1> DEFINE p == PositionOf(w, list, n)
<1>1. n \in 1 .. Cardinality(Positions(w, list))
  BY DEF Share
<1>2. p \in Positions(w, list) /\ Nth(w, list, n) = Sample(w, list, p)
  BY <1>1, NthIsAt
<1>3. p[2] \in Nat /\ list[p[1]] \in Segments
  BY <1>2, PositionIs
<1> HIDE DEF p
<1>4. Sample(w, list, p) = [seg |-> list[p[1]], seq |-> p[2],
                            finished |-> p[2] = NumSeqs(list[p[1]]) - 1, worker |-> w]
  BY DEF Sample
<1>5. Sample(w, list, p) \in Samples /\ Sample(w, list, p).worker = w
  BY <1>3, <1>4 DEF Samples
<1> QED
  BY <1>2, <1>5

\* A result that is not returned yet is kept.
LEMMA StoreKeeps ==
    ASSUME PoolTypeOK, NEW rank, NEW made, NEW lap, NEW got, NEW list, IsList(list),
           PoolInv(rank, made, lap, got, list), Store
    PROVE  PoolInv(rank, made, lap, got, list)'
<1>s. /\ LiveTasks # {} /\ dataQ # << >> /\ Head(dataQ).data # Stop /\ dataQ' = Tail(dataQ)
      /\ tasks' = [Beyond(FrontTask - 1) EXCEPT ![Head(dataQ).idx].data = Head(dataQ).data]
      /\ UNCHANGED <<shuffles, cursor, stopped, taskQ, sendIdx, active, cycle>>
  BY DEF Store, Waiting, workerVars
<1>d. PICK old : old = Beyond(FrontTask - 1)
  OBVIOUS
<1>o. PoolWith(old, active, dataQ, rank, made, lap, got, list)
  BY <1>d, <1>s, DropSkipped
<1>p. /\ made \in [Workers -> Nat] /\ got \in [Workers -> Nat]
      /\ Ranks(old, rank, got) /\ Rounds(old, active, rank, lap, got)
      /\ Arrivals(old, active, dataQ, rank, made, list)
      /\ Results(old, dataQ, rank, made, got, list)
      /\ Queued(old, active, rank, made, lap) /\ Generators(old, dataQ, made, list)
  BY <1>o DEF PoolWith
<1>q. PICK answers : answers = Tail(dataQ)
  OBVIOUS
<1>h. /\ 1 \in DOMAIN dataQ /\ Head(dataQ) = dataQ[1] /\ Len(dataQ) \in Nat
      /\ DOMAIN dataQ = 1 .. Len(dataQ) /\ DOMAIN answers = 1 .. Len(dataQ) - 1
      /\ \A k \in DOMAIN answers : k + 1 \in DOMAIN dataQ /\ answers[k] = dataQ[k + 1]
      /\ \A k \in DOMAIN dataQ : k # 1 => k - 1 \in DOMAIN answers /\ answers[k - 1] = dataQ[k]
  BY <1>q, <1>s, HeadIs
<1>1. PICK k1 \in DOMAIN dataQ : k1 = 1
  BY <1>h
<1>2. PICK f : f = dataQ[k1].idx
  OBVIOUS
<1>3. PICK d : d = dataQ[k1].data
  OBVIOUS
<1>4. PICK w : w = dataQ[k1].worker
  OBVIOUS
<1>5. /\ w \in active /\ d # Stop /\ f \in DOMAIN old /\ old[f] = [worker |-> w, data |-> Pending]
      /\ rank[f] <= made[w] /\ IsNth(w, list, rank[f], d)
      /\ \A l \in DOMAIN dataQ : dataQ[l].data # Stop /\ k1 # l => f # dataQ[l].idx
  BY <1>1, <1>2, <1>3, <1>4, <1>h, <1>p, <1>s DEF Arrivals
<1>6. w \in Workers /\ rank[f] \in Nat /\ got[w] \in Nat /\ got[w] < rank[f]
  <2>1. w \in Workers /\ old[f].worker = w
    BY <1>5 DEF PoolTypeOK
  <2> QED
    BY <1>5, <1>p, <2>1 DEF Ranks
<1>7. d \in Samples \cup {Failure} /\ d # Pending
  <2>1. rank[f] \in 1 .. Share(w, list)
    <3>1. Share(w, list) \in Nat
      BY PositionsFinite, FS_CardinalityType DEF Share
    <3> QED
      BY <1>5, <1>6, <3>1 DEF IsNth
  <2>2. Nth(w, list, rank[f]) \in Samples
    BY <1>6, <2>1, NthIsSample
  <2> QED
    BY <1>5, <2>2, ResultsDiffer DEF IsNth
<1>8. PICK new : new = [i \in DOMAIN old |-> IF i = f THEN [worker |-> w, data |-> d] ELSE old[i]]
  OBVIOUS
<1>9. tasks' = new /\ dataQ' = answers
  <2>1. tasks' = [old EXCEPT ![f].data = d]
    BY <1>1, <1>2, <1>3, <1>d, <1>h, <1>s
  <2>2. [old[f] EXCEPT !.data = d] = [worker |-> w, data |-> d]
    BY <1>5
  <2>3. [old EXCEPT ![f].data = d] = [i \in DOMAIN old |-> IF i = f THEN [old[f] EXCEPT !.data = d] ELSE old[i]]
    BY <1>5
  <2> QED
    BY <1>8, <1>q, <1>s, <2>1, <2>2, <2>3
<1>10. /\ DOMAIN new = DOMAIN old /\ new[f].worker = w /\ new[f].data = d
       /\ old[f].worker = w /\ old[f].data = Pending
       /\ \A i \in DOMAIN old : new[i].worker = old[i].worker /\ (i # f => new[i] = old[i])
       /\ new[f] \in Task
  <2>1. new[f] = [worker |-> w, data |-> d]
    BY <1>5, <1>8
  <2> QED
    BY <1>5, <1>6, <1>7, <1>8, <2>1 DEF Task
<1>11. \A i : i # f => \A k \in OnTheWay(dataQ, i) :
          k - 1 \in OnTheWay(answers, i) /\ answers[k - 1] = dataQ[k]
  BY <1>1, <1>2, <1>h DEF OnTheWay
<1>12. \A i \in DOMAIN old : Answered(old, dataQ, i) => Answered(new, answers, i)
  <2> SUFFICES ASSUME NEW i \in DOMAIN old, Answered(old, dataQ, i) PROVE Answered(new, answers, i)
    OBVIOUS
  <2>1. CASE i = f
    BY <1>7, <1>10, <2>1 DEF Answered
  <2>2. CASE i # f
    BY <1>10, <1>11, <2>2 DEF Answered
  <2> QED
    BY <2>1, <2>2
<1>13. Ranks(new, rank, got)
  BY <1>10, <1>p DEF Ranks
<1>14. Rounds(new, active, rank, lap, got)
  BY <1>10, <1>p DEF Rounds
<1>15. Arrivals(new, active, answers, rank, made, list)
  <2> SUFFICES ASSUME NEW k \in DOMAIN answers
               PROVE  /\ answers[k].worker \in active
                      /\ answers[k].data = Stop =>
                            /\ stopped[answers[k].worker]
                            /\ \A l \in DOMAIN answers :
                                  k < l => answers[l].worker # answers[k].worker
                      /\ answers[k].data # Stop =>
                            /\ answers[k].idx \in DOMAIN new
                            /\ new[answers[k].idx] = [worker |-> answers[k].worker, data |-> Pending]
                            /\ rank[answers[k].idx] <= made[answers[k].worker]
                            /\ IsNth(answers[k].worker, list, rank[answers[k].idx], answers[k].data)
                            /\ \A l \in DOMAIN answers :
                                  answers[l].data # Stop /\ k # l => answers[k].idx # answers[l].idx
    BY DEF Arrivals
  <2> DEFINE m == k + 1
  <2>1. m \in DOMAIN dataQ /\ 1 < m /\ m # k1 /\ answers[k] = dataQ[m]
    BY <1>1, <1>h
  <2>2. ASSUME NEW l \in DOMAIN answers
        PROVE  /\ l + 1 \in DOMAIN dataQ /\ answers[l] = dataQ[l + 1]
               /\ k < l => m < l + 1
               /\ k # l => m # l + 1
    BY <1>h
  <2> HIDE DEF m
  <2>3. dataQ[m].worker \in active
    BY <1>p, <2>1 DEF Arrivals
  <2>4. ASSUME dataQ[m].data = Stop
        PROVE  /\ stopped[dataQ[m].worker]
               /\ \A l \in DOMAIN dataQ : m < l => dataQ[l].worker # dataQ[m].worker
    BY <1>p, <2>1, <2>4 DEF Arrivals
  <2>5. ASSUME dataQ[m].data # Stop
        PROVE  /\ dataQ[m].idx \in DOMAIN old
               /\ old[dataQ[m].idx] = [worker |-> dataQ[m].worker, data |-> Pending]
               /\ rank[dataQ[m].idx] <= made[dataQ[m].worker]
               /\ IsNth(dataQ[m].worker, list, rank[dataQ[m].idx], dataQ[m].data)
               /\ \A l \in DOMAIN dataQ :
                     dataQ[l].data # Stop /\ m # l => dataQ[m].idx # dataQ[l].idx
    BY <1>p, <2>1, <2>5 DEF Arrivals
  <2>6. ASSUME answers[k].data # Stop, NEW l \in DOMAIN answers, answers[l].data # Stop, k # l
        PROVE  answers[k].idx # answers[l].idx
    BY <2>1, <2>2, <2>5, <2>6
  <2>7. ASSUME answers[k].data = Stop, NEW l \in DOMAIN answers, k < l
        PROVE  answers[l].worker # answers[k].worker
    BY <2>1, <2>2, <2>4, <2>7
  <2>8. ASSUME answers[k].data # Stop
        PROVE  answers[k].idx \in DOMAIN new /\ new[answers[k].idx] = old[answers[k].idx]
    BY <1>5, <1>10, <2>1, <2>5, <2>8
  <2> QED
    BY <2>1, <2>3, <2>4, <2>5, <2>6, <2>7, <2>8
<1>16. Results(new, answers, rank, made, got, list)
  <2>1. ASSUME NEW i \in DOMAIN new, new[i].data # Pending
        PROVE  rank[i] <= made[new[i].worker] /\ IsNth(new[i].worker, list, rank[i], new[i].data)
    <3>1. CASE i = f
      BY <1>5, <1>10, <3>1
    <3>2. CASE i # f
      BY <1>10, <1>p, <2>1, <3>2 DEF Results
    <3> QED
      BY <3>1, <3>2
  <2>2. ASSUME NEW u \in Workers, NEW n \in got[u] + 1 .. made[u]
        PROVE  \E i \in DOMAIN new : new[i].worker = u /\ rank[i] = n /\ Answered(new, answers, i)
    <3>1. PICK i \in DOMAIN old : old[i].worker = u /\ rank[i] = n /\ Answered(old, dataQ, i)
      BY <1>p DEF Results
    <3> QED
      BY <1>10, <1>12, <3>1
  <2> QED
    BY <1>p, <2>1, <2>2 DEF Results
<1>17. Queued(new, active, rank, made, lap)
  <2> SUFFICES ASSUME NEW u \in Workers
               PROVE  /\ u \notin active => stopped[u]
                      /\ ~stopped[u] =>
                            /\ \A j \in DOMAIN taskQ[u] :
                                  /\ taskQ[u][j] \in DOMAIN new
                                  /\ new[taskQ[u][j]] = [worker |-> u, data |-> Pending]
                                  /\ rank[taskQ[u][j]] = made[u] + j
                            /\ made[u] + Len(taskQ[u]) = Latest(u, lap)
    BY DEF Queued
  <2>1. /\ u \notin active => stopped[u]
        /\ ~stopped[u] =>
              /\ \A j \in DOMAIN taskQ[u] :
                    /\ taskQ[u][j] \in DOMAIN old
                    /\ old[taskQ[u][j]] = [worker |-> u, data |-> Pending]
                    /\ rank[taskQ[u][j]] = made[u] + j
              /\ made[u] + Len(taskQ[u]) = Latest(u, lap)
    BY <1>p DEF Queued
  <2>2. ASSUME ~stopped[u], NEW j \in DOMAIN taskQ[u] PROVE taskQ[u][j] # f
    <3> SUFFICES ASSUME taskQ[u][j] = f PROVE FALSE
      OBVIOUS
    <3>1. old[f].worker = u /\ rank[f] = made[u] + j
      BY <2>1, <2>2
    <3>2. j \in Nat /\ j > 0 /\ made[u] \in Nat
      BY <1>p DEF PoolTypeOK
    <3> QED
      BY <1>5, <1>6, <1>10, <3>1, <3>2
  <2> QED
    BY <1>10, <2>1, <2>2
<1>18. Generators(new, answers, made, list)
  <2>1. ASSUME NEW u, Failed(old, dataQ, u) PROVE Failed(new, answers, u)
    <3>1. PICK i \in DOMAIN old :
             /\ old[i].worker = u
             /\ \/ old[i].data = Failure
                \/ \E k \in OnTheWay(dataQ, i) : dataQ[k].data = Failure
      BY <2>1 DEF Failed
    <3>2. CASE i = f
      <4>1. PICK k \in DOMAIN dataQ : dataQ[k].idx = f /\ dataQ[k].data # Stop /\ dataQ[k].data = Failure
        BY <1>10, <3>1, <3>2, ResultsDiffer DEF OnTheWay
      <4>2. k = k1
        BY <1>5, <4>1
      <4>3. d = Failure
        BY <1>3, <4>1, <4>2
      <4> QED
        BY <1>10, <3>1, <3>2, <4>3 DEF Failed
    <3>3. CASE i # f
      BY <1>10, <1>11, <3>1, <3>3 DEF Failed
    <3> QED
      BY <3>2, <3>3
  <2> QED
    BY <1>p, <2>1 DEF Generators
<1>19. PoolWith(new, active, answers, rank, made, lap, got, list)
  BY <1>13, <1>14, <1>15, <1>16, <1>17, <1>18, <1>p DEF PoolWith
<1>20. PoolWith(tasks, active, dataQ, rank, made, lap, got, list)'
  <2>1. /\ stopped' = stopped /\ cursor' = cursor /\ taskQ' = taskQ /\ sendIdx' = sendIdx
        /\ active' = active /\ cycle' = cycle
    BY <1>s
  <2>2. Ranks(tasks, rank, got)' /\ Rounds(tasks, active, rank, lap, got)'
    BY <1>9, <1>13, <1>14, <2>1 DEF Ranks, Rounds, Latest
  <2>3. Arrivals(tasks, active, dataQ, rank, made, list)'
    BY <1>9, <1>15, <2>1 DEF Arrivals
  <2>4. Results(tasks, dataQ, rank, made, got, list)'
    BY <1>9, <1>16, <2>1 DEF Results
  <2>5. Queued(tasks, active, rank, made, lap)'
    BY <1>9, <1>17, <2>1 DEF Queued, Latest
  <2>6. Generators(tasks, dataQ, made, list)'
    BY <1>9, <1>18, <2>1 DEF Generators
  <2> QED
    BY <1>p, <2>2, <2>3, <2>4, <2>5, <2>6 DEF PoolWith
<1>21. LiveTasks' # {}
  BY <1>5, <1>7, <1>9, <1>10 DEF LiveTasks, Live
<1> QED
  BY <1>20, <1>21 DEF PoolInv

----------------------------------------------------------------------------
(* What the workers do. *)

\* A worker answers its next task, in the order in which it yields.
LEMMA FetchKeeps ==
    ASSUME PoolTypeOK, NEW w \in Workers, NEW rank, NEW made, NEW lap, NEW got, NEW list,
           IsList(list), list = Order[ShufflesAfter(w)],
           PoolInv(rank, made, lap, got, list), Fetch(w)
    PROVE  \E made2 : PoolInv(rank, made2, lap, got, list)'
<1>p. /\ made \in [Workers -> Nat] /\ got \in [Workers -> Nat]
      /\ Ranks(tasks, rank, got) /\ Rounds(tasks, active, rank, lap, got)
      /\ Arrivals(tasks, active, dataQ, rank, made, list)
      /\ Results(tasks, dataQ, rank, made, got, list)
      /\ Queued(tasks, active, rank, made, lap) /\ Generators(tasks, dataQ, made, list)
      /\ active # {} => LiveTasks # {}
  BY DEF PoolInv, PoolWith
<1>q. PICK step \in GeneratorStep(w) :
          /\ shuffles' = [shuffles EXCEPT ![w] = step.shuffles]
          /\ cursor' = [cursor EXCEPT ![w] = step.cursor]
          /\ stopped' = [stopped EXCEPT ![w] = step.result = Stop]
          /\ dataQ' = Append(dataQ, [idx |-> Head(taskQ[w]), data |-> step.result, worker |-> w])
  BY DEF Fetch
<1>e. /\ taskQ[w] # << >> /\ ~stopped[w] /\ taskQ' = [taskQ EXCEPT ![w] = Tail(@)]
      /\ tasks' = tasks /\ sendIdx' = sendIdx /\ active' = active /\ cycle' = cycle
  BY DEF Fetch, loaderVars
<1>i. PICK i : i = Head(taskQ[w])
  OBVIOUS
<1>n. PICK n : n = made[w]
  OBVIOUS
<1>t. /\ taskQ \in [Workers -> Seq(Nat \cup {ResumeIteration})]
      /\ taskQ[w] \in Seq(Nat \cup {ResumeIteration})
      /\ cursor \in [Workers -> {Fresh, Finished} \cup (Nat \X Nat)]
      /\ stopped \in [Workers -> BOOLEAN] /\ dataQ \in Seq(Message) /\ n \in Nat
  BY <1>n, <1>p DEF PoolTypeOK
<1>1. /\ i \in DOMAIN tasks /\ tasks[i] = [worker |-> w, data |-> Pending] /\ rank[i] = n + 1
      /\ w \in active
  <2>1. PICK j \in DOMAIN taskQ[w] : j = 1 /\ taskQ[w][j] = i
    BY <1>e, <1>i, <1>t
  <2> QED
    BY <1>e, <1>n, <1>p, <2>1 DEF Queued
<1>2. tasks[i].worker = w /\ tasks[i].data = Pending
  BY <1>1
<1>3. PICK d : d = step.result
  OBVIOUS
<1>4. PICK at : at = step.cursor
  OBVIOUS
<1>5. PICK msg : msg = [idx |-> i, data |-> d, worker |-> w]
  OBVIOUS
<1>6. PICK last : last = Len(dataQ) + 1
  OBVIOUS
<1>7. /\ last \in Nat /\ DOMAIN dataQ' = DOMAIN dataQ \cup {last} /\ last \notin DOMAIN dataQ
      /\ \A k \in DOMAIN dataQ : k \in Nat /\ k < last /\ dataQ'[k] = dataQ[k]
      /\ dataQ'[last] = msg /\ msg.idx = i /\ msg.data = d /\ msg.worker = w
  <2>1. dataQ' = Append(dataQ, msg)
    BY <1>q, <1>i, <1>3, <1>5
  <2>2. DOMAIN dataQ = 1 .. Len(dataQ) /\ Len(dataQ) \in Nat
    BY <1>t
  <2>3. /\ DOMAIN dataQ' = 1 .. Len(dataQ) + 1 /\ dataQ'[Len(dataQ) + 1] = msg
        /\ \A k \in 1 .. Len(dataQ) : dataQ'[k] = dataQ[k]
    BY <1>t, <2>1
  <2> QED
    BY <1>5, <1>6, <2>2, <2>3
<1>8. PICK tail : tail = Tail(taskQ[w])
  OBVIOUS
<1>9. /\ taskQ'[w] = tail /\ \A u \in Workers : u # w => taskQ'[u] = taskQ[u]
      /\ Len(tail) = Len(taskQ[w]) - 1 /\ Len(taskQ[w]) \in Nat
      /\ \A j \in DOMAIN tail : j \in Nat /\ j + 1 \in DOMAIN taskQ[w] /\ tail[j] = taskQ[w][j + 1]
  BY <1>e, <1>t, <1>8
<1>10. /\ cursor'[w] = at /\ (stopped'[w] <=> d = Stop)
       /\ \A u \in Workers : u # w => cursor'[u] = cursor[u] /\ stopped'[u] = stopped[u]
  BY <1>q, <1>t, <1>3, <1>4
<1>11. \/ /\ d = Stop /\ at = Finished
          /\ cursor[w] = Finished \/ n = Share(w, list)
       \/ /\ cursor[w] # Finished /\ n + 1 \in 1 .. Share(w, list)
          /\ \/ d = Nth(w, list, n + 1) /\ at \in Nat \X Nat /\ Rank(w, list, at) = n + 1
             \/ d = Failure /\ at = Finished
  <2>1. /\ cursor[w] \in {Fresh, Finished} \cup (Nat \X Nat)
        /\ cursor[w] = Fresh => n = 0
        /\ cursor[w] \notin {Fresh, Finished} => Rank(w, list, cursor[w]) = n
    BY <1>n, <1>p, <1>t DEF Generators
  <2> QED
    BY <1>3, <1>4, <1>t, <2>1, GeneratorSteps
<1>12. PICK made2 : made2 = IF d = Stop THEN made ELSE [made EXCEPT ![w] = n + 1]
  OBVIOUS
<1>13. /\ made2 \in [Workers -> Nat] /\ made2[w] = (IF d = Stop THEN n ELSE n + 1)
       /\ \A u \in Workers : u # w => made2[u] = made[u]
       /\ \A u \in Workers : made[u] \in Nat /\ made2[u] \in Nat /\ made[u] <= made2[u]
  BY <1>n, <1>p, <1>t, <1>12
<1>14. d # Stop => /\ n + 1 <= Share(w, list) /\ (d = Nth(w, list, n + 1) \/ d = Failure)
                   /\ cursor[w] # Finished
  <2>1. Share(w, list) \in Nat
    BY PositionsFinite, FS_CardinalityType DEF Share
  <2> QED
    BY <1>11, <1>t, <2>1
<1>15. \A j : \A k \in OnTheWay(dataQ, j) : k \in OnTheWay(dataQ', j) /\ dataQ'[k] = dataQ[k]
  BY <1>7 DEF OnTheWay
<1>16. \A j \in DOMAIN tasks : Answered(tasks, dataQ, j) => Answered(tasks, dataQ', j)
  BY <1>15 DEF Answered
<1>17. d # Stop => last \in OnTheWay(dataQ', i)
  BY <1>7 DEF OnTheWay
<1>18. Ranks(tasks, rank, got)'
  BY <1>e, <1>p DEF Ranks
<1>19. Rounds(tasks, active, rank, lap, got)'
  BY <1>e, <1>p DEF Rounds, Latest
<1>20. ASSUME NEW k \in DOMAIN dataQ
       PROVE  /\ dataQ[k].worker \in active
              /\ dataQ[k].data = Stop =>
                    /\ stopped[dataQ[k].worker] /\ dataQ[k].worker # w
                    /\ \A l \in DOMAIN dataQ : k < l => dataQ[l].worker # dataQ[k].worker
              /\ dataQ[k].data # Stop =>
                    /\ dataQ[k].idx \in DOMAIN tasks /\ dataQ[k].idx # i
                    /\ tasks[dataQ[k].idx] = [worker |-> dataQ[k].worker, data |-> Pending]
                    /\ rank[dataQ[k].idx] <= made[dataQ[k].worker]
                    /\ IsNth(dataQ[k].worker, list, rank[dataQ[k].idx], dataQ[k].data)
                    /\ \A l \in DOMAIN dataQ :
                          dataQ[l].data # Stop /\ k # l => dataQ[k].idx # dataQ[l].idx
  <2>1. dataQ[k].worker \in active
    BY <1>p DEF Arrivals
  <2>2. ASSUME dataQ[k].data = Stop
        PROVE  /\ stopped[dataQ[k].worker]
               /\ \A l \in DOMAIN dataQ : k < l => dataQ[l].worker # dataQ[k].worker
    BY <1>p, <2>2 DEF Arrivals
  <2>3. ASSUME dataQ[k].data # Stop
        PROVE  /\ dataQ[k].idx \in DOMAIN tasks
               /\ tasks[dataQ[k].idx] = [worker |-> dataQ[k].worker, data |-> Pending]
               /\ rank[dataQ[k].idx] <= made[dataQ[k].worker]
               /\ IsNth(dataQ[k].worker, list, rank[dataQ[k].idx], dataQ[k].data)
               /\ \A l \in DOMAIN dataQ :
                     dataQ[l].data # Stop /\ k # l => dataQ[k].idx # dataQ[l].idx
    BY <1>p, <2>3 DEF Arrivals
  <2>4. ASSUME dataQ[k].data # Stop, dataQ[k].idx = i PROVE FALSE
    <3>1. dataQ[k].worker = w
      BY <1>2, <2>3, <2>4
    <3>2. rank[i] <= n
      BY <1>n, <2>3, <2>4, <3>1
    <3> QED
      BY <1>1, <1>t, <3>2
  <2> QED
    BY <1>e, <2>1, <2>2, <2>3, <2>4
<1>21. ASSUME NEW k \in DOMAIN dataQ'
       PROVE  /\ dataQ'[k].worker \in active
              /\ dataQ'[k].data = Stop =>
                    /\ stopped'[dataQ'[k].worker]
                    /\ \A l \in DOMAIN dataQ' : k < l => dataQ'[l].worker # dataQ'[k].worker
              /\ dataQ'[k].data # Stop =>
                    /\ dataQ'[k].idx \in DOMAIN tasks
                    /\ tasks[dataQ'[k].idx] = [worker |-> dataQ'[k].worker, data |-> Pending]
                    /\ rank[dataQ'[k].idx] <= made2[dataQ'[k].worker]
                    /\ IsNth(dataQ'[k].worker, list, rank[dataQ'[k].idx], dataQ'[k].data)
                    /\ \A l \in DOMAIN dataQ' :
                          dataQ'[l].data # Stop /\ k # l => dataQ'[k].idx # dataQ'[l].idx
  <2>1. CASE k \in DOMAIN dataQ
    <3>1. dataQ'[k] = dataQ[k] /\ dataQ[k].worker \in active /\ k \in Nat /\ k < last
      BY <1>7, <1>20, <2>1
    <3>2. dataQ[k].worker \in Workers
      BY <3>1 DEF PoolTypeOK
    <3>3. ASSUME dataQ[k].data = Stop
          PROVE  /\ stopped'[dataQ[k].worker]
                 /\ \A l \in DOMAIN dataQ' : k < l => dataQ'[l].worker # dataQ[k].worker
      <4>1. stopped'[dataQ[k].worker]
        BY <1>10, <1>20, <2>1, <3>2, <3>3
      <4>2. ASSUME NEW l \in DOMAIN dataQ, k < l PROVE dataQ'[l].worker # dataQ[k].worker
        <5>1. dataQ'[l] = dataQ[l]
          BY <1>7
        <5> QED
          BY <1>20, <2>1, <3>3, <4>2, <5>1
      <4>3. dataQ'[last].worker # dataQ[k].worker
        BY <1>7, <1>20, <2>1, <3>3
      <4> QED
        BY <1>7, <4>1, <4>2, <4>3
    <3>4. ASSUME dataQ[k].data # Stop
          PROVE  /\ dataQ[k].idx \in DOMAIN tasks
                 /\ tasks[dataQ[k].idx] = [worker |-> dataQ[k].worker, data |-> Pending]
                 /\ rank[dataQ[k].idx] <= made2[dataQ[k].worker]
                 /\ IsNth(dataQ[k].worker, list, rank[dataQ[k].idx], dataQ[k].data)
                 /\ \A l \in DOMAIN dataQ' :
                       dataQ'[l].data # Stop /\ k # l => dataQ[k].idx # dataQ'[l].idx
      <4>1. /\ dataQ[k].idx \in DOMAIN tasks /\ dataQ[k].idx # i
            /\ tasks[dataQ[k].idx] = [worker |-> dataQ[k].worker, data |-> Pending]
            /\ rank[dataQ[k].idx] <= made[dataQ[k].worker]
            /\ IsNth(dataQ[k].worker, list, rank[dataQ[k].idx], dataQ[k].data)
        BY <1>20, <2>1, <3>4
      <4>2. rank[dataQ[k].idx] \in Nat
        BY <1>p, <4>1 DEF Ranks
      <4>3. rank[dataQ[k].idx] <= made2[dataQ[k].worker]
        BY <1>13, <3>2, <4>1, <4>2
      <4>4. ASSUME NEW l \in DOMAIN dataQ, dataQ'[l].data # Stop, k # l
            PROVE  dataQ[k].idx # dataQ'[l].idx
        <5>1. dataQ'[l] = dataQ[l]
          BY <1>7
        <5> QED
          BY <1>20, <2>1, <3>4, <4>4, <5>1
      <4>5. dataQ[k].idx # dataQ'[last].idx
        BY <1>7, <4>1
      <4> QED
        BY <1>7, <4>1, <4>3, <4>4, <4>5
    <3> QED
      BY <3>1, <3>3, <3>4
  <2>2. CASE k = last
    <3>1. dataQ'[k].worker = w /\ dataQ'[k].data = d /\ dataQ'[k].idx = i
      BY <1>7, <2>2
    <3>2. \A l \in DOMAIN dataQ' : ~(k < l)
      BY <1>7, <2>2
    <3>3. ASSUME d # Stop
          PROVE  /\ rank[i] <= made2[w] /\ IsNth(w, list, rank[i], d)
                 /\ \A l \in DOMAIN dataQ' : dataQ'[l].data # Stop /\ k # l => i # dataQ'[l].idx
      <4>1. rank[i] <= made2[w] /\ IsNth(w, list, rank[i], d)
        BY <1>1, <1>13, <1>14, <1>t, <3>3 DEF IsNth
      <4> QED
        BY <1>7, <1>20, <2>2, <4>1
    <3> QED
      BY <1>1, <1>10, <3>1, <3>2, <3>3
  <2> QED
    BY <1>7, <2>1, <2>2
<1>22. Arrivals(tasks, active, dataQ, rank, made2, list)'
  BY <1>21, <1>e DEF Arrivals
<1>23. Results(tasks, dataQ, rank, made2, got, list)'
  <2>1. ASSUME NEW j \in DOMAIN tasks, tasks[j].data # Pending
        PROVE  rank[j] <= made2[tasks[j].worker] /\ IsNth(tasks[j].worker, list, rank[j], tasks[j].data)
    <3>1. rank[j] <= made[tasks[j].worker] /\ IsNth(tasks[j].worker, list, rank[j], tasks[j].data)
      BY <1>p, <2>1 DEF Results
    <3>2. tasks[j].worker \in Workers /\ rank[j] \in Nat
      BY <1>p DEF Ranks, Task
    <3> QED
      BY <1>13, <3>1, <3>2
  <2>2. ASSUME NEW u \in Workers PROVE got[u] <= made2[u] /\ got[u] <= Share(u, list)
    <3>1. got[u] <= made[u] /\ got[u] <= Share(u, list) /\ got[u] \in Nat
      BY <1>p DEF Results
    <3> QED
      BY <1>13, <3>1
  <2>3. ASSUME NEW u \in Workers, NEW m \in got[u] + 1 .. made2[u]
        PROVE  \E j \in DOMAIN tasks : tasks[j].worker = u /\ rank[j] = m /\ Answered(tasks, dataQ', j)
    <3>1. CASE m \in got[u] + 1 .. made[u]
      <4>1. PICK j \in DOMAIN tasks : tasks[j].worker = u /\ rank[j] = m /\ Answered(tasks, dataQ, j)
        BY <1>p, <3>1 DEF Results
      <4> QED
        BY <1>16, <4>1
    <3>2. CASE m \notin got[u] + 1 .. made[u]
      <4>1. u = w /\ d # Stop /\ m = n + 1
        <5>1. got[u] \in Nat /\ made[u] \in Nat /\ made2[u] \in Nat
          BY <1>13, <1>p
        <5> QED
          BY <1>13, <1>n, <3>2, <5>1
      <4>2. Answered(tasks, dataQ', i)
        BY <1>17, <4>1 DEF Answered
      <4> QED
        BY <1>1, <1>2, <4>1, <4>2
    <3> QED
      BY <3>1, <3>2
  <2> QED
    BY <1>e, <2>1, <2>2, <2>3 DEF Results, Answered, OnTheWay
<1>24. Queued(tasks, active, rank, made2, lap)'
  <2> SUFFICES ASSUME NEW u \in Workers
               PROVE  /\ u \notin active => stopped'[u]
                      /\ ~stopped'[u] =>
                            /\ \A j \in DOMAIN taskQ'[u] :
                                  /\ taskQ'[u][j] \in DOMAIN tasks
                                  /\ tasks[taskQ'[u][j]] = [worker |-> u, data |-> Pending]
                                  /\ rank[taskQ'[u][j]] = made2[u] + j
                            /\ made2[u] + Len(taskQ'[u]) = Latest(u, lap)
    BY <1>e DEF Queued, Latest
  <2>1. /\ u \notin active => stopped[u]
        /\ ~stopped[u] =>
              /\ \A j \in DOMAIN taskQ[u] :
                    /\ taskQ[u][j] \in DOMAIN tasks
                    /\ tasks[taskQ[u][j]] = [worker |-> u, data |-> Pending]
                    /\ rank[taskQ[u][j]] = made[u] + j
              /\ made[u] + Len(taskQ[u]) = Latest(u, lap)
    BY <1>p DEF Queued
  <2>2. CASE u # w
    BY <1>9, <1>10, <1>13, <2>1, <2>2
  <2>3. CASE u = w
    <3>1. u \in active
      BY <1>1, <2>3
    <3>2. ASSUME ~stopped'[u], NEW j \in DOMAIN taskQ'[u]
          PROVE  /\ taskQ'[u][j] \in DOMAIN tasks
                 /\ tasks[taskQ'[u][j]] = [worker |-> u, data |-> Pending]
                 /\ rank[taskQ'[u][j]] = made2[u] + j
      <4>1. made2[u] = n + 1 /\ made[u] = n
        BY <1>10, <1>13, <1>n, <2>3, <3>2
      <4>2. j \in Nat /\ j + 1 \in DOMAIN taskQ[u] /\ taskQ'[u][j] = taskQ[u][j + 1]
        BY <1>9, <2>3, <3>2
      <4>3. /\ taskQ[u][j + 1] \in DOMAIN tasks
            /\ tasks[taskQ[u][j + 1]] = [worker |-> u, data |-> Pending]
            /\ rank[taskQ[u][j + 1]] = made[u] + (j + 1)
        BY <1>e, <2>1, <2>3, <4>2
      <4> QED
        BY <1>t, <4>1, <4>2, <4>3
    <3>3. ASSUME ~stopped'[u] PROVE made2[u] + Len(taskQ'[u]) = Latest(u, lap)
      <4>1. made2[u] = n + 1 /\ made[u] = n
        BY <1>10, <1>13, <1>n, <2>3, <3>3
      <4> QED
        BY <1>9, <1>e, <1>t, <2>1, <2>3, <4>1
    <3> QED
      BY <3>1, <3>2, <3>3
  <2> QED
    BY <2>2, <2>3
<1>25. Generators(tasks, dataQ, made2, list)'
  <2>1. ASSUME NEW u \in Workers, Failed(tasks, dataQ, u) PROVE Failed(tasks, dataQ', u)
    BY <1>15, <2>1 DEF Failed
  <2>2. d = Failure => Failed(tasks, dataQ', w)
    BY <1>1, <1>2, <1>7, <1>17, ResultsDiffer DEF Failed
  <2>3. ASSUME NEW u \in Workers
        PROVE  /\ stopped'[u] => cursor'[u] = Finished
               /\ cursor'[u] = Fresh => made2[u] = 0
               /\ cursor'[u] = Finished => made2[u] = Share(u, list) \/ Failed(tasks, dataQ', u)
               /\ cursor'[u] \notin {Fresh, Finished} => Rank(u, list, cursor'[u]) = made2[u]
    <3>1. /\ stopped[u] => cursor[u] = Finished
          /\ cursor[u] = Fresh => made[u] = 0
          /\ cursor[u] = Finished => made[u] = Share(u, list) \/ Failed(tasks, dataQ, u)
          /\ cursor[u] \notin {Fresh, Finished} => Rank(u, list, cursor[u]) = made[u]
      BY <1>p DEF Generators
    <3>2. CASE u # w
      BY <1>10, <1>13, <2>1, <3>1, <3>2
    <3>3. CASE u = w
      <4>1. CASE d = Stop
        <5>1. at = Finished /\ (cursor[w] = Finished \/ n = Share(w, list))
          BY <1>11, <1>14, <4>1, ResultsDiffer, NthIsSample
        <5> QED
          BY <1>10, <1>13, <1>n, <2>1, <3>1, <3>3, <4>1, <5>1, ResultsDiffer
      <4>2. CASE d # Stop
        <5>1. \/ at \in Nat \X Nat /\ Rank(w, list, at) = n + 1
              \/ d = Failure /\ at = Finished
          BY <1>11, <4>2
        <5> QED
          BY <1>10, <1>13, <2>2, <3>3, <4>2, <5>1, ResultsDiffer
      <4> QED
        BY <4>1, <4>2
    <3> QED
      BY <3>2, <3>3
  <2> QED
    BY <1>e, <2>3 DEF Generators, Failed, OnTheWay
<1>26. LiveTasks' = LiveTasks
  BY <1>e DEF LiveTasks, Live
<1> QED
  BY <1>e, <1>p, <1>13, <1>18, <1>19, <1>22, <1>23, <1>24, <1>25, <1>26 DEF PoolInv, PoolWith

\* A worker that has stopped drops its tasks.
LEMMA DropTaskKeeps ==
    ASSUME PoolTypeOK, NEW w \in Workers, NEW rank, NEW made, NEW lap, NEW got, NEW list,
           PoolInv(rank, made, lap, got, list), DropTask(w)
    PROVE  PoolInv(rank, made, lap, got, list)'
<1>1. /\ made \in [Workers -> Nat] /\ got \in [Workers -> Nat]
      /\ Ranks(tasks, rank, got) /\ Rounds(tasks, active, rank, lap, got)
      /\ Arrivals(tasks, active, dataQ, rank, made, list)
      /\ Results(tasks, dataQ, rank, made, got, list)
      /\ Queued(tasks, active, rank, made, lap) /\ Generators(tasks, dataQ, made, list)
      /\ active # {} => LiveTasks # {}
  BY DEF PoolInv, PoolWith
<1>2. /\ stopped[w] /\ taskQ' = [taskQ EXCEPT ![w] = Tail(@)]
      /\ stopped' = stopped /\ cursor' = cursor /\ tasks' = tasks /\ sendIdx' = sendIdx
      /\ active' = active /\ cycle' = cycle /\ dataQ' = dataQ
  BY DEF DropTask, workerVars, loaderVars
<1>3. \A u \in Workers : u # w => taskQ'[u] = taskQ[u]
  BY <1>2 DEF PoolTypeOK
<1>4. Ranks(tasks, rank, got)' /\ Rounds(tasks, active, rank, lap, got)'
  BY <1>1, <1>2 DEF Ranks, Rounds, Latest
<1>5. Arrivals(tasks, active, dataQ, rank, made, list)'
  BY <1>1, <1>2 DEF Arrivals
<1>6. Results(tasks, dataQ, rank, made, got, list)'
  BY <1>1, <1>2 DEF Results, Answered, OnTheWay
<1>7. Queued(tasks, active, rank, made, lap)'
  <2>1. ASSUME NEW u \in Workers, ~stopped[u] PROVE taskQ'[u] = taskQ[u]
    BY <1>2, <1>3, <2>1
  <2> QED
    BY <1>1, <1>2, <2>1 DEF Queued, Latest
<1>8. Generators(tasks, dataQ, made, list)'
  BY <1>1, <1>2 DEF Generators, Failed, OnTheWay
<1>9. LiveTasks' = LiveTasks
  BY <1>2 DEF LiveTasks, Live
<1> QED
  BY <1>1, <1>2, <1>4, <1>5, <1>6, <1>7, <1>8, <1>9 DEF PoolInv, PoolWith

----------------------------------------------------------------------------
(* A pass begins. *)

\* Division.
LEMMA Quotient ==
    ASSUME NEW n \in Nat \ {0}, NEW i \in Nat
    PROVE  /\ i \div n \in Nat /\ i % n \in 0 .. n - 1
           /\ i = (i \div n) * n + (i % n)
OBVIOUS

LEMMA WholeTurns ==
    ASSUME NEW n \in Nat \ {0}, NEW a \in Nat, NEW b \in Nat, a < b
    PROVE  a * n + n <= b * n
<1>1. b = a + 1 + (b - a - 1) /\ b - a - 1 \in Nat
  OBVIOUS
<1>2. PICK c \in Nat : b = a + 1 + c
  BY <1>1
<1>3. b * n = a * n + n + c * n
  BY <1>2
<1>4. c * n \in Nat /\ a * n \in Nat
  OBVIOUS
<1> QED
  BY <1>3, <1>4

LEMMA QuotientIs ==
    ASSUME NEW n \in Nat \ {0}, NEW a \in Nat, NEW b \in 0 .. n - 1
    PROVE  (a * n + b) \div n = a /\ (a * n + b) % n = b
<1> DEFINE i == a * n + b
<1>1. i \in Nat
  OBVIOUS
<1>2. PICK q \in Nat : q = i \div n
  BY <1>1, Quotient
<1>3. PICK r \in 0 .. n - 1 : r = i % n
  BY <1>1, Quotient
<1>4. a * n + b = q * n + r /\ a * n \in Nat /\ q * n \in Nat
  BY <1>1, <1>2, <1>3, Quotient
<1>5. ~(a < q) /\ ~(q < a)
  BY <1>4, WholeTurns
<1>6. q = a
  BY <1>5
<1>7. r = b
  BY <1>4, <1>6
<1> QED
  BY <1>2, <1>3, <1>6, <1>7

\* The first tasks go to the workers in turn, Prefetch to each.
LEMMA PrimeMakes ==
    ASSUME NEW list, \A w \in Workers : Share(w, list) \in Nat,
           \A w \in Workers : taskQ[w] = << >>,
           \A w \in Workers : cursor'[w] = Fresh /\ ~stopped'[w],
           dataQ' = << >>, Prime(taskQ),
           NEW none, none = [w \in Workers |-> 0]
    PROVE  /\ \E rank, lap : PoolInv(rank, none, lap, none, list)'
           /\ \A w \in Workers : /\ taskQ'[w] # << >>
                                /\ \A j \in DOMAIN taskQ'[w] : taskQ'[w][j] # ResumeIteration
<1> DEFINE N == NumWorkers
           M == Prefetch * NumWorkers
<1>1. N \in Nat \ {0} /\ Prefetch \in Nat \ {0} /\ M \in Nat /\ M >= N
  <2>1. N \in Nat \ {0} /\ Prefetch \in Nat \ {0}
    BY DatasetAssumption, PoolAssumption
  <2>2. 0 * N + N <= Prefetch * N
    BY <2>1, WholeTurns
  <2> QED
    BY <2>1, <2>2
<1>2. /\ DOMAIN tasks' = 0 .. M - 1
      /\ \A i \in 0 .. M - 1 : tasks'[i] = [worker |-> i % N, data |-> Pending]
      /\ \A w \in Workers : taskQ'[w] = taskQ[w] \o [j \in 1 .. Prefetch |-> (j - 1) * N + w]
      /\ sendIdx' = M /\ active' = Workers /\ cycle' = 0
  BY DEF Prime
<1>3. PICK rank : rank = [i \in 0 .. M - 1 |-> (i \div N) + 1]
  OBVIOUS
<1>4. \A w : w \in Workers <=> w \in 0 .. N - 1
  BY DEF Workers
<1>5. ASSUME NEW i \in 0 .. M - 1
      PROVE  /\ i \in Nat /\ tasks'[i].worker = i % N /\ tasks'[i].data = Pending
             /\ i % N \in 0 .. N - 1 /\ i \div N \in Nat /\ i = (i \div N) * N + (i % N)
             /\ rank[i] = (i \div N) + 1 /\ (i \div N) + 1 <= Prefetch
  <2>1. tasks'[i] = [worker |-> i % N, data |-> Pending]
    BY <1>2
  <2>2. i \in Nat /\ rank[i] = (i \div N) + 1
    BY <1>1, <1>3
  <2>3. i % N \in 0 .. N - 1 /\ i \div N \in Nat /\ i = (i \div N) * N + (i % N)
    BY <1>1, <2>2, Quotient
  <2>4. (i \div N) + 1 <= Prefetch
    <3>1. PICK q \in Nat : q = i \div N
      BY <2>3
    <3>2. PICK r \in 0 .. N - 1 : r = i % N
      BY <2>3
    <3>3. i = q * N + r
      BY <2>3, <3>1, <3>2
    <3>4. q * N \in Nat /\ q * N < M
      BY <1>1, <3>3
    <3>5. ~(Prefetch < q) /\ Prefetch # q
      <4>1. Prefetch < q => Prefetch * N + N <= q * N
        BY <1>1, WholeTurns
      <4> QED
        BY <1>1, <3>4, <4>1
    <3> QED
      BY <1>1, <3>1, <3>5
  <2> QED
    BY <2>1, <2>2, <2>3, <2>4
<1>6. ASSUME NEW a \in 0 .. Prefetch - 1, NEW w \in 0 .. N - 1
      PROVE  /\ a * N + w \in 0 .. M - 1 /\ rank[a * N + w] = a + 1
             /\ tasks'[a * N + w].worker = w
             /\ tasks'[a * N + w] = [worker |-> w, data |-> Pending]
  <2>1. a \in Nat /\ a < Prefetch
    BY <1>1
  <2>2. a * N + N <= M
    BY <1>1, <2>1, WholeTurns
  <2>3. a * N \in Nat
    BY <1>1, <2>1
  <2>4. a * N + w \in 0 .. M - 1
    BY <1>1, <2>2, <2>3
  <2>5. (a * N + w) \div N = a /\ (a * N + w) % N = w
    BY <1>1, <2>1, QuotientIs
  <2> QED
    BY <1>2, <1>3, <2>4, <2>5
<1> HIDE DEF N, M
<1>7. /\ none \in [Workers -> Nat] /\ \A w \in Workers : none[w] = 0
  OBVIOUS
<1>8. Ranks(tasks, rank, none)'
  <2>1. rank \in [0 .. M - 1 -> Nat] /\ DOMAIN tasks' \subseteq 0 .. M - 1
    BY <1>2, <1>3, <1>5
  <2>2. ASSUME NEW i \in 0 .. M - 1
        PROVE  tasks'[i] \in Task /\ none[tasks'[i].worker] < rank[i]
    <3>1. tasks'[i] = [worker |-> i % N, data |-> Pending] /\ i % N \in Workers
      BY <1>2, <1>4, <1>5
    <3> QED
      BY <1>5, <1>7, <3>1 DEF Task
  <2>3. ASSUME NEW i \in 0 .. M - 1, NEW j \in 0 .. M - 1, i < j
        PROVE  /\ rank[i] <= rank[j]
               /\ tasks'[i].worker = tasks'[j].worker => rank[i] # rank[j]
    <3>1. PICK a \in Nat : a = i \div N
      BY <1>5
    <3>2. PICK b \in Nat : b = j \div N
      BY <1>5
    <3>3. PICK r \in 0 .. N - 1 : r = i % N
      BY <1>5
    <3>4. PICK s \in 0 .. N - 1 : s = j % N
      BY <1>5
    <3>5. /\ i = a * N + r /\ j = b * N + s /\ rank[i] = a + 1 /\ rank[j] = b + 1
          /\ tasks'[i].worker = r /\ tasks'[j].worker = s
      BY <1>5, <3>1, <3>2, <3>3, <3>4
    <3>6. a * N \in Nat /\ b * N \in Nat
      BY <1>1
    <3>7. b < a => b * N + N <= a * N
      BY <1>1, WholeTurns
    <3>8. ~(b < a)
      BY <1>1, <2>3, <3>5, <3>6, <3>7
    <3>9. r = s => a # b
      BY <2>3, <3>5
    <3> QED
      BY <3>5, <3>8, <3>9
  <2> QED
    BY <1>2, <2>1, <2>2, <2>3 DEF Ranks
<1>9. \A w \in Workers : Latest(w, Prefetch)' = Prefetch
  BY <1>1, <1>2, <1>4 DEF Latest
<1>10. Rounds(tasks, active, rank, Prefetch, none)'
  <2>1. ASSUME NEW w \in Workers, NEW n \in 1 .. Prefetch
        PROVE  \E i \in DOMAIN tasks' : tasks'[i].worker = w /\ rank[i] = n
    <3>1. PICK a \in 0 .. Prefetch - 1 : n = a + 1
      BY <1>1
    <3>2. w \in 0 .. N - 1
      BY <1>4
    <3>3. PICK i : i = a * N + w
      OBVIOUS
    <3>4. i \in 0 .. M - 1 /\ rank[i] = a + 1 /\ tasks'[i].worker = w
      BY <1>6, <3>2, <3>3
    <3> QED
      BY <1>2, <3>1, <3>4
  <2>2. \A i \in DOMAIN tasks' : rank[i] \in Nat /\ rank[i] <= Prefetch
    BY <1>2, <1>5
  <2> QED
    BY <1>1, <1>2, <1>7, <1>9, <2>1, <2>2 DEF Rounds
<1>11. Arrivals(tasks, active, dataQ, rank, none, list)'
  BY DEF Arrivals
<1>12. Results(tasks, dataQ, rank, none, none, list)'
  BY <1>2, <1>5, <1>7 DEF Results
<1>13. /\ Queued(tasks, active, rank, none, Prefetch)'
       /\ \A w \in Workers : /\ taskQ'[w] # << >>
                            /\ \A j \in DOMAIN taskQ'[w] : taskQ'[w][j] # ResumeIteration
  <2>1. ASSUME NEW w \in Workers
        PROVE  /\ Len(taskQ'[w]) = Prefetch /\ DOMAIN taskQ'[w] = 1 .. Prefetch
               /\ \A j \in 1 .. Prefetch : taskQ'[w][j] = (j - 1) * N + w
    <3> DEFINE q == [j \in 1 .. Prefetch |-> (j - 1) * N + w]
    <3>1. q \in Seq(Nat)
      <4>1. w \in Nat
        BY <1>1, <1>4
      <4>2. \A j \in 1 .. Prefetch : (j - 1) * N + w \in Nat
        BY <1>1, <4>1
      <4>3. q \in [1 .. Prefetch -> Nat]
        BY <4>2
      <4>4. Prefetch \in Nat
        BY <1>1
      <4> HIDE DEF q
      <4> QED
        BY <4>3, <4>4, SeqDef
    <3>2. taskQ'[w] = q
      <4>1. taskQ'[w] = << >> \o q
        BY <1>2
      <4> HIDE DEF q
      <4> QED
        BY <3>1, <4>1
    <3> QED
      BY <1>1, <3>2
  <2>2. ASSUME NEW w \in Workers, NEW j \in 1 .. Prefetch
        PROVE  /\ taskQ'[w][j] \in DOMAIN tasks'
               /\ tasks'[taskQ'[w][j]] = [worker |-> w, data |-> Pending]
               /\ rank[taskQ'[w][j]] = j
    <3>1. PICK a \in 0 .. Prefetch - 1 : a = j - 1 /\ j = a + 1
      BY <1>1
    <3>2. taskQ'[w][j] = a * N + w /\ w \in 0 .. N - 1
      BY <1>4, <2>1, <3>1
    <3> QED
      BY <1>2, <1>6, <3>1, <3>2
  <2>3. Queued(tasks, active, rank, none, Prefetch)'
    <3>1. ASSUME NEW w \in Workers
          PROVE  none[w] = 0 /\ 0 + Len(taskQ'[w]) = Latest(w, Prefetch)'
      BY <1>1, <1>7, <1>9, <2>1
    <3>2. ASSUME NEW w \in Workers, NEW j \in DOMAIN taskQ'[w]
          PROVE  /\ taskQ'[w][j] \in DOMAIN tasks'
                 /\ tasks'[taskQ'[w][j]] = [worker |-> w, data |-> Pending]
                 /\ rank[taskQ'[w][j]] = 0 + j
      <4>1. j \in 1 .. Prefetch /\ 0 + j = j
        BY <1>1, <2>1
      <4> QED
        BY <2>2, <4>1
    <3>3. active' = Workers
      BY <1>2
    <3> QED
      BY <3>1, <3>2, <3>3 DEF Queued
  <2>4. ASSUME NEW w \in Workers PROVE taskQ'[w] # << >>
    BY <1>1, <2>1
  <2>5. ASSUME NEW w \in Workers, NEW j \in DOMAIN taskQ'[w] PROVE taskQ'[w][j] # ResumeIteration
    <3>1. j \in 1 .. Prefetch
      BY <2>1
    <3>2. taskQ'[w][j] \in 0 .. M - 1
      BY <1>2, <2>2, <3>1
    <3> QED
      BY <1>1, <3>2, ResultsDiffer
  <2> QED
    BY <2>3, <2>4, <2>5
<1>14. Generators(tasks, dataQ, none, list)'
  BY <1>7, ResultsDiffer DEF Generators
<1>15. LiveTasks' # {}
  <2>1. PICK i \in 0 .. M - 1 : i = 0
    BY <1>1 DEF N
  <2>2. i \in DOMAIN tasks' /\ tasks'[i].worker \in Workers
    BY <1>2, <1>4, <1>5
  <2> QED
    BY <1>2, <2>2 DEF LiveTasks, Live
<1> QED
  BY <1>7, <1>8, <1>10, <1>11, <1>12, <1>13, <1>14, <1>15 DEF PoolInv, PoolWith

----------------------------------------------------------------------------
(* A pass ends. *)

\* A worker that fell behind another one has no sample left.
LEMMA Starved ==
    ASSUME PoolTypeOK,
           NEW rank, NEW made, NEW lap, NEW got, NEW list, PoolInv(rank, made, lap, got, list),
           FrontReady \/ Arriving, NEW w, w = tasks[FrontTask].worker,
           NEW u \in Workers, got[u] < got[w]
    PROVE  got[u] = Share(u, list)
<1>p. /\ made \in [Workers -> Nat] /\ got \in [Workers -> Nat]
      /\ Ranks(tasks, rank, got) /\ Rounds(tasks, active, rank, lap, got)
      /\ Arrivals(tasks, active, dataQ, rank, made, list)
      /\ Results(tasks, dataQ, rank, made, got, list)
      /\ Queued(tasks, active, rank, made, lap) /\ Generators(tasks, dataQ, made, list)
  BY DEF PoolInv, PoolWith
<1>1. LiveTasks # {} /\ w \in Workers /\ rank[FrontTask] = got[w] + 1
  BY FrontReturns
<1>2. PICK f : f = FrontTask
  OBVIOUS
<1>3. /\ f \in DOMAIN tasks /\ f \in Nat /\ rank[f] = got[w] + 1 /\ tasks[f].worker = w
      /\ \A i \in DOMAIN tasks : Live(i) => f <= i
  BY <1>1, <1>2, FrontIs
<1>4. got[u] \in Nat /\ got[w] \in Nat /\ made[u] \in Nat /\ u # w
  BY <1>1, <1>p
\* None of its tasks that is live comes next.
<1>5. ASSUME NEW i \in DOMAIN tasks, tasks[i].worker = u, rank[i] = got[u] + 1, Live(i)
      PROVE  FALSE
  <2>1. f <= i /\ f # i /\ i \in Nat
    BY <1>3, <1>4, <1>5 DEF PoolTypeOK
  <2>2. rank[f] <= rank[i]
    <3>1. f < i
      BY <1>3, <2>1
    <3> QED
      BY <1>3, <1>p, <3>1 DEF Ranks
  <2> QED
    BY <1>3, <1>4, <1>5, <2>2
<1>6. u \notin active
  <2> SUFFICES ASSUME u \in active PROVE FALSE
    OBVIOUS
  <2>1. /\ lap \in Nat /\ rank[f] <= lap + 1
        /\ \A n \in got[u] + 1 .. Latest(u, lap) :
              \E i \in DOMAIN tasks : tasks[i].worker = u /\ rank[i] = n
    BY <1>3, <1>p DEF Rounds
  <2>2. Latest(u, lap) \in Nat /\ lap <= Latest(u, lap)
    BY <2>1 DEF Latest
  <2>3. got[u] + 1 \in got[u] + 1 .. Latest(u, lap)
    BY <1>3, <1>4, <2>1, <2>2
  <2>4. PICK i \in DOMAIN tasks : tasks[i].worker = u /\ rank[i] = got[u] + 1
    BY <2>1, <2>3
  <2> QED
    BY <1>5, <2>4 DEF Live
<1>7. made[u] <= got[u]
  <2> SUFFICES ASSUME ~(made[u] <= got[u]) PROVE FALSE
    OBVIOUS
  <2>1. got[u] + 1 \in got[u] + 1 .. made[u]
    BY <1>4
  <2>2. PICK i \in DOMAIN tasks :
           tasks[i].worker = u /\ rank[i] = got[u] + 1 /\ Answered(tasks, dataQ, i)
    BY <1>p, <2>1 DEF Results
  <2> QED
    BY <1>5, <2>2, AnsweredIsLive
<1>8. ~Failed(tasks, dataQ, u)
  <2> SUFFICES ASSUME Failed(tasks, dataQ, u) PROVE FALSE
    OBVIOUS
  <2>1. PICK i \in DOMAIN tasks :
           /\ tasks[i].worker = u
           /\ \/ tasks[i].data = Failure
              \/ \E k \in OnTheWay(dataQ, i) : dataQ[k].data = Failure
    BY DEF Failed
  <2>2. tasks[i].data = Failure
    <3> SUFFICES ASSUME NEW k \in OnTheWay(dataQ, i) PROVE FALSE
      BY <2>1
    <3>1. k \in DOMAIN dataQ /\ dataQ[k].idx = i /\ dataQ[k].data # Stop
      BY DEF OnTheWay
    <3>2. dataQ[k].worker \in active /\ tasks[i] = [worker |-> dataQ[k].worker, data |-> Pending]
      BY <1>p, <3>1 DEF Arrivals
    <3>3. tasks[i].worker = dataQ[k].worker
      BY <3>2
    <3> QED
      BY <1>6, <2>1, <3>2, <3>3
  <2>3. rank[i] <= made[u]
    BY <1>p, <2>1, <2>2, ResultsDiffer DEF Results
  <2>4. got[u] < rank[i] /\ rank[i] \in Nat
    BY <1>p, <2>1 DEF Ranks
  <2> QED
    BY <1>4, <1>7, <2>3, <2>4
<1>9. made[u] = Share(u, list)
  BY <1>6, <1>8, <1>p DEF Queued, Generators
<1>10. got[u] <= made[u]
  BY <1>p DEF Results
<1> QED
  BY <1>4, <1>7, <1>9, <1>10

\* When no task is left that could still return, no worker has a sample left.
LEMMA AllStarved ==
    ASSUME PoolTypeOK,
           NEW rank, NEW made, NEW lap, NEW got, NEW list, PoolInv(rank, made, lap, got, list),
           Exhausted, NEW u \in Workers
    PROVE  got[u] = Share(u, list)
<1>p. /\ made \in [Workers -> Nat] /\ got \in [Workers -> Nat]
      /\ Results(tasks, dataQ, rank, made, got, list)
      /\ Queued(tasks, active, rank, made, lap) /\ Generators(tasks, dataQ, made, list)
      /\ active # {} => LiveTasks # {}
  BY DEF PoolInv, PoolWith
<1>1. active = {} /\ \A i \in DOMAIN tasks : ~Live(i)
  BY <1>p DEF Exhausted, LiveTasks
<1>2. \A i \in DOMAIN tasks : ~Answered(tasks, dataQ, i)
  BY <1>1, AnsweredIsLive
<1>3. ~Failed(tasks, dataQ, u)
  BY <1>2, ResultsDiffer DEF Failed, Answered
<1>4. made[u] = Share(u, list)
  BY <1>1, <1>3, <1>p DEF Queued, Generators
<1>5. got[u] <= made[u] /\ got[u] \in Nat /\ made[u] \in Nat
  BY <1>p DEF Results
<1>6. ~(got[u] < made[u])
  <2> SUFFICES ASSUME got[u] < made[u] PROVE FALSE
    OBVIOUS
  <2>1. got[u] + 1 \in got[u] + 1 .. made[u]
    BY <1>5
  <2> QED
    BY <1>2, <1>p, <2>1 DEF Results
<1> QED
  BY <1>4, <1>5, <1>6

\* A pass has as many batches as the worker with the fewest samples allows.
LEMMA BatchesAre ==
    ASSUME NEW list, IsList(list), NEW n \in Nat, \A w \in Workers : n <= Share(w, list),
           NEW u \in Workers, Share(u, list) = n
    PROVE  FullBatches(list) = n
<1> DEFINE S == {Cardinality(Positions(w, list)) : w \in Workers}
<1>1. S \in SUBSET Nat /\ Cardinality(Positions(u, list)) \in S
  BY PositionsFinite, FS_CardinalityType
<1>2. \A m \in S : n <= m
  BY DEF Share
<1>3. FullBatches(list) = Min(S)
  BY DEF FullBatches
<1>4. n \in S
  BY <1>1 DEF Share
<1> HIDE DEF S
<1>5. Min(S) \in S /\ \A m \in S : Min(S) <= m
  BY <1>1, MinIsLeast
<1>6. Min(S) \in Nat /\ n <= Min(S) /\ Min(S) <= n
  BY <1>1, <1>2, <1>4, <1>5
<1> QED
  BY <1>3, <1>6

----------------------------------------------------------------------------
(* Types. *)

LEMMA PutTypes ==
    ASSUME PoolTypeOK, NEW pending, NEW alive \in SUBSET Workers, TryPut(pending, alive),
           NEW r \in Nat, r <= sendIdx, DOMAIN pending \subseteq r .. sendIdx - 1,
           \A i \in DOMAIN pending : pending[i] \in Task
    PROVE  /\ taskQ' \in [Workers -> Seq(Nat \cup {ResumeIteration})]
           /\ sendIdx' \in Nat /\ cycle' \in Workers
           /\ DOMAIN tasks' \subseteq r .. sendIdx' - 1
           /\ \A i \in DOMAIN tasks' : tasks'[i] \in Task
<1>0. /\ cycle \in Workers /\ sendIdx \in Nat /\ NumWorkers \in Nat \ {0}
      /\ taskQ \in [Workers -> Seq(Nat \cup {ResumeIteration})]
  BY DatasetAssumption DEF PoolTypeOK
<1>1. CASE alive = {}
  <2>1. tasks' = pending /\ UNCHANGED <<taskQ, sendIdx, cycle>>
    BY <1>0, <1>1, PutTurn
  <2> QED
    BY <1>0, <2>1
<1>2. CASE alive # {}
  <2>1. PICK w \in alive : PutTo(pending, w)
    BY <1>0, <1>2, PutTurn
  <2>2. w \in Workers /\ w \in Nat /\ w < NumWorkers
    BY WorkerIs
  <2>3. /\ tasks' = [i \in DOMAIN pending \cup {sendIdx} |->
                        IF i = sendIdx THEN [worker |-> w, data |-> Pending] ELSE pending[i]]
        /\ taskQ' = [taskQ EXCEPT ![w] = Append(@, sendIdx)]
        /\ sendIdx' = sendIdx + 1
        /\ cycle' = IF w + 1 < NumWorkers THEN w + 1 ELSE 0
    BY <2>1 DEF PutTo
  <2>4. cycle' \in Workers
    <3>1. cycle' \in Nat /\ cycle' < NumWorkers
      BY <1>0, <2>2, <2>3
    <3> QED
      BY <3>1, WorkerIs
  <2>5. Append(taskQ[w], sendIdx) \in Seq(Nat \cup {ResumeIteration})
    BY <1>0, <2>2
  <2>6. taskQ' \in [Workers -> Seq(Nat \cup {ResumeIteration})]
    BY <1>0, <2>2, <2>3, <2>5
  <2>7. DOMAIN tasks' \subseteq r .. sendIdx' - 1
    BY <1>0, <2>3
  <2>8. [worker |-> w, data |-> Pending] \in Task
    BY <2>2 DEF Task
  <2>9. \A i \in DOMAIN tasks' : tasks'[i] \in Task
    BY <1>0, <2>3, <2>8
  <2>10. sendIdx' \in Nat
    BY <1>0, <2>3
  <2> QED
    BY <2>4, <2>6, <2>7, <2>9, <2>10
<1> QED
  BY <1>1, <1>2

LEMMA ReturnTypes ==
    ASSUME PoolTypeOK, Return
    PROVE  PoolTypeOK'
<1>1. LiveTasks # {}
  BY DEF Return, FrontReady, Arriving, Waiting
<1>2. FrontTask \in DOMAIN tasks /\ FrontTask \in Nat
  BY <1>1, FrontIs
<1>3. PICK f \in Nat : f = FrontTask
  BY <1>2
<1>4. PICK pending : pending = Beyond(f)
  OBVIOUS
<1>5. PICK alive : alive = active
  OBVIOUS
<1>6. /\ TryPut(pending, alive) /\ rcvdIdx' = f + 1 /\ active' = active
      /\ dataQ' = (IF FrontReady THEN dataQ ELSE Tail(dataQ))
      /\ shuffles' = shuffles /\ cursor' = cursor /\ stopped' = stopped
  BY <1>3, <1>4, <1>5 DEF Return, workerVars
<1>7. dataQ' \in Seq(Message)
  <2>1. ~FrontReady => dataQ # << >>
    BY DEF Return, Arriving, Waiting
  <2> QED
    BY <1>6, <2>1, HeadIs DEF PoolTypeOK
<1>8. /\ sendIdx \in Nat /\ rcvdIdx \in Nat /\ DOMAIN tasks \subseteq rcvdIdx .. sendIdx - 1
      /\ \A i \in DOMAIN tasks : tasks[i] \in Task
  BY DEF PoolTypeOK
<1>9. /\ f + 1 \in Nat /\ f + 1 <= sendIdx /\ DOMAIN pending \subseteq f + 1 .. sendIdx - 1
      /\ \A i \in DOMAIN pending : pending[i] \in Task
  BY <1>2, <1>3, <1>4, <1>8 DEF Beyond
<1>10. alive \in SUBSET Workers
  BY <1>5 DEF PoolTypeOK
<1>11. /\ taskQ' \in [Workers -> Seq(Nat \cup {ResumeIteration})]
       /\ sendIdx' \in Nat /\ cycle' \in Workers
       /\ DOMAIN tasks' \subseteq f + 1 .. sendIdx' - 1
       /\ \A i \in DOMAIN tasks' : tasks'[i] \in Task
  BY <1>6, <1>9, <1>10, PutTypes
<1> QED
  BY <1>6, <1>7, <1>9, <1>11 DEF PoolTypeOK

LEMMA MarkStoppedTypes ==
    ASSUME PoolTypeOK, MarkStopped
    PROVE  PoolTypeOK'
<1>1. LiveTasks # {} /\ dataQ # << >>
  BY DEF MarkStopped, Waiting
<1>2. FrontTask \in DOMAIN tasks /\ FrontTask \in Nat
  BY <1>1, FrontIs
<1>3. PICK f \in Nat : f = FrontTask
  BY <1>2
<1>4. PICK pending : pending = Beyond(f - 1)
  OBVIOUS
<1>5. PICK alive : alive = active \ {Head(dataQ).worker}
  OBVIOUS
<1>6. /\ rcvdIdx' = f /\ active' = alive /\ dataQ' = Tail(dataQ)
      /\ shuffles' = shuffles /\ cursor' = cursor /\ stopped' = stopped
  BY <1>3, <1>5 DEF MarkStopped, workerVars
<1>7. TryPut(pending, alive)
  <2>1. TryPut(pending, active')
    BY <1>3, <1>4 DEF MarkStopped
  <2> QED
    BY <1>6, <2>1 DEF TryPut
<1>8. dataQ' \in Seq(Message)
  BY <1>1, <1>6, HeadIs
<1>9. /\ sendIdx \in Nat /\ rcvdIdx \in Nat /\ DOMAIN tasks \subseteq rcvdIdx .. sendIdx - 1
      /\ \A i \in DOMAIN tasks : tasks[i] \in Task
  BY DEF PoolTypeOK
<1>10. /\ f <= sendIdx /\ DOMAIN pending \subseteq f .. sendIdx - 1
       /\ \A i \in DOMAIN pending : pending[i] \in Task
  BY <1>2, <1>3, <1>4, <1>9 DEF Beyond
<1>11. alive \in SUBSET Workers
  BY <1>5 DEF PoolTypeOK
<1>12. /\ taskQ' \in [Workers -> Seq(Nat \cup {ResumeIteration})]
       /\ sendIdx' \in Nat /\ cycle' \in Workers
       /\ DOMAIN tasks' \subseteq f .. sendIdx' - 1
       /\ \A i \in DOMAIN tasks' : tasks'[i] \in Task
  BY <1>7, <1>10, <1>11, PutTypes
<1> QED
  BY <1>6, <1>8, <1>11, <1>12 DEF PoolTypeOK

LEMMA StoreTypes ==
    ASSUME PoolTypeOK, NEW rank, NEW made, NEW lap, NEW got, NEW list, IsList(list),
           PoolInv(rank, made, lap, got, list), Store
    PROVE  PoolTypeOK'
<1>1. /\ LiveTasks # {} /\ dataQ # << >> /\ dataQ' = Tail(dataQ) /\ rcvdIdx' = FrontTask
      /\ tasks' = [Beyond(FrontTask - 1) EXCEPT ![Head(dataQ).idx].data = Head(dataQ).data]
      /\ UNCHANGED <<shuffles, cursor, stopped, taskQ, sendIdx, active, cycle>>
  BY DEF Store, Waiting, workerVars
<1>2. FrontTask \in DOMAIN tasks /\ FrontTask \in Nat
  BY <1>1, FrontIs
<1>3. DOMAIN tasks' = {t \in DOMAIN tasks : t > FrontTask - 1}
  BY <1>1 DEF Beyond
<1>4. DOMAIN tasks' \subseteq rcvdIdx' .. sendIdx' - 1
  BY <1>1, <1>2, <1>3 DEF PoolTypeOK
<1>5. PoolInv(rank, made, lap, got, list)'
  BY StoreKeeps
<1>6. \A i \in DOMAIN tasks' : tasks'[i] \in Task
  BY <1>5 DEF PoolInv, PoolWith, Ranks
<1>7. dataQ' \in Seq(Message)
  BY <1>1, HeadIs
<1> QED
  BY <1>1, <1>2, <1>4, <1>6, <1>7 DEF PoolTypeOK

LEMMA FetchTypes ==
    ASSUME PoolTypeOK, NEW w \in Workers, ShufflesAfter(w) \in 0 .. Passes,
           IsList(Order[ShufflesAfter(w)]), Fetch(w)
    PROVE  PoolTypeOK'
<1>1. PICK step \in GeneratorStep(w) :
          /\ shuffles' = [shuffles EXCEPT ![w] = step.shuffles]
          /\ cursor' = [cursor EXCEPT ![w] = step.cursor]
          /\ stopped' = [stopped EXCEPT ![w] = step.result = Stop]
          /\ dataQ' = Append(dataQ, [idx |-> Head(taskQ[w]), data |-> step.result, worker |-> w])
  BY DEF Fetch
<1>2. /\ taskQ[w] # << >> /\ taskQ' = [taskQ EXCEPT ![w] = Tail(@)]
      /\ tasks' = tasks /\ sendIdx' = sendIdx /\ rcvdIdx' = rcvdIdx
      /\ active' = active /\ cycle' = cycle
  BY DEF Fetch, loaderVars
<1>3. /\ shuffles \in [Workers -> 0 .. Passes] /\ stopped \in [Workers -> BOOLEAN]
      /\ cursor \in [Workers -> {Fresh, Finished} \cup (Nat \X Nat)]
      /\ taskQ \in [Workers -> Seq(Nat \cup {ResumeIteration})]
      /\ taskQ[w] \in Seq(Nat \cup {ResumeIteration}) /\ dataQ \in Seq(Message)
  BY DEF PoolTypeOK
<1>4. PICK list : list = Order[ShufflesAfter(w)]
  OBVIOUS
<1>5. Share(w, list) \in Nat
  BY <1>4, PositionsFinite, FS_CardinalityType DEF Share
<1>6. PICK n : n = IF cursor[w] \in {Fresh, Finished} THEN 0 ELSE Rank(w, list, cursor[w])
  OBVIOUS
<1>7. n \in Nat
  <2>1. CASE cursor[w] \in {Fresh, Finished}
    BY <1>6, <2>1
  <2>2. CASE cursor[w] \notin {Fresh, Finished}
    <3>1. cursor[w] \in Nat \X Nat
      BY <1>3, <2>2
    <3>2. Rank(w, list, cursor[w]) \in Nat
      BY <1>4, <3>1, PositionsLeft
    <3> QED
      BY <1>6, <2>2, <3>2
  <2> QED
    BY <2>1, <2>2
<1>8. /\ step.shuffles = ShufflesAfter(w)
      /\ \/ step.result = Stop /\ step.cursor = Finished
         \/ /\ n + 1 \in 1 .. Share(w, list)
            /\ \/ step.result = Nth(w, list, n + 1) /\ step.cursor \in Nat \X Nat
               \/ step.result = Failure /\ step.cursor = Finished
  <2>1. /\ cursor[w] \in {Fresh, Finished} \cup (Nat \X Nat)
        /\ cursor[w] = Fresh => n = 0
        /\ cursor[w] \notin {Fresh, Finished} => Rank(w, list, cursor[w]) = n
    BY <1>3, <1>6
  <2> QED
    BY <1>4, <1>7, <2>1, GeneratorSteps
<1>9. /\ step.cursor \in {Fresh, Finished} \cup (Nat \X Nat)
      /\ step.result \in Samples \cup {Failure, Stop}
  BY <1>4, <1>8, NthIsSample
<1>10. Head(taskQ[w]) \in Nat \cup {ResumeIteration} /\ Tail(taskQ[w]) \in Seq(Nat \cup {ResumeIteration})
  BY <1>2, <1>3
<1>11. [idx |-> Head(taskQ[w]), data |-> step.result, worker |-> w] \in Message
  BY <1>9, <1>10 DEF Message
<1>12. dataQ' \in Seq(Message)
  BY <1>1, <1>3, <1>11
<1>13. shuffles' \in [Workers -> 0 .. Passes]
  BY <1>1, <1>3, <1>8
<1>14. cursor' \in [Workers -> {Fresh, Finished} \cup (Nat \X Nat)]
  BY <1>1, <1>3, <1>9
<1>15. stopped' \in [Workers -> BOOLEAN]
  BY <1>1, <1>3
<1>16. taskQ' \in [Workers -> Seq(Nat \cup {ResumeIteration})]
  BY <1>2, <1>3, <1>10
<1> QED
  BY <1>2, <1>12, <1>13, <1>14, <1>15, <1>16 DEF PoolTypeOK

\* The other steps of a worker, and the messages that a new pass begins with.
LEMMA OtherTypes ==
    ASSUME PoolTypeOK
    PROVE  /\ \A w \in Workers : DropTask(w) => PoolTypeOK'
           /\ \A w \in Workers : RestartGenerator(w) => PoolTypeOK'
           /\ SendResume => PoolTypeOK'
<1>1. ASSUME NEW w \in Workers, DropTask(w) PROVE PoolTypeOK'
  <2>1. /\ taskQ[w] # << >> /\ taskQ' = [taskQ EXCEPT ![w] = Tail(@)]
        /\ UNCHANGED <<shuffles, cursor, stopped, dataQ, tasks, sendIdx, rcvdIdx, active, cycle>>
    BY <1>1 DEF DropTask, workerVars, loaderVars
  <2>2. Tail(taskQ[w]) \in Seq(Nat \cup {ResumeIteration})
    BY <2>1 DEF PoolTypeOK
  <2>3. taskQ' \in [Workers -> Seq(Nat \cup {ResumeIteration})]
    BY <2>1, <2>2 DEF PoolTypeOK
  <2> QED
    BY <2>1, <2>3 DEF PoolTypeOK
<1>2. ASSUME NEW w \in Workers, RestartGenerator(w) PROVE PoolTypeOK'
  <2>1. /\ taskQ[w] # << >> /\ taskQ' = [taskQ EXCEPT ![w] = Tail(@)]
        /\ cursor' = [cursor EXCEPT ![w] = Fresh] /\ stopped' = [stopped EXCEPT ![w] = FALSE]
        /\ dataQ' = Append(dataQ, [idx |-> ResumeIteration, data |-> Pending, worker |-> w])
        /\ UNCHANGED <<shuffles, tasks, sendIdx, rcvdIdx, active, cycle>>
    BY <1>2 DEF RestartGenerator, loaderVars
  <2>2. Tail(taskQ[w]) \in Seq(Nat \cup {ResumeIteration})
    BY <2>1 DEF PoolTypeOK
  <2>3. taskQ' \in [Workers -> Seq(Nat \cup {ResumeIteration})]
    BY <2>1, <2>2 DEF PoolTypeOK
  <2>4. [idx |-> ResumeIteration, data |-> Pending, worker |-> w] \in Message
    BY DEF Message
  <2>5. dataQ' \in Seq(Message)
    BY <2>1, <2>4 DEF PoolTypeOK
  <2>6. cursor' \in [Workers -> {Fresh, Finished} \cup (Nat \X Nat)] /\ stopped' \in [Workers -> BOOLEAN]
    BY <2>1 DEF PoolTypeOK
  <2> QED
    BY <2>1, <2>3, <2>5, <2>6 DEF PoolTypeOK
<1>3. ASSUME SendResume PROVE PoolTypeOK'
  <2>1. /\ taskQ' = [w \in Workers |-> Append(taskQ[w], ResumeIteration)]
        /\ UNCHANGED <<shuffles, cursor, stopped, dataQ, tasks, sendIdx, rcvdIdx, active, cycle>>
    BY <1>3 DEF SendResume, workerVars, loaderVars
  <2>2. \A w \in Workers : Append(taskQ[w], ResumeIteration) \in Seq(Nat \cup {ResumeIteration})
    BY DEF PoolTypeOK
  <2>3. taskQ' \in [Workers -> Seq(Nat \cup {ResumeIteration})]
    BY <2>1, <2>2
  <2> QED
    BY <2>1, <2>3 DEF PoolTypeOK
<1> QED
  BY <1>1, <1>2, <1>3

LEMMA PrimeTypes ==
    ASSUME PoolTypeOK, Prime(taskQ), UNCHANGED workerVars, dataQ' \in Seq(Message)
    PROVE  PoolTypeOK'
<1> DEFINE N == NumWorkers
           M == Prefetch * NumWorkers
<1>1. N \in Nat \ {0} /\ Prefetch \in Nat \ {0} /\ M \in Nat
  BY DatasetAssumption, PoolAssumption
<1>2. /\ tasks' = [i \in 0 .. M - 1 |-> [worker |-> i % N, data |-> Pending]]
      /\ taskQ' = [w \in Workers |-> taskQ[w] \o [j \in 1 .. Prefetch |-> (j - 1) * N + w]]
      /\ sendIdx' = M /\ rcvdIdx' = 0 /\ active' = Workers /\ cycle' = 0
      /\ shuffles' = shuffles /\ cursor' = cursor /\ stopped' = stopped
  BY DEF Prime, workerVars
<1>3. ASSUME NEW i \in DOMAIN tasks' PROVE tasks'[i] \in Task
  <2>1. i \in Nat /\ tasks'[i] = [worker |-> i % N, data |-> Pending]
    BY <1>1, <1>2
  <2>2. i % N \in Workers
    <3>1. i % N \in 0 .. N - 1
      BY <1>1, <2>1, Quotient
    <3> QED
      BY <3>1 DEF Workers
  <2> QED
    BY <2>1, <2>2 DEF Task
<1>4. ASSUME NEW w \in Workers PROVE taskQ'[w] \in Seq(Nat \cup {ResumeIteration})
  <2> DEFINE q == [j \in 1 .. Prefetch |-> (j - 1) * N + w]
  <2>1. w \in Nat
    BY WorkerIs
  <2>2. \A j \in 1 .. Prefetch : (j - 1) * N + w \in Nat
    BY <1>1, <2>1
  <2>3. q \in [1 .. Prefetch -> Nat] /\ Prefetch \in Nat
    BY <1>1, <2>2
  <2>4. taskQ'[w] = taskQ[w] \o q
    BY <1>2
  <2> HIDE DEF q
  <2>5. q \in [1 .. Prefetch -> Nat \cup {ResumeIteration}]
    BY <2>3
  <2>6. q \in Seq(Nat \cup {ResumeIteration})
    BY <2>3, <2>5, SeqDef
  <2>7. taskQ[w] \in Seq(Nat \cup {ResumeIteration})
    BY DEF PoolTypeOK
  <2> QED
    BY <2>4, <2>6, <2>7
<1>5. 0 \in Workers
  BY <1>1, WorkerIs
<1> HIDE DEF N, M
<1>6. taskQ' \in [Workers -> Seq(Nat \cup {ResumeIteration})]
  BY <1>2, <1>4
<1>7. DOMAIN tasks' \subseteq rcvdIdx' .. sendIdx' - 1
  BY <1>2
<1> QED
  BY <1>1, <1>2, <1>3, <1>5, <1>6, <1>7 DEF PoolTypeOK

----------------------------------------------------------------------------
(* The passes. *)

\* How often each worker is to shuffle its list for the pass it is in.
Lap == IF phase \in {"idle", "resume"} THEN pass - 1 ELSE pass

\* A worker has shuffled for this pass, or its first task will make it shuffle, or it
\* has nothing to do until a pass begins.
Turn(w) ==
    \/ cursor[w] # Fresh /\ Lap > 0 /\ shuffles[w] = Lap
    \/ /\ cursor[w] = Fresh /\ ~stopped[w] /\ Lap > 0 /\ shuffles[w] = Lap - 1
       /\ taskQ[w] # << >> /\ Head(taskQ[w]) # ResumeIteration
    \/ /\ cursor[w] = Fresh /\ ~stopped[w] /\ shuffles[w] = Lap /\ taskQ[w] = << >>
       /\ phase = "resume" \/ (phase = "idle" /\ pass = 1)

NoResume(w) == /\ \A j \in DOMAIN taskQ[w] : taskQ[w][j] # ResumeIteration
               /\ \A k \in DOMAIN dataQ : dataQ[k].worker = w => dataQ[k].idx # ResumeIteration

\* A resume message is the last task of a worker, or has been answered.
ResumeIsLast(w) ==
    /\ taskQ[w] # << >> /\ taskQ[w][Len(taskQ[w])] = ResumeIteration
    /\ \A j \in 1 .. Len(taskQ[w]) - 1 : taskQ[w][j] # ResumeIteration
    /\ \A k \in DOMAIN dataQ : dataQ[k].worker = w => dataQ[k].idx # ResumeIteration
Resuming(w) == IF phase = "resume" THEN (cursor[w] = Fresh /\ taskQ[w] = << >>) \/ ResumeIsLast(w)
                                   ELSE NoResume(w)

Passing ==
    /\ phase # "idle" => pass <= Passes
    /\ phase = "idle" => count = 0 /\ (pass = 1 => dataQ = << >>)
    /\ phase = "resume" => pass > 1 /\ count = 0 /\ batch = << >>
    /\ phase = "over" => count = FullBatches(Order[pass])

\* The batch under construction has the count-th or the next sample of each worker.
Running == phase \in {"collect", "full"}
Got == [w \in Workers |-> IF phase = "collect" /\ w \in DOMAIN batch THEN count + 1 ELSE count]
Rows == /\ \A w \in DOMAIN batch : batch[w] = Nth(w, Order[pass], Got[w])
        /\ phase = "collect" => DOMAIN batch # Workers
        /\ phase = "full" => DOMAIN batch = Workers /\ count > 0

PoolRuns(got, list) == \E rank, made, lap : PoolInv(rank, made, lap, got, list)

BatchIInv ==
    /\ BatchTypeOK
    /\ \A w \in Workers : Turn(w) /\ Resuming(w)
    /\ Passing
    /\ Running => Rows /\ PoolRuns(Got, Order[pass])

\* The lists of the passes.
LEMMA ListOfPass ==
    ASSUME NEW k \in 0 .. Passes
    PROVE  IsList(Order[k])
BY ShufflesAreLists, DatasetAssumption DEF Order

\* A worker that takes a task reads the list of the pass it is in.
LEMMA FetchLap ==
    ASSUME NEW w \in Workers, BatchTypeOK, Turn(w), taskQ[w] # << >>, Head(taskQ[w]) # ResumeIteration
    PROVE  ShufflesAfter(w) = Lap /\ Lap > 0
<1>1. shuffles[w] \in Nat /\ Lap \in Int
  <2>1. shuffles[w] \in 0 .. Passes /\ pass \in 1 .. Passes + 1
    BY DEF BatchTypeOK, PoolTypeOK
  <2> QED
    BY <2>1 DEF Lap
<1> QED
  BY <1>1 DEF Turn, ShufflesAfter

\* What the loader does while a pass goes on leaves the workers where they are.
LEMMA LoaderKeepsTurns ==
    ASSUME PoolTypeOK, NEW w \in Workers, Turn(w), Resuming(w),
           phase \notin {"idle", "resume"}, phase' \notin {"idle", "resume"}, pass' = pass,
           UNCHANGED workerVars,
           taskQ'[w] = taskQ[w] \/ \E i \in Nat : taskQ'[w] = Append(taskQ[w], i),
           dataQ' = dataQ \/ (dataQ # << >> /\ dataQ' = Tail(dataQ))
    PROVE  Turn(w)' /\ Resuming(w)'
<1>1. shuffles' = shuffles /\ cursor' = cursor /\ stopped' = stopped /\ Lap' = Lap
  BY DEF workerVars, Lap
<1>2. taskQ[w] \in Seq(Nat \cup {ResumeIteration})
  BY DEF PoolTypeOK
<1>3. /\ taskQ[w] # << >> => taskQ'[w] # << >> /\ Head(taskQ'[w]) = Head(taskQ[w])
      /\ \A j \in DOMAIN taskQ'[w] : (j \in DOMAIN taskQ[w] /\ taskQ'[w][j] = taskQ[w][j]) \/ taskQ'[w][j] \in Nat
  <2>1. CASE taskQ'[w] = taskQ[w]
    BY <2>1
  <2>2. CASE \E i \in Nat : taskQ'[w] = Append(taskQ[w], i)
    <3>1. PICK i \in Nat : taskQ'[w] = Append(taskQ[w], i)
      BY <2>2
    <3>2. taskQ'[w] # << >> /\ (taskQ[w] # << >> => Head(taskQ'[w]) = Head(taskQ[w]))
      BY <1>2, <3>1
    <3>3. ASSUME NEW j \in DOMAIN taskQ'[w]
          PROVE  (j \in DOMAIN taskQ[w] /\ taskQ'[w][j] = taskQ[w][j]) \/ taskQ'[w][j] \in Nat
      BY <1>2, <3>1
    <3> QED
      BY <3>2, <3>3
  <2> QED
    BY <2>1, <2>2
<1>4. \A k \in DOMAIN dataQ' : \E l \in DOMAIN dataQ : dataQ'[k] = dataQ[l]
  BY HeadIs
<1>5. NoResume(w)
  BY DEF Resuming
<1>6. NoResume(w)'
  BY <1>3, <1>4, <1>5, ResultsDiffer DEF NoResume
<1>7. Resuming(w)'
  BY <1>6 DEF Resuming
<1>8. Turn(w)'
  BY <1>1, <1>3 DEF Turn
<1> QED
  BY <1>7, <1>8

LEMMA PutKeepsQueues ==
    ASSUME PoolTypeOK, NEW pending, NEW alive \in SUBSET Workers, TryPut(pending, alive), NEW w \in Workers
    PROVE  taskQ'[w] = taskQ[w] \/ \E i \in Nat : taskQ'[w] = Append(taskQ[w], i)
<1>0. cycle \in Workers /\ sendIdx \in Nat
  BY DEF PoolTypeOK
<1>1. CASE alive = {}
  BY <1>0, <1>1, PutTurn
<1>2. CASE alive # {}
  <2>1. PICK u \in alive : PutTo(pending, u)
    BY <1>0, <1>2, PutTurn
  <2>2. taskQ' = [taskQ EXCEPT ![u] = Append(@, sendIdx)]
    BY <2>1 DEF PutTo
  <2>3. DOMAIN taskQ = Workers
    BY DEF PoolTypeOK
  <2> QED
    BY <1>0, <2>2, <2>3
<1> QED
  BY <1>1, <1>2

\* The loader's steps while a pass goes on.
LEMMA PassSteps ==
    ASSUME BatchTypeOK, Return \/ Store \/ MarkStopped, NEW w \in Workers
    PROVE  /\ UNCHANGED workerVars
           /\ taskQ'[w] = taskQ[w] \/ \E i \in Nat : taskQ'[w] = Append(taskQ[w], i)
           /\ dataQ' = dataQ \/ (dataQ # << >> /\ dataQ' = Tail(dataQ))
<1>0. PoolTypeOK
  BY DEF BatchTypeOK
<1>1. CASE Return
  <2>1. PICK pending : pending = Beyond(FrontTask)
    OBVIOUS
  <2>2. PICK alive : alive = active
    OBVIOUS
  <2>3. TryPut(pending, alive) /\ alive \in SUBSET Workers
    BY <1>0, <1>1, <2>1, <2>2 DEF Return, PoolTypeOK
  <2>4. taskQ'[w] = taskQ[w] \/ \E i \in Nat : taskQ'[w] = Append(taskQ[w], i)
    BY <1>0, <2>3, PutKeepsQueues
  <2>5. dataQ' = dataQ \/ (dataQ # << >> /\ dataQ' = Tail(dataQ))
    BY <1>1 DEF Return, Arriving, Waiting
  <2> QED
    BY <1>1, <2>4, <2>5 DEF Return
<1>2. CASE MarkStopped
  <2>1. PICK pending : pending = Beyond(FrontTask - 1)
    OBVIOUS
  <2>2. PICK alive : alive = active \ {Head(dataQ).worker}
    OBVIOUS
  <2>3. TryPut(pending, active') /\ active' = alive
    BY <1>2, <2>1, <2>2 DEF MarkStopped
  <2>4. TryPut(pending, alive) /\ alive \in SUBSET Workers
    <3>1. active' = alive
      BY <2>3
    <3>2. TryPut(pending, alive)
      BY <2>3, <3>1
    <3>3. alive \in SUBSET Workers
      BY <1>0, <2>2 DEF PoolTypeOK
    <3> QED
      BY <3>2, <3>3
  <2>5. taskQ'[w] = taskQ[w] \/ \E i \in Nat : taskQ'[w] = Append(taskQ[w], i)
    BY <1>0, <2>4, PutKeepsQueues
  <2> QED
    BY <1>2, <2>5 DEF MarkStopped, Waiting
<1>3. CASE Store
  BY <1>3 DEF Store, Waiting
<1> QED
  BY <1>1, <1>2, <1>3

\* A pass that begins finds the workers idle.
LEMMA PrimeStarts ==
    ASSUME BatchIInv, pass \in 1 .. Passes, Prime(taskQ), UNCHANGED workerVars,
           dataQ' = << >>, phase' = "collect", batch' = << >>, count' = 0, pass' = pass, UNCHANGED yielded,
           \A w \in Workers : cursor[w] = Fresh /\ ~stopped[w] /\ taskQ[w] = << >> /\ shuffles[w] = pass - 1
    PROVE  BatchIInv'
<1>0. PoolTypeOK /\ pass \in Nat /\ Passes \in Nat
  BY DatasetAssumption DEF BatchIInv, BatchTypeOK
<1>1. shuffles' = shuffles /\ cursor' = cursor /\ stopped' = stopped
  BY DEF workerVars
<1>2. PICK list : list = Order[pass]
  OBVIOUS
<1>3. IsList(list)
  BY <1>0, <1>2, ListOfPass
<1>4. PICK none : none = [w \in Workers |-> 0]
  OBVIOUS
<1>5. /\ PoolRuns(none, list)'
      /\ \A w \in Workers : /\ taskQ'[w] # << >>
                            /\ \A j \in DOMAIN taskQ'[w] : taskQ'[w][j] # ResumeIteration
  <2>1. \A w \in Workers : Share(w, list) \in Nat
    BY <1>3, PositionsFinite, FS_CardinalityType DEF Share
  <2>2. \A w \in Workers : cursor'[w] = Fresh /\ ~stopped'[w]
    BY <1>1
  <2>3. \E rank, lap : PoolInv(rank, none, lap, none, list)'
    BY <1>4, <2>1, <2>2, PrimeMakes
  <2>4. \A w \in Workers : /\ taskQ'[w] # << >>
                           /\ \A j \in DOMAIN taskQ'[w] : taskQ'[w][j] # ResumeIteration
    BY <1>4, <2>1, <2>2, PrimeMakes
  <2> QED
    BY <2>3, <2>4 DEF PoolRuns
<1>6. PoolTypeOK'
  BY <1>0, PrimeTypes
<1>7. BatchTypeOK'
  BY <1>0, <1>6 DEF BatchIInv, BatchTypeOK
<1>8. Got' = none /\ Order[pass]' = list /\ Rows'
  <2>1. 0 \in Workers
    BY WorkerIs, DatasetAssumption
  <2>2. Got' = none
    BY <1>4 DEF Got
  <2> QED
    BY <1>2, <2>1, <2>2 DEF Rows
<1>9. ASSUME NEW w \in Workers PROVE Turn(w)' /\ Resuming(w)'
  <2>1. Lap' = pass
    BY DEF Lap
  <2>2. taskQ'[w] \in Seq(Nat \cup {ResumeIteration}) /\ taskQ'[w] # << >>
    BY <1>5, <1>6 DEF PoolTypeOK
  <2>3. Head(taskQ'[w]) # ResumeIteration
    <3>1. PICK j \in DOMAIN taskQ'[w] : j = 1 /\ Head(taskQ'[w]) = taskQ'[w][j]
      BY <2>2
    <3> QED
      BY <1>5, <3>1
  <2>4. Turn(w)'
    BY <1>0, <1>1, <2>1, <2>2, <2>3 DEF Turn
  <2>5. NoResume(w)'
    BY <1>5 DEF NoResume
  <2> QED
    BY <2>4, <2>5 DEF Resuming
<1>10. Passing'
  BY DEF Passing
<1>11. PoolRuns(Got, Order[pass])'
  BY <1>5, <1>8 DEF PoolRuns
<1> QED
  BY <1>7, <1>8, <1>9, <1>10, <1>11 DEF BatchIInv

LEMMA BeginPassKeeps ==
    ASSUME BatchIInv, BeginPass
    PROVE  BatchIInv'
<1>0. /\ PoolTypeOK /\ pass \in 1 .. Passes + 1 /\ pass \in Nat /\ Passes \in Nat
      /\ phase = "idle" /\ pass <= Passes
      /\ batch' = << >> /\ count' = 0 /\ pass' = pass /\ yielded' = yielded
  BY DatasetAssumption DEF BatchIInv, BatchTypeOK, BeginPass
<1>1. CASE pass = 1
  <2>1. /\ Prime(taskQ) /\ UNCHANGED workerVars /\ dataQ' = dataQ /\ phase' = "collect"
    BY <1>0, <1>1 DEF BeginPass, FirstIteration
  <2>2. dataQ = << >>
    BY <1>0, <1>1 DEF BatchIInv, Passing
  <2>3. Lap = 0
    BY <1>0, <1>1 DEF Lap
  <2>4. \A w \in Workers :
           cursor[w] = Fresh /\ ~stopped[w] /\ taskQ[w] = << >> /\ shuffles[w] = pass - 1
    BY <1>0, <1>1, <2>3 DEF BatchIInv, Turn
  <2> QED
    BY <1>0, <2>1, <2>2, <2>4, PrimeStarts
<1>2. CASE pass # 1
  <2>1. /\ SendResume /\ phase' = "resume" /\ taskQ' = [w \in Workers |-> Append(taskQ[w], ResumeIteration)]
        /\ UNCHANGED <<shuffles, cursor, stopped, dataQ>>
    BY <1>0, <1>2 DEF BeginPass, SendResume, workerVars
  <2>2. PoolTypeOK'
    BY <1>0, <2>1, OtherTypes
  <2>3. BatchTypeOK'
    BY <1>0, <2>1, <2>2 DEF BatchTypeOK
  <2>4. Passing'
    BY <1>0, <1>2, <2>1 DEF Passing
  <2>5. Lap' = Lap /\ Lap = pass - 1
    BY <1>0, <2>1 DEF Lap
  <2>6. ASSUME NEW w \in Workers PROVE Turn(w)' /\ Resuming(w)'
    <3>1. taskQ'[w] = Append(taskQ[w], ResumeIteration) /\ taskQ[w] \in Seq(Nat \cup {ResumeIteration})
      BY <1>0, <2>1 DEF PoolTypeOK
    <3>2. /\ taskQ'[w] # << >> /\ Len(taskQ'[w]) = Len(taskQ[w]) + 1 /\ Len(taskQ[w]) \in Nat
          /\ taskQ'[w][Len(taskQ[w]) + 1] = ResumeIteration
          /\ \A j \in 1 .. Len(taskQ[w]) : j \in DOMAIN taskQ[w] /\ taskQ'[w][j] = taskQ[w][j]
          /\ taskQ[w] # << >> => Head(taskQ'[w]) = Head(taskQ[w])
      <4>1. ResumeIteration \in Nat \cup {ResumeIteration}
        OBVIOUS
      <4> QED
        BY <3>1, <4>1
    <3>3. NoResume(w) /\ Turn(w)
      BY <1>0 DEF BatchIInv, Resuming
    <3>4. ResumeIsLast(w)'
      BY <2>1, <3>2, <3>3 DEF NoResume, ResumeIsLast
    <3>5. Turn(w)'
      BY <1>0, <1>2, <2>1, <2>5, <3>2, <3>3 DEF Turn
    <3> QED
      BY <2>1, <3>4, <3>5 DEF Resuming
  <2> QED
    BY <2>1, <2>3, <2>4, <2>6 DEF BatchIInv, Running
<1> QED
  BY <1>1, <1>2

LEMMA RestartKeeps ==
    ASSUME BatchIInv, Restart
    PROVE  BatchIInv'
<1>0. /\ PoolTypeOK /\ pass \in Nat /\ pass > 1 /\ pass <= Passes /\ Passes \in Nat
      /\ phase = "resume" /\ phase' = "collect" /\ batch = << >> /\ count = 0
      /\ batch' = batch /\ count' = count /\ pass' = pass /\ yielded' = yielded
      /\ Prime(taskQ) /\ UNCHANGED workerVars /\ dataQ' = << >>
      /\ \A w \in Workers : \E i \in 1 .. Len(dataQ) :
             dataQ[i].worker = w /\ dataQ[i].idx = ResumeIteration
  BY DatasetAssumption DEF BatchIInv, BatchTypeOK, Passing, Restart, DrainAndPrime
<1>1. DOMAIN dataQ = 1 .. Len(dataQ)
  BY <1>0 DEF PoolTypeOK
<1>2. Lap = pass - 1
  BY <1>0 DEF Lap
<1>3. ASSUME NEW w \in Workers
      PROVE  cursor[w] = Fresh /\ ~stopped[w] /\ taskQ[w] = << >> /\ shuffles[w] = pass - 1
  <2>1. ~ResumeIsLast(w)
    BY <1>0, <1>1 DEF ResumeIsLast
  <2>2. cursor[w] = Fresh /\ taskQ[w] = << >>
    BY <1>0, <2>1 DEF BatchIInv, Resuming
  <2> QED
    BY <1>0, <1>2, <2>2 DEF BatchIInv, Turn
<1> QED
  BY <1>0, <1>3, PrimeStarts

\* The samples of a pass that the loader has had.
LEMMA GotIs ==
    ASSUME BatchIInv, Running, NEW got, got = Got, NEW list, list = Order[pass]
    PROVE  /\ pass \in 1 .. Passes /\ count \in Nat /\ IsList(list) /\ PoolRuns(got, list)
           /\ got \in [Workers -> Nat] /\ \A w \in Workers : count <= got[w] /\ got[w] <= Share(w, list)
           /\ \A w \in Workers : got[w] = IF phase = "collect" /\ w \in DOMAIN batch THEN count + 1 ELSE count
<1>1. pass \in 1 .. Passes /\ count \in Nat
  <2>1. pass \in 1 .. Passes + 1 /\ pass <= Passes /\ Passes \in Nat /\ count \in Nat
    BY DatasetAssumption DEF BatchIInv, BatchTypeOK, Passing, Running
  <2> QED
    BY <2>1
<1>2. IsList(list)
  BY <1>1, ListOfPass, DatasetAssumption
<1>3. PoolRuns(got, list)
  BY DEF BatchIInv
<1>4. \A w \in Workers : got[w] = IF phase = "collect" /\ w \in DOMAIN batch THEN count + 1 ELSE count
  BY DEF Got
<1>5. got \in [Workers -> Nat]
  BY <1>1 DEF Got
<1>6. PICK rank, made, lap : PoolInv(rank, made, lap, got, list)
  BY <1>3 DEF PoolRuns
<1>7. \A w \in Workers : got[w] <= Share(w, list)
  BY <1>6 DEF PoolInv, PoolWith, Results
<1> QED
  BY <1>1, <1>2, <1>3, <1>4, <1>5, <1>7

LEMMA CollectKeeps ==
    ASSUME BatchIInv, Collect
    PROVE  BatchIInv'
<1>0. /\ phase = "collect" /\ Return /\ pass' = pass /\ yielded' = yielded /\ PoolTypeOK /\ BatchTypeOK
      /\ Rows
  BY DEF BatchIInv, BatchTypeOK, Collect, Running
<1>1. PICK list : list = Order[pass]
  OBVIOUS
<1>2. PICK got : got = Got
  OBVIOUS
<1>3. /\ pass \in 1 .. Passes /\ count \in Nat /\ IsList(list) /\ PoolRuns(got, list)
      /\ got \in [Workers -> Nat] /\ \A w \in Workers : count <= got[w] /\ got[w] <= Share(w, list)
      /\ \A w \in Workers : got[w] = IF w \in DOMAIN batch THEN count + 1 ELSE count
  BY <1>0, <1>1, <1>2, GotIs DEF Running
<1>4. PICK rank, made, lap : PoolInv(rank, made, lap, got, list)
  BY <1>3 DEF PoolRuns
<1>5. PICK w : w = tasks[FrontTask].worker
  OBVIOUS
<1>6. FrontReady \/ Arriving
  BY <1>0 DEF Return
<1>7. w \in Workers /\ IsNth(w, list, got[w] + 1, Result)
  BY <1>0, <1>4, <1>5, <1>6, FrontReturns
<1>8. PoolTypeOK'
  BY <1>0, ReturnTypes
<1>9. ASSUME phase' \notin {"idle", "resume"}, NEW u \in Workers
      PROVE  Turn(u)' /\ Resuming(u)'
  <2>1. Turn(u) /\ Resuming(u)
    BY DEF BatchIInv
  <2>2. /\ UNCHANGED workerVars
        /\ taskQ'[u] = taskQ[u] \/ \E i \in Nat : taskQ'[u] = Append(taskQ[u], i)
        /\ dataQ' = dataQ \/ (dataQ # << >> /\ dataQ' = Tail(dataQ))
    BY <1>0, PassSteps
  <2> QED
    BY <1>0, <1>9, <2>1, <2>2, LoaderKeepsTurns
<1>10. pass <= Passes /\ pass' = pass
  BY <1>0, <1>3
<1>11. CASE Result = Failure
  <2>1. phase' = "raised" /\ batch' = batch /\ count' = count
    BY <1>11 DEF Collect
  <2>2. BatchTypeOK'
    BY <1>0, <1>8, <2>1 DEF BatchTypeOK
  <2> QED
    BY <1>9, <1>10, <2>1, <2>2 DEF BatchIInv, Passing, Running
<1>12. CASE Result # Failure
  <2>1. PICK d : d = Result
    OBVIOUS
  <2>2. d = Nth(w, list, got[w] + 1) /\ d \in Samples /\ d.worker = w
    <3>1. got[w] + 1 <= Share(w, list) /\ d = Nth(w, list, got[w] + 1)
      BY <1>7, <1>12, <2>1 DEF IsNth
    <3>2. got[w] + 1 \in 1 .. Share(w, list)
      <4>1. Share(w, list) \in Nat /\ got[w] \in Nat
        BY <1>3, <1>7, PositionsFinite, FS_CardinalityType DEF Share
      <4> QED
        BY <3>1, <4>1
    <3> QED
      BY <1>3, <1>7, <3>1, <3>2, NthIsSample
  <2>3. Accept(d)
    BY <1>12, <2>1 DEF Collect
  <2>4. CASE w \in DOMAIN batch
    <3>1. phase' = "over" /\ batch' = batch /\ count' = count
      BY <2>2, <2>3, <2>4 DEF Accept
    <3>2. PICK u \in Workers : u \notin DOMAIN batch
      BY <1>0 DEF BatchTypeOK, Rows
    <3>3. got[u] = count /\ got[u] < got[w]
      BY <1>3, <1>7, <2>4, <3>2
    <3>4. Share(u, list) = count
      BY <1>0, <1>4, <1>5, <1>6, <3>3, Starved
    <3>5. \A v \in Workers : count <= Share(v, list)
      <4>1. ASSUME NEW v \in Workers PROVE count <= Share(v, list)
        <5>1. Share(v, list) \in Nat /\ got[v] \in Nat /\ count <= got[v] /\ got[v] <= Share(v, list)
          BY <1>3, PositionsFinite, FS_CardinalityType DEF Share
        <5> QED
          BY <1>3, <5>1
      <4> QED
        BY <4>1
    <3>6. count = FullBatches(list)
      BY <1>3, <3>4, <3>5, BatchesAre
    <3>7. BatchTypeOK'
      BY <1>0, <1>8, <3>1 DEF BatchTypeOK
    <3>8. Passing'
      BY <1>1, <1>10, <3>1, <3>6 DEF Passing
    <3> QED
      BY <1>9, <3>1, <3>7, <3>8 DEF BatchIInv, Running
  <2>5. CASE w \notin DOMAIN batch
    <3>1. PICK rows : rows = [u \in DOMAIN batch \cup {w} |-> IF u = w THEN d ELSE batch[u]]
      OBVIOUS
    <3>2. /\ batch' = rows
          /\ IF DOMAIN rows # Workers THEN UNCHANGED <<phase, count>>
             ELSE IF Collatable(rows) THEN phase' = "full" /\ count' = count + 1
             ELSE phase' = "raised" /\ UNCHANGED count
      BY <2>2, <2>3, <2>5, <3>1 DEF Accept
    <3>3. /\ DOMAIN rows = DOMAIN batch \cup {w} /\ rows[w] = d
          /\ \A u \in DOMAIN batch : rows[u] = batch[u]
      BY <2>5, <3>1
    <3>4. /\ phase' \in {"collect", "full", "raised"}
          /\ count' = IF phase' = "full" THEN count + 1 ELSE count
          /\ phase' = "collect" => DOMAIN rows # Workers
          /\ phase' = "full" => DOMAIN rows = Workers
      BY <1>0, <3>2
    <3>5. BatchTypeOK'
      BY <1>0, <1>3, <1>7, <1>8, <2>2, <3>2, <3>3, <3>4 DEF BatchTypeOK
    <3>6. Passing'
      BY <1>10, <3>4 DEF Passing
    <3>7. PICK got2 : got2 = [got EXCEPT ![w] = @ + 1]
      OBVIOUS
    <3>8. PoolRuns(got2, list)'
      BY <1>0, <1>4, <1>5, <1>12, <3>7, ReturnKeeps DEF PoolRuns
    <3>9. ASSUME Running' PROVE Rows' /\ PoolRuns(Got, Order[pass])'
      <4>1. phase' = "collect" \/ phase' = "full"
        BY <3>9 DEF Running
      <4>2. ASSUME NEW u \in Workers
            PROVE  got2[u] = IF phase' = "collect" /\ u \in DOMAIN rows THEN count' + 1 ELSE count'
        <5>1. got2[u] = IF u = w THEN got[u] + 1 ELSE got[u]
          BY <1>3, <1>7, <3>7
        <5>2. got[u] = IF u \in DOMAIN batch THEN count + 1 ELSE count
          BY <1>3
        <5> QED
          BY <1>3, <2>5, <3>3, <3>4, <4>1, <5>1, <5>2
      <4>3. got2 = Got'
        <5>1. got2 \in [Workers -> Nat]
          BY <1>3, <1>7, <3>7
        <5> QED
          BY <3>2, <4>2, <5>1 DEF Got
      <4>4. ASSUME NEW u \in DOMAIN rows PROVE rows[u] = Nth(u, list, got2[u])
        <5>1. CASE u = w
          BY <1>3, <1>7, <2>2, <3>3, <3>7, <5>1
        <5>2. CASE u # w
          <6>1. u \in DOMAIN batch /\ u \in Workers
            BY <1>0, <3>3, <5>2 DEF BatchTypeOK
          <6>2. batch[u] = Nth(u, list, got[u])
            BY <1>0, <1>1, <1>2, <6>1 DEF Rows
          <6>3. got2[u] = got[u]
            BY <1>3, <3>7, <5>2, <6>1
          <6> QED
            BY <3>3, <6>1, <6>2, <6>3
        <5> QED
          BY <5>1, <5>2
      <4>5. Order[pass]' = list
        BY <1>0, <1>1
      <4>6. phase' = "full" => count' > 0
        BY <1>3, <3>4
      <4>7. Rows'
        BY <3>2, <3>4, <4>3, <4>4, <4>5, <4>6 DEF Rows
      <4> QED
        BY <3>8, <4>3, <4>5, <4>7 DEF PoolRuns
    <3> QED
      BY <1>9, <3>4, <3>5, <3>6, <3>9 DEF BatchIInv
  <2> QED
    BY <2>4, <2>5
<1> QED
  BY <1>11, <1>12

LEMMA ReceiveKeeps ==
    ASSUME BatchIInv, Receive
    PROVE  BatchIInv'
<1>0. /\ Store \/ MarkStopped
      /\ phase = "collect" /\ phase' = phase /\ batch' = batch
      /\ pass' = pass /\ count' = count /\ yielded' = yielded
      /\ PoolTypeOK /\ BatchTypeOK /\ Running /\ Rows
  BY DEF BatchIInv, BatchTypeOK, Receive, Running
<1>1. PICK list : list = Order[pass]
  OBVIOUS
<1>2. PICK got : got = Got
  OBVIOUS
<1>3. IsList(list) /\ PoolRuns(got, list)
  BY <1>0, <1>1, <1>2, GotIs
<1>4. PICK rank, made, lap : PoolInv(rank, made, lap, got, list)
  BY <1>3 DEF PoolRuns
<1>5. PoolTypeOK' /\ PoolRuns(got, list)'
  <2>1. CASE Store
    BY <1>0, <1>3, <1>4, <2>1, StoreTypes, StoreKeeps DEF PoolRuns
  <2>2. CASE MarkStopped
    BY <1>0, <1>4, <2>2, MarkStoppedTypes, MarkStoppedKeeps DEF PoolRuns
  <2> QED
    BY <1>0, <2>1, <2>2
<1>6. ASSUME NEW u \in Workers PROVE Turn(u)' /\ Resuming(u)'
  <2>1. Turn(u) /\ Resuming(u)
    BY DEF BatchIInv
  <2>2. /\ UNCHANGED workerVars
        /\ taskQ'[u] = taskQ[u] \/ \E i \in Nat : taskQ'[u] = Append(taskQ[u], i)
        /\ dataQ' = dataQ \/ (dataQ # << >> /\ dataQ' = Tail(dataQ))
    BY <1>0, PassSteps
  <2>3. phase \notin {"idle", "resume"} /\ phase' \notin {"idle", "resume"}
    BY <1>0
  <2> QED
    BY <1>0, <2>1, <2>2, <2>3, LoaderKeepsTurns
<1>7. Got' = got /\ Order[pass]' = list
  BY <1>0, <1>1, <1>2 DEF Got
<1>8. Rows'
  BY <1>0, <1>1, <1>2, <1>7 DEF Rows
<1>9. BatchTypeOK'
  BY <1>0, <1>5 DEF BatchTypeOK
<1>10. Passing'
  BY <1>0 DEF BatchIInv, Passing
<1>11. PoolRuns(Got, Order[pass])'
  BY <1>5, <1>7 DEF PoolRuns
<1> QED
  BY <1>6, <1>8, <1>9, <1>10, <1>11 DEF BatchIInv

\* The steps that leave the pool alone.
LEMMA PoolRests ==
    ASSUME BatchIInv, UNCHANGED poolVars
    PROVE  /\ PoolTypeOK'
           /\ \A w \in Workers : Lap' = Lap /\ phase # "idle" /\ phase # "resume"
                                    /\ phase' # "resume" => Turn(w)' /\ Resuming(w)'
           /\ \A got, list : PoolRuns(got, list) => PoolRuns(got, list)'
<1>1. /\ shuffles' = shuffles /\ cursor' = cursor /\ stopped' = stopped /\ taskQ' = taskQ
      /\ dataQ' = dataQ /\ tasks' = tasks /\ sendIdx' = sendIdx /\ rcvdIdx' = rcvdIdx
      /\ active' = active /\ cycle' = cycle
  BY DEF poolVars, workerVars, loaderVars
<1>2. PoolTypeOK'
  BY <1>1 DEF BatchIInv, BatchTypeOK, PoolTypeOK
<1>3. ASSUME NEW w \in Workers, Lap' = Lap, phase # "idle", phase # "resume", phase' # "resume"
      PROVE  Turn(w)' /\ Resuming(w)'
  <2>1. Turn(w) /\ NoResume(w)
    BY <1>3 DEF BatchIInv, Resuming
  <2>2. Turn(w)'
    BY <1>1, <1>3, <2>1 DEF Turn
  <2>3. NoResume(w)'
    BY <1>1, <2>1 DEF NoResume
  <2> QED
    BY <1>3, <2>2, <2>3 DEF Resuming
<1>4. ASSUME NEW got, NEW list, PoolRuns(got, list) PROVE PoolRuns(got, list)'
  <2>1. PICK rank, made, lap : PoolInv(rank, made, lap, got, list)
    BY <1>4 DEF PoolRuns
  <2>2. /\ made \in [Workers -> Nat] /\ got \in [Workers -> Nat]
        /\ Ranks(tasks, rank, got) /\ Rounds(tasks, active, rank, lap, got)
        /\ Arrivals(tasks, active, dataQ, rank, made, list)
        /\ Results(tasks, dataQ, rank, made, got, list)
        /\ Queued(tasks, active, rank, made, lap) /\ Generators(tasks, dataQ, made, list)
        /\ active # {} => LiveTasks # {}
    BY <2>1 DEF PoolInv, PoolWith
  <2>3. Ranks(tasks, rank, got)' /\ Rounds(tasks, active, rank, lap, got)'
    <3>1. Ranks(tasks, rank, got)'
      BY <1>1, <2>2 DEF Ranks
    <3>2. Rounds(tasks, active, rank, lap, got)'
      BY <1>1, <2>2 DEF Rounds, Latest
    <3> QED
      BY <3>1, <3>2
  <2>4. Arrivals(tasks, active, dataQ, rank, made, list)'
    BY <1>1, <2>2 DEF Arrivals
  <2>5. Results(tasks, dataQ, rank, made, got, list)'
    BY <1>1, <2>2 DEF Results, Answered, OnTheWay
  <2>6. Queued(tasks, active, rank, made, lap)'
    BY <1>1, <2>2 DEF Queued, Latest
  <2>7. Generators(tasks, dataQ, made, list)'
    BY <1>1, <2>2 DEF Generators, Failed, OnTheWay
  <2>8. LiveTasks' = LiveTasks /\ active' = active
    BY <1>1 DEF LiveTasks, Live
  <2>9. PoolInv(rank, made, lap, got, list)'
    BY <2>2, <2>3, <2>4, <2>5, <2>6, <2>7, <2>8 DEF PoolInv, PoolWith
  <2> QED
    BY <2>9 DEF PoolRuns
<1> QED
  BY <1>2, <1>3, <1>4

LEMMA LoopEndsKeeps ==
    ASSUME BatchIInv, LoopEnds
    PROVE  BatchIInv'
<1>0. /\ phase = "collect" /\ Exhausted /\ phase' = "over" /\ UNCHANGED poolVars
      /\ batch' = batch /\ pass' = pass /\ count' = count /\ yielded' = yielded
      /\ PoolTypeOK /\ BatchTypeOK /\ Running /\ Rows
  BY DEF BatchIInv, BatchTypeOK, LoopEnds, Running
<1>1. PICK list : list = Order[pass]
  OBVIOUS
<1>2. PICK got : got = Got
  OBVIOUS
<1>3. /\ pass \in 1 .. Passes /\ count \in Nat /\ IsList(list) /\ PoolRuns(got, list)
      /\ \A w \in Workers : count <= got[w] /\ got[w] <= Share(w, list)
      /\ \A w \in Workers : got[w] = IF w \in DOMAIN batch THEN count + 1 ELSE count
      /\ got \in [Workers -> Nat]
  BY <1>0, <1>1, <1>2, GotIs
<1>4. PICK rank, made, lap : PoolInv(rank, made, lap, got, list)
  BY <1>3 DEF PoolRuns
<1>5. PICK u \in Workers : u \notin DOMAIN batch
  BY <1>0 DEF BatchTypeOK, Rows
<1>6. \A v \in Workers : got[v] = Share(v, list)
  BY <1>0, <1>4, AllStarved
<1>7. count = FullBatches(list)
  BY <1>3, <1>5, <1>6, BatchesAre
<1>8. Lap' = Lap
  BY <1>0 DEF Lap
<1>9. BatchTypeOK'
  BY <1>0, PoolRests DEF BatchTypeOK
<1>10. \A w \in Workers : Turn(w)' /\ Resuming(w)'
  BY <1>0, <1>8, PoolRests
<1>11. pass <= Passes
  BY <1>3
<1>12. Passing'
  BY <1>0, <1>1, <1>7, <1>11 DEF Passing
<1> QED
  BY <1>0, <1>9, <1>10, <1>12 DEF BatchIInv, Running

LEMMA TakeBatchKeeps ==
    ASSUME BatchIInv, TakeBatch
    PROVE  BatchIInv'
<1>0. /\ phase = "full" /\ phase' = "collect" /\ UNCHANGED poolVars
      /\ batch' = << >> /\ pass' = pass /\ count' = count /\ yielded' = [pass |-> pass, idx |-> count]
      /\ BatchTypeOK /\ Running
  BY DEF BatchIInv, TakeBatch, Running
<1>1. Got' = Got /\ Order[pass]' = Order[pass]
  BY <1>0 DEF Got
<1>2. PICK list : list = Order[pass]
  OBVIOUS
<1>3. PICK got : got = Got
  OBVIOUS
<1>4. pass \in 1 .. Passes /\ PoolRuns(got, list)
  BY <1>0, <1>2, <1>3, GotIs
<1>5. PoolRuns(got, list)'
  BY <1>0, <1>4, PoolRests
<1>6. PoolRuns(Got, Order[pass])'
  BY <1>1, <1>2, <1>3, <1>5 DEF PoolRuns
<1>7. 0 \in Workers
  BY WorkerIs, DatasetAssumption
<1>8. Rows'
  BY <1>0, <1>7 DEF Rows
<1>9. BatchTypeOK'
  BY <1>0, PoolRests DEF BatchTypeOK
<1>10. Lap' = Lap
  BY <1>0 DEF Lap
<1>11. \A w \in Workers : Turn(w)' /\ Resuming(w)'
  BY <1>0, <1>10, PoolRests
<1>12. Passing'
  BY <1>0, <1>4 DEF Passing
<1> QED
  BY <1>6, <1>8, <1>9, <1>11, <1>12 DEF BatchIInv

LEMMA EndPassKeeps ==
    ASSUME BatchIInv, EndPass
    PROVE  BatchIInv'
<1>0. /\ phase = "over" /\ phase' = "idle" /\ UNCHANGED poolVars /\ BatchTypeOK
      /\ batch' = batch /\ pass' = pass + 1 /\ count' = 0 /\ yielded' = [pass |-> pass, idx |-> count + 1]
  BY DEF BatchIInv, EndPass
<1>1. pass \in 1 .. Passes + 1 /\ pass <= Passes /\ Passes \in Nat
  BY <1>0, DatasetAssumption DEF BatchIInv, BatchTypeOK, Passing
<1>2. BatchTypeOK'
  BY <1>0, <1>1, PoolRests DEF BatchTypeOK
<1>3. Lap' = Lap
  BY <1>0, <1>1 DEF Lap
<1>4. \A w \in Workers : Turn(w)' /\ Resuming(w)'
  BY <1>0, <1>3, PoolRests
<1>5. Passing'
  BY <1>0, <1>1 DEF Passing
<1> QED
  BY <1>0, <1>2, <1>4, <1>5 DEF BatchIInv, Running

LEMMA WorkerKeeps ==
    ASSUME BatchIInv, NEW w \in Workers, WorkerRuns(w)
    PROVE  BatchIInv'
<1>0. /\ phase' = phase /\ batch' = batch /\ pass' = pass /\ count' = count /\ yielded' = yielded
      /\ PoolTypeOK /\ BatchTypeOK /\ Passing
      /\ \A u \in Workers : Turn(u) /\ Resuming(u)
      /\ taskQ[w] \in Seq(Nat \cup {ResumeIteration}) /\ dataQ \in Seq(Message)
      /\ pass \in Nat /\ pass <= Passes + 1 /\ Passes \in Nat
  BY DatasetAssumption DEF BatchIInv, BatchTypeOK, PoolTypeOK, WorkerRuns
<1>1. Lap' = Lap /\ Got' = Got /\ Order[pass]' = Order[pass] /\ (Rows => Rows')
  BY <1>0 DEF Lap, Got, Rows
<1>2. /\ taskQ[w] # << >> /\ taskQ' = [taskQ EXCEPT ![w] = Tail(@)]
      /\ taskQ'[w] = Tail(taskQ[w]) /\ \A u \in Workers : u # w => taskQ'[u] = taskQ[u]
  <2>1. taskQ[w] # << >> /\ taskQ' = [taskQ EXCEPT ![w] = Tail(@)]
    BY DEF WorkerRuns, WorkerStep, Fetch, DropTask, RestartGenerator
  <2> QED
    BY <1>0, <2>1 DEF PoolTypeOK
<1>3. /\ Len(taskQ[w]) \in Nat \ {0} /\ Len(taskQ'[w]) = Len(taskQ[w]) - 1
      /\ Head(taskQ[w]) = taskQ[w][1] /\ Head(taskQ[w]) \in Nat \cup {ResumeIteration}
      /\ \A j \in 1 .. Len(taskQ[w]) - 1 : taskQ'[w][j] = taskQ[w][j + 1]
      /\ DOMAIN taskQ[w] = 1 .. Len(taskQ[w]) /\ DOMAIN taskQ'[w] = 1 .. Len(taskQ[w]) - 1
      /\ Len(taskQ[w]) = 1 => taskQ'[w] = << >>
      /\ Len(taskQ[w]) > 1 => taskQ'[w] # << >>
  <2>1. PICK q : q = taskQ[w]
    OBVIOUS
  <2>2. PICK r : r = taskQ'[w]
    OBVIOUS
  <2>3. q \in Seq(Nat \cup {ResumeIteration}) /\ q # << >> /\ r = Tail(q)
    BY <1>0, <1>2, <2>1, <2>2
  <2>4. /\ Len(q) \in Nat \ {0} /\ Len(r) = Len(q) - 1 /\ r \in Seq(Nat \cup {ResumeIteration})
        /\ Head(q) = q[1] /\ DOMAIN q = 1 .. Len(q) /\ DOMAIN r = 1 .. Len(q) - 1
    BY <2>3
  <2>5. Head(q) \in Nat \cup {ResumeIteration}
    BY <2>3, <2>4
  <2>6. \A j \in 1 .. Len(q) - 1 : r[j] = q[j + 1]
    BY <2>3, <2>4
  <2>7. Len(q) = 1 => r = << >>
    BY <2>4
  <2>8. Len(q) > 1 => r # << >>
    BY <2>4
  <2> QED
    BY <2>1, <2>2, <2>4, <2>5, <2>6, <2>7, <2>8
<1>4. CASE Head(taskQ[w]) # ResumeIteration
  <2>1. Fetch(w) \/ DropTask(w)
    BY <1>4 DEF WorkerRuns, WorkerStep, RestartGenerator
  <2>2. ASSUME NEW u \in Workers
        PROVE  \A k \in DOMAIN dataQ' : dataQ'[k].worker = u =>
                  \/ dataQ'[k].idx # ResumeIteration
                  \/ \E l \in DOMAIN dataQ : dataQ[l] = dataQ'[k]
    <3>1. CASE Fetch(w)
      <4>1. PICK msg : dataQ' = Append(dataQ, msg) /\ msg.idx = Head(taskQ[w]) /\ msg \in Message
        <5>1. PICK step \in GeneratorStep(w) :
                 dataQ' = Append(dataQ, [idx |-> Head(taskQ[w]), data |-> step.result, worker |-> w])
          BY <3>1 DEF Fetch
        <5>2. PoolTypeOK'
          <6>1. ShufflesAfter(w) = Lap /\ Lap > 0
            BY <1>0, <1>2, <1>4, FetchLap
          <6>2. ShufflesAfter(w) \in 0 .. Passes
            BY <1>0, <6>1 DEF Lap, Passing
          <6> QED
            BY <1>0, <3>1, <6>2, ListOfPass, FetchTypes
        <5>3. PICK m : m = [idx |-> Head(taskQ[w]), data |-> step.result, worker |-> w]
          OBVIOUS
        <5>4. dataQ' = Append(dataQ, m) /\ m.idx = Head(taskQ[w])
          BY <5>1, <5>3
        <5>5. dataQ' \in Seq(Message)
          BY <5>2 DEF PoolTypeOK
        <5>6. dataQ'[Len(dataQ) + 1] = m /\ Len(dataQ) + 1 \in DOMAIN dataQ'
          BY <1>0, <5>4
        <5>7. m \in Message
          BY <5>5, <5>6
        <5> QED
          BY <5>4, <5>7
      <4>2. ASSUME NEW k \in DOMAIN dataQ'
            PROVE  (k \in DOMAIN dataQ /\ dataQ'[k] = dataQ[k]) \/ dataQ'[k] = msg
        BY <1>0, <4>1
      <4> QED
        BY <1>4, <4>1, <4>2
    <3>2. CASE DropTask(w)
      BY <3>2 DEF DropTask
    <3> QED
      BY <2>1, <3>1, <3>2
  <2>3. ASSUME NEW u \in Workers, \A k \in DOMAIN dataQ : dataQ[k].worker = u => dataQ[k].idx # ResumeIteration
        PROVE  \A k \in DOMAIN dataQ' : dataQ'[k].worker = u => dataQ'[k].idx # ResumeIteration
    BY <2>2, <2>3
  <2>4. ASSUME NEW u \in Workers, u # w
        PROVE  Turn(u)' /\ Resuming(u)'
    <3>1. taskQ'[u] = taskQ[u] /\ cursor'[u] = cursor[u] /\ stopped'[u] = stopped[u] /\ shuffles'[u] = shuffles[u]
      <4>1. CASE Fetch(w)
        BY <1>0, <1>2, <2>4, <4>1 DEF Fetch, PoolTypeOK
      <4>2. CASE DropTask(w)
        BY <1>2, <2>4, <4>2 DEF DropTask, workerVars
      <4> QED
        BY <2>1, <4>1, <4>2
    <3>2. Turn(u) /\ Resuming(u)
      BY <1>0
    <3>3. Turn(u)'
      BY <1>0, <1>1, <3>1, <3>2 DEF Turn
    <3>4. Resuming(u)'
      BY <1>0, <2>3, <3>1, <3>2 DEF Resuming, NoResume, ResumeIsLast
    <3> QED
      BY <3>3, <3>4
  <2>5. Resuming(w)'
    <3>1. Resuming(w)
      BY <1>0
    <3>2. CASE phase = "resume"
      <4>1. ResumeIsLast(w)
        BY <1>2, <3>1, <3>2 DEF Resuming
      <4>2. Len(taskQ[w]) > 1 /\ taskQ'[w] # << >>
        BY <1>3, <1>4, <4>1 DEF ResumeIsLast
      <4>3. taskQ'[w][Len(taskQ'[w])] = ResumeIteration
        BY <1>3, <4>1, <4>2 DEF ResumeIsLast
      <4>4. ASSUME NEW j \in 1 .. Len(taskQ'[w]) - 1 PROVE taskQ'[w][j] # ResumeIteration
        <5>1. j \in 1 .. Len(taskQ[w]) - 1 /\ j + 1 \in 1 .. Len(taskQ[w]) - 1
          BY <1>3
        <5>2. taskQ'[w][j] = taskQ[w][j + 1]
          BY <1>3, <5>1
        <5> QED
          BY <4>1, <5>1, <5>2 DEF ResumeIsLast
      <4>5. ResumeIsLast(w)'
        BY <2>3, <4>1, <4>2, <4>3, <4>4 DEF ResumeIsLast
      <4> QED
        BY <1>0, <3>2, <4>5 DEF Resuming
    <3>3. CASE phase # "resume"
      <4>1. NoResume(w)
        BY <3>1, <3>3 DEF Resuming
      <4>2. ASSUME NEW j \in DOMAIN taskQ'[w] PROVE taskQ'[w][j] # ResumeIteration
        <5>1. j \in 1 .. Len(taskQ[w]) - 1 /\ j + 1 \in DOMAIN taskQ[w]
          BY <1>3
        <5>2. taskQ'[w][j] = taskQ[w][j + 1]
          BY <1>3, <5>1
        <5> QED
          BY <4>1, <5>1, <5>2 DEF NoResume
      <4>3. NoResume(w)'
        BY <2>3, <4>1, <4>2 DEF NoResume
      <4> QED
        BY <1>0, <3>3, <4>3 DEF Resuming
    <3> QED
      BY <3>2, <3>3
  <2>6. PoolTypeOK' /\ Turn(w)' /\ (Running => PoolRuns(Got, Order[pass])')
    <3>1. PICK list : list = Order[pass]
      OBVIOUS
    <3>2. PICK got : got = Got
      OBVIOUS
    <3>3. CASE Fetch(w)
      <4>1. ShufflesAfter(w) = Lap /\ Lap > 0
        BY <1>0, <1>2, <1>4, FetchLap
      <4>2. ShufflesAfter(w) \in 0 .. Passes
        BY <1>0, <4>1 DEF Lap, Passing
      <4>3. IsList(Order[ShufflesAfter(w)])
        BY <4>2, ListOfPass
      <4>4. PoolTypeOK'
        BY <1>0, <3>3, <4>2, <4>3, FetchTypes
      <4>5. cursor'[w] # Fresh /\ shuffles'[w] = Lap
        <5>1. PICK step \in GeneratorStep(w) :
                 /\ shuffles' = [shuffles EXCEPT ![w] = step.shuffles]
                 /\ cursor' = [cursor EXCEPT ![w] = step.cursor]
          BY <3>3 DEF Fetch
        <5>2. /\ shuffles'[w] = step.shuffles /\ cursor'[w] = step.cursor
              /\ cursor[w] \in {Fresh, Finished} \cup (Nat \X Nat)
          BY <1>0, <5>1 DEF PoolTypeOK
        <5>3. step.shuffles = ShufflesAfter(w) /\ step.cursor \in {Finished} \cup (Nat \X Nat)
          <6>1. PICK l : l = Order[ShufflesAfter(w)]
            OBVIOUS
          <6>2. PICK n : n = IF cursor[w] \in {Fresh, Finished} THEN 0 ELSE Rank(w, l, cursor[w])
            OBVIOUS
          <6>3. n \in Nat
            <7>1. cursor[w] \notin {Fresh, Finished} => cursor[w] \in Nat \X Nat
              BY <5>2
            <7>2. cursor[w] \in Nat \X Nat => Rank(w, l, cursor[w]) \in Nat
              BY <4>3, <6>1, PositionsLeft
            <7> QED
              BY <6>2, <7>1, <7>2
          <6>4. /\ cursor[w] = Fresh => n = 0
                /\ cursor[w] \notin {Fresh, Finished} => Rank(w, l, cursor[w]) = n
            BY <6>2
          <6> QED
            BY <4>3, <5>2, <6>1, <6>3, <6>4, GeneratorSteps
        <5> QED
          BY <4>1, <5>2, <5>3, ResultsDiffer
      <4>6. Turn(w)'
        BY <1>1, <4>1, <4>5 DEF Turn
      <4>7. ASSUME Running PROVE PoolRuns(Got, Order[pass])'
        <5>1. Lap = pass /\ PoolRuns(got, list)
          BY <1>0, <3>1, <3>2, <4>7, GotIs DEF Running, Lap
        <5>2. PICK rank, made, lap : PoolInv(rank, made, lap, got, list)
          BY <5>1 DEF PoolRuns
        <5>3. list = Order[ShufflesAfter(w)] /\ IsList(list)
          BY <3>1, <4>1, <4>3, <5>1
        <5>4. \E made2 : PoolInv(rank, made2, lap, got, list)'
          BY <1>0, <3>3, <5>2, <5>3, FetchKeeps
        <5>5. PoolRuns(got, list)'
          BY <5>4 DEF PoolRuns
        <5> QED
          BY <1>1, <3>1, <3>2, <5>5 DEF PoolRuns
      <4> QED
        BY <4>4, <4>6, <4>7
    <3>4. CASE DropTask(w)
      <4>1. PoolTypeOK'
        BY <1>0, <3>4, OtherTypes
      <4>2. Turn(w)'
        <5>1. stopped[w] /\ cursor' = cursor /\ stopped' = stopped /\ shuffles' = shuffles
          BY <3>4 DEF DropTask, workerVars
        <5>2. Turn(w)
          BY <1>0
        <5> QED
          BY <1>1, <5>1, <5>2 DEF Turn
      <4>3. ASSUME Running PROVE PoolRuns(Got, Order[pass])'
        <5>1. PoolRuns(got, list)
          BY <3>1, <3>2, <4>3, GotIs
        <5>2. PICK rank, made, lap : PoolInv(rank, made, lap, got, list)
          BY <5>1 DEF PoolRuns
        <5>3. PoolInv(rank, made, lap, got, list)'
          BY <1>0, <3>4, <5>2, DropTaskKeeps
        <5>4. PoolRuns(got, list)'
          BY <5>3 DEF PoolRuns
        <5> QED
          BY <1>1, <3>1, <3>2, <5>4 DEF PoolRuns
      <4> QED
        BY <4>1, <4>2, <4>3
    <3> QED
      BY <2>1, <3>3, <3>4
  <2>7. BatchTypeOK'
    BY <1>0, <2>6 DEF BatchTypeOK
  <2>8. Passing'
    <3>1. phase = "idle" /\ pass = 1 => FALSE
      <4> SUFFICES ASSUME phase = "idle", pass = 1 PROVE FALSE
        OBVIOUS
      <4>1. Lap = 0
        BY DEF Lap
      <4> QED
        BY <1>0, <1>2, <4>1 DEF Turn
    <3> QED
      BY <1>0, <3>1 DEF Passing
  <2>9. Running' => Rows' /\ PoolRuns(Got, Order[pass])'
    BY <1>0, <1>1, <2>6 DEF BatchIInv, Running
  <2>10. \A u \in Workers : Turn(u)' /\ Resuming(u)'
    BY <2>4, <2>5, <2>6
  <2> QED
    BY <2>7, <2>8, <2>9, <2>10 DEF BatchIInv
<1>5. CASE Head(taskQ[w]) = ResumeIteration
  <2>1. /\ RestartGenerator(w) /\ cursor' = [cursor EXCEPT ![w] = Fresh]
        /\ stopped' = [stopped EXCEPT ![w] = FALSE] /\ shuffles' = shuffles
        /\ dataQ' = Append(dataQ, [idx |-> ResumeIteration, data |-> Pending, worker |-> w])
    BY <1>5 DEF WorkerRuns, WorkerStep, Fetch, DropTask, RestartGenerator
  <2>2. cursor'[w] = Fresh /\ ~stopped'[w]
    BY <1>0, <2>1 DEF PoolTypeOK
  <2>3. ASSUME NEW u \in Workers, u # w PROVE cursor'[u] = cursor[u] /\ stopped'[u] = stopped[u]
    BY <1>0, <2>1, <2>3 DEF PoolTypeOK
  <2>4. phase = "resume" /\ ResumeIsLast(w) /\ Len(taskQ[w]) = 1
    <3>1. 1 \in DOMAIN taskQ[w] /\ taskQ[w][1] = ResumeIteration
      BY <1>3, <1>5
    <3>2. phase = "resume"
      BY <1>0, <3>1 DEF Resuming, NoResume
    <3>3. ResumeIsLast(w)
      BY <1>0, <1>2, <3>2 DEF Resuming
    <3>4. ~(1 <= Len(taskQ[w]) - 1)
      BY <1>3, <3>1, <3>3 DEF ResumeIsLast
    <3>5. PICK n : n = Len(taskQ[w])
      OBVIOUS
    <3>6. n = 1
      <4>1. n \in Nat \ {0}
        BY <1>3, <3>5
      <4>2. ~(1 <= n - 1)
        BY <3>4, <3>5
      <4> QED
        BY <4>1, <4>2
    <3> QED
      BY <3>2, <3>3, <3>5, <3>6
  <2>5. shuffles[w] = Lap
    BY <1>0, <1>2, <1>5 DEF Turn
  <2>6. Turn(w)' /\ Resuming(w)'
    BY <1>0, <1>1, <1>3, <2>1, <2>2, <2>4, <2>5 DEF Turn, Resuming
  <2>7. ASSUME NEW u \in Workers, u # w PROVE Turn(u)' /\ Resuming(u)'
    <3>1. Turn(u) /\ Resuming(u) /\ taskQ'[u] = taskQ[u] /\ cursor'[u] = cursor[u] /\ stopped'[u] = stopped[u]
      BY <1>0, <1>2, <2>3, <2>7
    <3>2. Turn(u)'
      BY <1>0, <1>1, <2>1, <3>1 DEF Turn
    <3>3. ASSUME NEW k \in DOMAIN dataQ', dataQ'[k].worker = u
          PROVE  k \in DOMAIN dataQ /\ dataQ'[k] = dataQ[k]
      <4>1. PICK m : m = [idx |-> ResumeIteration, data |-> Pending, worker |-> w]
        OBVIOUS
      <4>2. m.worker = w /\ dataQ' = Append(dataQ, m)
        BY <2>1, <4>1
      <4>3. k \in DOMAIN dataQ \/ dataQ'[k] = m
        BY <1>0, <4>2
      <4> QED
        BY <1>0, <2>7, <3>3, <4>2, <4>3
    <3>4. Resuming(u)'
      BY <1>0, <2>4, <3>1, <3>3 DEF Resuming, ResumeIsLast
    <3> QED
      BY <3>2, <3>4
  <2>8. BatchTypeOK'
    BY <1>0, <2>1, OtherTypes DEF BatchTypeOK
  <2>9. Passing'
    BY <1>0, <2>4 DEF Passing
  <2>10. ~Running'
    BY <1>0, <2>4 DEF Running
  <2> QED
    BY <2>6, <2>7, <2>8, <2>9, <2>10 DEF BatchIInv
<1> QED
  BY <1>4, <1>5

----------------------------------------------------------------------------
(* The invariant. *)

LEMMA BatchInitIsFine ==
    ASSUME BatchInit
    PROVE  BatchIInv
<1>1. /\ shuffles = [w \in Workers |-> 0] /\ cursor = [w \in Workers |-> Fresh]
      /\ stopped = [w \in Workers |-> FALSE] /\ taskQ = [w \in Workers |-> << >>]
      /\ dataQ = << >> /\ tasks = << >> /\ sendIdx = 0 /\ rcvdIdx = 0 /\ active = {} /\ cycle = 0
      /\ phase = "idle" /\ batch = << >> /\ pass = 1 /\ count = 0
      /\ Passes \in Nat \ {0} /\ NumWorkers \in Nat \ {0}
  BY DatasetAssumption DEF BatchInit, PoolInit
<1>2. DOMAIN batch = {} /\ DOMAIN tasks = {} /\ 0 \in Workers /\ << >> \in Seq(Message)
  BY <1>1 DEF Workers
<1>3. PoolTypeOK
  <2>1. [w \in Workers |-> << >>] \in [Workers -> Seq(Nat \cup {ResumeIteration})]
    OBVIOUS
  <2>2. shuffles \in [Workers -> 0 .. Passes]
    BY <1>1
  <2> QED
    BY <1>1, <1>2, <2>1, <2>2 DEF PoolTypeOK
<1>4. BatchTypeOK
  BY <1>1, <1>2, <1>3 DEF BatchTypeOK
<1>5. Passing
  BY <1>1 DEF Passing
<1>6. ASSUME NEW w \in Workers PROVE Turn(w) /\ Resuming(w)
  <2>1. Lap = 0 /\ taskQ[w] = << >>
    BY <1>1 DEF Lap
  <2>2. Turn(w)
    BY <1>1, <2>1 DEF Turn
  <2>3. Resuming(w)
    BY <1>1, <2>1 DEF Resuming, NoResume
  <2> QED
    BY <2>2, <2>3
<1> QED
  BY <1>1, <1>4, <1>5, <1>6 DEF BatchIInv, Running

LEMMA BatchNextKeeps ==
    ASSUME BatchIInv, [BatchNext]_batchVars
    PROVE  BatchIInv'
<1>1. CASE BeginPass
  BY <1>1, BeginPassKeeps
<1>2. CASE Restart
  BY <1>2, RestartKeeps
<1>3. CASE Collect
  BY <1>3, CollectKeeps
<1>4. CASE Receive
  BY <1>4, ReceiveKeeps
<1>5. CASE LoopEnds
  BY <1>5, LoopEndsKeeps
<1>6. CASE TakeBatch
  BY <1>6, TakeBatchKeeps
<1>7. CASE EndPass
  BY <1>7, EndPassKeeps
<1>8. CASE \E w \in Workers : WorkerRuns(w)
  BY <1>8, WorkerKeeps
<1>9. CASE UNCHANGED batchVars
  <2>1. /\ UNCHANGED poolVars /\ phase' = phase /\ batch' = batch /\ pass' = pass
        /\ count' = count /\ yielded' = yielded
    BY <1>9 DEF batchVars
  <2>2. PoolTypeOK' /\ \A got, list : PoolRuns(got, list) => PoolRuns(got, list)'
    BY <2>1, PoolRests
  <2>3. cursor' = cursor /\ stopped' = stopped /\ shuffles' = shuffles /\ taskQ' = taskQ /\ dataQ' = dataQ
    BY <2>1 DEF poolVars, workerVars
  <2>4. BatchTypeOK'
    BY <2>1, <2>2 DEF BatchIInv, BatchTypeOK
  <2>5. Passing'
    BY <2>1, <2>3 DEF BatchIInv, Passing
  <2>6. ASSUME NEW w \in Workers PROVE Turn(w)' /\ Resuming(w)'
    <3>1. Turn(w) /\ Resuming(w)
      BY DEF BatchIInv
    <3>2. Turn(w)'
      BY <2>1, <2>3, <3>1 DEF Turn, Lap
    <3>3. Resuming(w)'
      BY <2>1, <2>3, <3>1 DEF Resuming, NoResume, ResumeIsLast
    <3> QED
      BY <3>2, <3>3
  <2>7. Running' => Rows' /\ PoolRuns(Got, Order[pass])'
    <3> SUFFICES ASSUME Running' PROVE Rows' /\ PoolRuns(Got, Order[pass])'
      OBVIOUS
    <3>1. Running /\ Rows /\ PoolRuns(Got, Order[pass])
      BY <2>1 DEF BatchIInv, Running
    <3>2. PICK got : got = Got
      OBVIOUS
    <3>3. PICK list : list = Order[pass]
      OBVIOUS
    <3>4. PoolRuns(got, list)'
      BY <2>2, <3>1, <3>2, <3>3
    <3>5. Got' = got /\ Order[pass]' = list
      BY <2>1, <3>2, <3>3 DEF Got
    <3>6. Rows'
      BY <2>1, <3>1, <3>2, <3>5 DEF Rows
    <3> QED
      BY <3>4, <3>5, <3>6 DEF PoolRuns
  <2> QED
    BY <2>4, <2>5, <2>6, <2>7 DEF BatchIInv
<1> QED
  BY <1>1, <1>2, <1>3, <1>4, <1>5, <1>6, <1>7, <1>8, <1>9 DEF BatchNext, Loader

\* The inductive invariant: where every worker is in its share of the list, what each
\* message and each task holds, and which workers can still be waited for.
THEOREM BatchInvariance == BatchSpec => []BatchIInv
<1>1. BatchInit => BatchIInv
  BY BatchInitIsFine
<1>2. BatchIInv /\ [BatchNext]_batchVars => BatchIInv'
  BY BatchNextKeeps
<1> QED
  BY <1>1, <1>2, PTL DEF BatchSpec

\* The variables of the pool and of BatchDataLoader keep their types: among them, no
\* task number is handed out twice or returned twice, and the shuffles stay in bounds.
THEOREM BatchTypeCorrect == BatchSpec => []BatchTypeOK
<1>1. BatchIInv => BatchTypeOK
  BY DEF BatchIInv
<1> QED
  BY <1>1, BatchInvariance, PTL

\* Row w of the n-th batch of a pass is the n-th sample of worker w, for every number
\* of workers and every prefetch factor, however far the workers run ahead.
THEOREM RowsInStep == BatchSpec => []BatchIsRowwise
<1>1. BatchIInv => BatchIsRowwise
  BY DEF BatchIInv, BatchIsRowwise, Running, Rows, Got
<1> QED
  BY <1>1, BatchInvariance, PTL

\* The rows of a batch come from different segments, and the workers have shuffled
\* equally often when a batch is full.
THEOREM RowsDiffer == BatchSpec => []RowsAreDistinctSegments
<1>1. ASSUME BatchIInv, phase = "full"
      PROVE  /\ \A w, u \in Workers : w # u => batch[w].seg # batch[u].seg
             /\ \A w, u \in Workers : shuffles[w] = shuffles[u]
  <2>1. Running /\ Rows /\ count > 0 /\ Lap = pass
    BY <1>1 DEF BatchIInv, Running, Rows, Lap
  <2>2. PICK got : got = Got
    OBVIOUS
  <2>3. PICK list : list = Order[pass]
    OBVIOUS
  <2>4. /\ pass \in 1 .. Passes /\ count \in Nat /\ IsList(list) /\ PoolRuns(got, list)
        /\ \A w \in Workers : count <= got[w] /\ got[w] <= Share(w, list)
        /\ \A w \in Workers : got[w] = count
    BY <1>1, <2>1, <2>2, <2>3, GotIs
  <2>5. ASSUME NEW w \in Workers
        PROVE  count \in 1 .. Cardinality(Positions(w, list)) /\ batch[w] = Nth(w, list, count)
    <3>1. batch[w] = Nth(w, list, count)
      BY <1>1, <2>1, <2>3 DEF Rows, Got
    <3>2. Share(w, list) \in Nat
      BY <2>4, PositionsFinite, FS_CardinalityType DEF Share
    <3> QED
      BY <2>1, <2>4, <3>1, <3>2 DEF Share
  <2>6. \A w, u \in Workers : w # u => batch[w].seg # batch[u].seg
    BY <2>4, <2>5, NthDistinct
  <2>7. ASSUME NEW w \in Workers PROVE shuffles[w] = pass
    <3>1. PICK rank, made, lap : PoolInv(rank, made, lap, got, list)
      BY <2>4 DEF PoolRuns
    <3>2. made[w] \in Nat /\ got[w] <= made[w] /\ (cursor[w] = Fresh => made[w] = 0)
      <4>1. /\ made \in [Workers -> Nat] /\ Results(tasks, dataQ, rank, made, got, list)
            /\ Generators(tasks, dataQ, made, list)
        BY <3>1 DEF PoolInv, PoolWith
      <4> QED
        BY <4>1 DEF Results, Generators
    <3>3. cursor[w] # Fresh
      BY <2>1, <2>4, <3>2
    <3> QED
      BY <1>1, <2>1, <3>3 DEF BatchIInv, Turn
  <2> QED
    BY <2>6, <2>7
<1>2. BatchIInv => RowsAreDistinctSegments
  BY <1>1 DEF RowsAreDistinctSegments
<1> QED
  BY <1>2, BatchInvariance, PTL

----------------------------------------------------------------------------
(* The stream of batches. *)

\* A pass that goes on has no more batches than the worker with the fewest samples.
LEMMA BatchesOfPass ==
    ASSUME BatchIInv, Running
    PROVE  /\ pass \in 1 .. Passes /\ count \in Nat /\ count <= FullBatches(Order[pass])
           /\ FullBatches(Order[pass]) \in Nat
<1>1. PICK got : got = Got
  OBVIOUS
<1>2. PICK list : list = Order[pass]
  OBVIOUS
<1>3. /\ pass \in 1 .. Passes /\ count \in Nat /\ IsList(list)
      /\ \A w \in Workers : count <= got[w] /\ got[w] <= Share(w, list)
      /\ got \in [Workers -> Nat]
  BY <1>1, <1>2, GotIs
<1>4. \A w \in Workers : count <= Cardinality(Positions(w, list))
  <2> SUFFICES ASSUME NEW w \in Workers PROVE count <= Cardinality(Positions(w, list))
    OBVIOUS
  <2>1. Share(w, list) \in Nat
    BY <1>3, PositionsFinite, FS_CardinalityType DEF Share
  <2> QED
    BY <1>3, <2>1 DEF Share
<1>5. FullBatches(list) \in {Cardinality(Positions(w, list)) : w \in Workers}
  <2> DEFINE S == {Cardinality(Positions(w, list)) : w \in Workers}
  <2>1. S \in SUBSET Nat
    BY <1>3, PositionsFinite, FS_CardinalityType
  <2>2. S # {}
    BY DatasetAssumption DEF Workers
  <2>3. Min(S) \in S
    <3> HIDE DEF S
    <3> QED
      BY <2>1, <2>2, MinIsLeast
  <2> QED
    BY <2>3 DEF FullBatches
<1>6. count <= FullBatches(list) /\ FullBatches(list) \in Nat
  BY <1>3, <1>4, <1>5, BatchesAreFull
<1> QED
  BY <1>2, <1>3, <1>6

\* What the abstract stream has seen.
Seen == IF phase = "full" THEN count - 1 ELSE count

\* A pass has the batches that its list allows.
LEMMA StreamHas ==
    ASSUME pass \in 1 .. Passes
    PROVE  Stream!Batches(pass) = FullBatches(Order[pass])
BY DEF Stream!Batches

\* Taking a batch is its delivery.
LEMMA TakeBatchDelivers ==
    ASSUME BatchIInv, TakeBatch
    PROVE  Stream!Deliver
<1>1. /\ phase = "full" /\ phase' = "collect" /\ pass' = pass /\ count' = count
      /\ yielded' = [pass |-> pass, idx |-> count] /\ Running /\ count > 0
  BY DEF TakeBatch, BatchIInv, Running, Rows
<1>2. /\ pass \in 1 .. Passes /\ count \in Nat /\ count <= FullBatches(Order[pass])
      /\ FullBatches(Order[pass]) \in Nat
  BY <1>1, BatchesOfPass
<1>3. PICK n : n = FullBatches(Order[pass])
  OBVIOUS
<1>4. count - 1 < n /\ (count - 1) + 1 = count
  BY <1>1, <1>2, <1>3
<1>5. Stream!Batches(pass) = n
  BY <1>2, <1>3, StreamHas
<1> QED
  BY <1>1, <1>4, <1>5 DEF Stream!Deliver

\* The pass ends when the stream has no batch left.
LEMMA EndPassEnds ==
    ASSUME BatchIInv, EndPass
    PROVE  Stream!EndPass
<1>1. /\ phase = "over" /\ phase' = "idle" /\ pass' = pass + 1 /\ count' = 0
      /\ yielded' = [pass |-> pass, idx |-> count + 1]
  BY DEF EndPass
<1>2. pass \in 1 .. Passes /\ count = FullBatches(Order[pass])
  BY <1>1 DEF BatchIInv, BatchTypeOK, Passing
<1>3. Stream!Batches(pass) = count
  BY <1>2, StreamHas
<1> QED
  BY <1>1, <1>3 DEF Stream!EndPass

\* Nothing else is seen of the pool: its other steps leave the stream as it is.
LEMMA OtherStepsStutter ==
    ASSUME BatchIInv,
           \/ BeginPass \/ Restart \/ Collect \/ Receive \/ LoopEnds
           \/ (\E w \in Workers : WorkerRuns(w)) \/ UNCHANGED batchVars
    PROVE  UNCHANGED Stream!vars
<1>1. pass' = pass /\ yielded' = yielded
  BY DEF BeginPass, Restart, Collect, Receive, LoopEnds, WorkerRuns, batchVars
<1>2. Seen' = Seen
  <2>1. CASE BeginPass
    <3>1. phase = "idle" /\ phase' # "full" /\ count' = 0
      BY <2>1 DEF BeginPass
    <3>2. count = 0
      BY <3>1 DEF BatchIInv, Passing
    <3> QED
      BY <3>1, <3>2 DEF Seen
  <2>2. CASE Collect
    <3>1. phase = "collect" /\ count \in Nat
      BY <2>2 DEF Collect, BatchIInv, BatchTypeOK
    <3>2. \/ phase' # "full" /\ count' = count
          \/ phase' = "full" /\ count' = count + 1
      BY <2>2, <3>1 DEF Collect, Accept
    <3> QED
      BY <3>1, <3>2 DEF Seen
  <2>3. CASE Restart \/ Receive \/ LoopEnds
    BY <2>3 DEF Restart, Receive, LoopEnds, Seen
  <2>4. CASE (\E w \in Workers : WorkerRuns(w)) \/ UNCHANGED batchVars
    BY <2>4 DEF WorkerRuns, batchVars, Seen
  <2> QED
    BY <2>1, <2>2, <2>3, <2>4
<1> QED
  BY <1>1, <1>2 DEF Stream!vars, Seen

\* BatchDataLoader implements the stream of batches that the background process
\* expects: each pass yields batch 1, 2, ... in order, exactly as many as the worker with
\* the fewest samples allows, and then ends.
THEOREM StreamImplemented == BatchSpec => StreamSpec
<1>1. BatchInit => Stream!Init
  BY DEF BatchInit, Stream!Init
<1>2. ASSUME BatchIInv, [BatchNext]_batchVars PROVE [Stream!Next]_(Stream!vars)
  <2>1. CASE TakeBatch
    BY <1>2, <2>1, TakeBatchDelivers DEF Stream!Next
  <2>2. CASE EndPass
    BY <1>2, <2>2, EndPassEnds DEF Stream!Next
  <2>3. CASE \/ BeginPass \/ Restart \/ Collect \/ Receive \/ LoopEnds
             \/ (\E w \in Workers : WorkerRuns(w)) \/ UNCHANGED batchVars
    BY <1>2, <2>3, OtherStepsStutter
  <2> QED
    BY <1>2, <2>1, <2>2, <2>3 DEF BatchNext, Loader
<1>3. BatchIInv /\ [BatchNext]_batchVars => [Stream!Next]_(Stream!vars)
  BY <1>2
<1> QED
  BY <1>1, <1>3, BatchInvariance, PTL DEF BatchSpec, StreamSpec, Stream!Spec

----------------------------------------------------------------------------
(* The training process. *)

\* All the segments have the same number of sequences.
SameLength == \A s, t \in Segments : NumSeqs(s) = NumSeqs(t)

Working == {"next", "batch", "validate", "valnext", "valbatch"}
Validating == {"valnext", "valbatch"}

\* How many batches of the pass the recurrent state has seen.
Absorbed == IF pc = "batch" THEN trIt - 1 ELSE trIt
ValAbsorbed == IF pc = "valbatch" THEN valIt - 1 ELSE valIt

\* Whether a segment ends with the n-th batch of a pass, and the state of the rows after it.
Ended(list, n) == n = 0 \/ \A w \in Workers : Nth(w, list, n).finished
After(list, n) ==
    IF Ended(list, n) THEN AllZero ELSE [w \in Workers |-> AfterRow(Nth(w, list, n))]

Types ==
    /\ pc \in {"epoch", "save", "finished", "crashed"} \cup Working
    /\ hidden \in HiddenStates /\ valHidden \in HiddenStates
    /\ segmentsFinished \in BOOLEAN /\ mode \in {"train", "eval"}
    /\ weights \in Nat /\ checkpoints \subseteq Nat /\ result \in Nat \cup {NoResult}

\* Where the two loops are in their streams of batches.
Streams ==
    /\ epoch \in 1 .. Epochs + 1 /\ trIt \in Nat
    /\ epoch = Epochs + 1 <=> pc \in {"save", "finished"}
    /\ pc \in {"epoch", "save", "finished"} => trIt = 0
    /\ epoch <= Epochs => trIt <= FullBatches(Order[epoch])
    /\ pc = "batch" => trIt # 0 /\ token = [pass |-> epoch, idx |-> trIt]

ValStreams ==
    /\ valPass \in 1 .. Passes + 1 /\ valIt \in Nat
    /\ pc \notin Validating \/ valPass = Passes + 1 => valIt = 0
    /\ valPass <= Passes => valIt <= FullBatches(ValOrder[valPass])
    /\ pc = "valbatch" => valIt # 0 /\ valToken = [pass |-> valPass, idx |-> valIt]

\* The recurrent state, the flag and the mode of the model say so.
States ==
    /\ pc \in Working => /\ hidden = After(Order[epoch], Absorbed)
                         /\ segmentsFinished <=> Ended(Order[epoch], Absorbed)
    /\ pc \in Validating => valHidden = After(ValOrder[valPass], ValAbsorbed)
    /\ pc \in {"next", "batch", "validate"} => mode = "train"
    /\ pc \in Validating => mode = "eval"

\* The updates so far are those of the batches that were absorbed.
Done(b) == b[1] < epoch \/ (b[1] = epoch /\ b[2] <= Absorbed)
Updates == {b \in TrainBatches : Done(b) /\ Updating(b[1], b[2])}
Counted ==
    /\ weights = Cardinality(Updates)
    /\ pc = "finished" => result = weights

IInv == /\ Types /\ Streams /\ ValStreams
        /\ SameLength => States /\ Counted

----------------------------------------------------------------------------
(* The rows of a batch. *)

\* In every pass both splits are lists of different segments.
LEMMA ListsOfPasses ==
    ASSUME NEW k \in 1 .. Passes
    PROVE  IsList(Order[k]) /\ IsList(ValOrder[k])
<1>1. k \in 0 .. Passes
  BY DatasetAssumption
<1> QED
  BY <1>1, ShufflesAreLists, DatasetAssumption, TrainAssumption DEF Order, ValOrder

\* Every row of a full batch is a sample of its worker.
LEMMA RowType ==
    ASSUME NEW list, IsList(list), NEW n \in 1 .. FullBatches(list), NEW w \in Workers
    PROVE  LET d == Nth(w, list, n)
           IN  /\ n \in 1 .. Cardinality(Positions(w, list))
               /\ d.seg \in Segments /\ d.seq \in Nat
               /\ d.finished <=> d.seq = NumSeqs(d.seg) - 1
<1>1. n \in 1 .. Cardinality(Positions(w, list))
  BY BatchesAreFull, PositionsFinite, FS_CardinalityType
<1>2. LET d == Nth(w, list, n)
      IN  /\ d.seg \in Segments /\ d.seq \in 0 .. NumSeqs(d.seg) - 1
          /\ d.finished <=> d.seq = NumSeqs(d.seg) - 1
  BY <1>1, NthType
<1> QED
  BY <1>1, <1>2

\* From one batch to the next each row goes on in its segment, or begins another one.
LEMMA RowNext ==
    ASSUME NEW list, IsList(list), NEW n \in Nat \ {0}, n + 1 <= FullBatches(list),
           NEW w \in Workers
    PROVE  LET d == Nth(w, list, n)
               e == Nth(w, list, n + 1)
           IN  IF d.finished THEN e.seq = 0
                             ELSE e.seg = d.seg /\ e.seq = d.seq + 1
<1>1. n + 1 <= Cardinality(Positions(w, list))
  BY BatchesAreFull, PositionsFinite, FS_CardinalityType
<1> QED
  BY <1>1, NthNext

\* The rows of a batch are at the same sequence of their segments.
LEMMA RowsAligned ==
    ASSUME SameLength, NEW list, IsList(list), NEW n \in 1 .. FullBatches(list),
           NEW w \in Workers, NEW u \in Workers
    PROVE  /\ Nth(w, list, n).seq = Nth(u, list, n).seq
           /\ Nth(w, list, n).finished <=> Nth(u, list, n).finished
<1> DEFINE Aligned(m) == \A v, x \in Workers : Nth(v, list, m).seq = Nth(x, list, m).seq
           Bad == {m \in 1 .. FullBatches(list) : ~Aligned(m)}
<1>1. ASSUME NEW m \in 1 .. FullBatches(list), Aligned(m),
             NEW v \in Workers, NEW x \in Workers
      PROVE  Nth(v, list, m).finished <=> Nth(x, list, m).finished
  <2>1. /\ Nth(v, list, m).seg \in Segments
        /\ Nth(v, list, m).finished <=> Nth(v, list, m).seq = NumSeqs(Nth(v, list, m).seg) - 1
    BY RowType
  <2>2. /\ Nth(x, list, m).seg \in Segments
        /\ Nth(x, list, m).finished <=> Nth(x, list, m).seq = NumSeqs(Nth(x, list, m).seg) - 1
    BY RowType
  <2>3. NumSeqs(Nth(v, list, m).seg) = NumSeqs(Nth(x, list, m).seg)
    BY <2>1, <2>2 DEF SameLength
  <2>4. Nth(v, list, m).seq = Nth(x, list, m).seq
    BY <1>1
  <2> QED
    BY <2>1, <2>2, <2>3, <2>4
<1>2. Bad = {}
  <2> SUFFICES ASSUME Bad # {} PROVE FALSE
    OBVIOUS
  <2>1. PICK m \in Bad : \A i \in Bad : m <= i
    <3>1. Bad \in SUBSET Nat
      BY BatchesAreFull
    <3> HIDE DEF Bad
    <3> QED
      BY <3>1, LeastExists
  <2>2. FullBatches(list) \in Nat /\ m \in 1 .. FullBatches(list) /\ ~Aligned(m)
    BY BatchesAreFull, <2>1
  <2>3. CASE m = 1
    <3>1. ASSUME NEW v \in Workers PROVE Nth(v, list, 1).seq = 0
      <4>1. 1 <= Cardinality(Positions(v, list))
        BY <2>2, <2>3, RowType, PositionsFinite, FS_CardinalityType
      <4> QED
        BY <4>1, NthFirst
    <3> QED
      BY <2>2, <2>3, <3>1
  <2>4. CASE m # 1
    <3> DEFINE i == m - 1
    <3>1. i \in 1 .. FullBatches(list) /\ i \in Nat \ {0} /\ i + 1 <= FullBatches(list)
      BY <2>2, <2>4
    <3>2. i \notin Bad
      BY <2>1, <2>2, <3>1
    <3>3. Aligned(i)
      BY <3>1, <3>2
    <3>4. i + 1 = m
      BY <2>2
    <3> HIDE DEF i
    <3>5. ASSUME NEW v \in Workers, NEW x \in Workers
          PROVE  Nth(v, list, m).seq = Nth(x, list, m).seq
      <4>1. Nth(v, list, i).finished <=> Nth(x, list, i).finished
        BY <1>1, <3>1, <3>3
      <4>2. IF Nth(v, list, i).finished THEN Nth(v, list, m).seq = 0
                                        ELSE Nth(v, list, m).seq = Nth(v, list, i).seq + 1
        BY <3>1, <3>4, RowNext
      <4>3. IF Nth(x, list, i).finished THEN Nth(x, list, m).seq = 0
                                        ELSE Nth(x, list, m).seq = Nth(x, list, i).seq + 1
        BY <3>1, <3>4, RowNext
      <4>4. Nth(v, list, i).seq = Nth(x, list, i).seq
        BY <3>3
      <4> QED
        BY <4>1, <4>2, <4>3, <4>4
    <3> QED
      BY <2>2, <3>5
  <2> QED
    BY <2>3, <2>4
<1>3. Aligned(n)
  BY <1>2
<1> QED
  BY <1>1, <1>3

LEMMA ZeroIsWorker == 0 \in Workers
BY DatasetAssumption DEF Workers

\* The state after n batches is what every row of the next batch expects; a batch follows
\* the end of a segment exactly when its rows begin one.
LEMMA StateFits ==
    ASSUME SameLength, NEW list, IsList(list), NEW n \in Nat, n + 1 <= FullBatches(list),
           NEW w \in Workers
    PROVE  /\ After(list, n)[w] = Expected(Nth(w, list, n + 1))
           /\ Ended(list, n) <=> Nth(w, list, n + 1).seq = 0
<1> DEFINE d == Nth(w, list, n)
           e == Nth(w, list, n + 1)
<1>1. FullBatches(list) \in Nat
  BY BatchesAreFull
<1>2. CASE n = 0
  <2>1. 1 <= Cardinality(Positions(w, list))
    BY <1>1, <1>2, RowType, PositionsFinite, FS_CardinalityType
  <2>2. e.seq = 0
    BY <1>2, <2>1, NthFirst
  <2>3. Ended(list, n) /\ After(list, n) = AllZero
    BY <1>2 DEF Ended, After
  <2> QED
    BY <2>2, <2>3 DEF AllZero, Expected
<1>3. CASE n # 0
  <2>1. n \in 1 .. FullBatches(list) /\ n \in Nat \ {0}
    BY <1>1, <1>3
  <2>2. IF d.finished THEN e.seq = 0 ELSE e.seg = d.seg /\ e.seq = d.seq + 1
    BY <2>1, RowNext
  <2>3. d.seq \in Nat
    BY <2>1, RowType
  <2>4. Ended(list, n) <=> d.finished
    BY <1>3, <2>1, RowsAligned DEF Ended
  <2> HIDE DEF d, e
  <2>5. CASE d.finished
    BY <2>2, <2>4, <2>5 DEF After, AllZero, Expected, e
  <2>6. CASE ~d.finished
    <3>1. After(list, n)[w] = <<d.seg, d.seq>>
      BY <2>4, <2>6 DEF After, AfterRow, d
    <3>2. e.seq # 0 /\ e.seg = d.seg /\ e.seq - 1 = d.seq
      BY <2>2, <2>3, <2>6
    <3> QED
      BY <2>4, <2>6, <3>1, <3>2 DEF Expected, e
  <2> QED
    BY <2>5, <2>6
<1> QED
  BY <1>2, <1>3

\* A batch is to update the weights exactly when the flag says so.
LEMMA FlagFits ==
    ASSUME SameLength, NEW p \in 1 .. Passes, NEW n \in Nat, n + 1 <= FullBatches(Order[p])
    PROVE  Updating(p, n + 1) <=> (RecurrWarmup => ~Ended(Order[p], n))
<1>1. \A w \in Workers : Ended(Order[p], n) <=> Nth(w, Order[p], n + 1).seq = 0
  BY ListsOfPasses, StateFits
<1> QED
  BY <1>1, ZeroIsWorker DEF Updating

LEMMA AfterType ==
    ASSUME NEW list, IsList(list), NEW n \in Nat, n <= FullBatches(list)
    PROVE  After(list, n) \in HiddenStates
<1>1. AllZero \in HiddenStates
  BY DEF AllZero, HiddenStates
<1>2. CASE n = 0
  BY <1>1, <1>2 DEF After, Ended
<1>3. CASE n # 0
  <2>1. n \in 1 .. FullBatches(list)
    BY <1>3, BatchesAreFull
  <2>2. \A w \in Workers : AfterRow(Nth(w, list, n)) \in Segments \X Nat
    BY <2>1, RowType DEF AfterRow
  <2> QED
    BY <1>1, <2>2 DEF After, HiddenStates
<1> QED
  BY <1>2, <1>3

----------------------------------------------------------------------------
(* The two streams of batches. *)

\* An epoch is a pass, so its batches are those of the split's list.
LEMMA EpochIsPass ==
    ASSUME NEW e \in 1 .. Epochs
    PROVE  /\ e \in 1 .. Passes /\ IsList(Order[e]) /\ FullBatches(Order[e]) \in Nat
           /\ Train!Batches(e) = FullBatches(Order[e])
<1>1. e \in 1 .. Passes
  BY TrainAssumption, DatasetAssumption
<1> QED
  BY <1>1, ListsOfPasses, BatchesAreFull DEF Train!Batches

LEMMA ValPassIsPass ==
    ASSUME NEW e \in 1 .. Passes
    PROVE  /\ IsList(ValOrder[e]) /\ FullBatches(ValOrder[e]) \in Nat
           /\ Validation!Batches(e) = FullBatches(ValOrder[e])
BY ListsOfPasses, BatchesAreFull DEF Validation!Batches

\* The next batch of the epoch, and its end.
LEMMA TrainDelivers ==
    ASSUME Streams, NextBatch
    PROVE  /\ epoch \in 1 .. Epochs /\ trIt \in Nat /\ trIt + 1 <= FullBatches(Order[epoch])
           /\ epoch' = epoch /\ trIt' = trIt + 1
           /\ token' = [pass |-> epoch, idx |-> trIt + 1]
<1>1. epoch \in 1 .. Epochs /\ trIt \in Nat
  BY TrainAssumption DEF Streams, NextBatch
<1>2. trIt < FullBatches(Order[epoch]) /\ FullBatches(Order[epoch]) \in Nat
  BY <1>1, EpochIsPass DEF NextBatch, Train!Deliver
<1> QED
  BY <1>1, <1>2 DEF NextBatch, Train!Deliver

LEMMA TrainEndsPass ==
    ASSUME Streams, EndEpoch
    PROVE  /\ epoch \in 1 .. Epochs /\ trIt = FullBatches(Order[epoch])
           /\ epoch' = epoch + 1 /\ trIt' = 0
<1>1. epoch \in 1 .. Epochs
  BY TrainAssumption DEF Streams, EndEpoch
<1> QED
  BY <1>1, EpochIsPass DEF EndEpoch, Train!EndPass

LEMMA ValDelivers ==
    ASSUME ValStreams, NextValBatch
    PROVE  /\ valPass \in 1 .. Passes /\ valIt \in Nat
           /\ valIt + 1 <= FullBatches(ValOrder[valPass])
           /\ valPass' = valPass /\ valIt' = valIt + 1
           /\ valToken' = [pass |-> valPass, idx |-> valIt + 1]
<1>1. valPass \in 1 .. Passes /\ valIt \in Nat
  BY DatasetAssumption DEF ValStreams, NextValBatch
<1>2. valIt < FullBatches(ValOrder[valPass]) /\ FullBatches(ValOrder[valPass]) \in Nat
  BY <1>1, ValPassIsPass DEF NextValBatch, Validation!Deliver
<1> QED
  BY <1>1, <1>2 DEF NextValBatch, Validation!Deliver

LEMMA ValEndsPass ==
    ASSUME ValStreams, EndValidation
    PROVE  /\ valPass \in 1 .. Passes /\ valIt = FullBatches(ValOrder[valPass])
           /\ valPass' = valPass + 1 /\ valIt' = 0
<1>1. valPass \in 1 .. Passes
  BY DatasetAssumption DEF ValStreams, EndValidation
<1> QED
  BY <1>1, ValPassIsPass DEF EndValidation, Validation!EndPass

\* Every step keeps the loops within their streams.
LEMMA NextKeepsStreams ==
    ASSUME Streams, ValStreams, [Next]_vars
    PROVE  Streams' /\ ValStreams'
<1> USE TrainAssumption, DatasetAssumption
        DEF Streams, ValStreams, Validating, trainVars, valVars, outVars
<1>1. CASE StartEpoch
  BY <1>1 DEF StartEpoch
<1>2. CASE NextBatch
  BY <1>2, TrainDelivers DEF NextBatch
<1>3. CASE TrainBatch
  <2>1. pc' \in {"validate", "next"} /\ pc = "batch"
    BY <1>3 DEF TrainBatch
  <2> QED
    BY <1>3, <2>1 DEF TrainBatch
<1>4. CASE EndEpoch
  <2>1. epoch' = epoch + 1 /\ trIt' = 0 /\ epoch \in 1 .. Epochs
    BY <1>4, TrainEndsPass
  <2>2. epoch' <= Epochs => epoch' \in 1 .. Epochs /\ FullBatches(Order[epoch']) \in Nat
    BY <2>1, EpochIsPass
  <2>3. pc' = IF epoch = Epochs THEN "save" ELSE "epoch"
    BY <1>4 DEF EndEpoch
  <2> QED
    BY <1>4, <2>1, <2>2, <2>3 DEF EndEpoch
<1>5. CASE StartValidation
  BY <1>5 DEF StartValidation
<1>6. CASE NextValBatch
  BY <1>6, ValDelivers DEF NextValBatch
<1>7. CASE ValidateBatch
  BY <1>7 DEF ValidateBatch
<1>8. CASE EndValidation
  <2>1. valPass' = valPass + 1 /\ valIt' = 0 /\ valPass \in 1 .. Passes
    BY <1>8, ValEndsPass
  <2>2. valPass' <= Passes => valPass' \in 1 .. Passes /\ FullBatches(ValOrder[valPass']) \in Nat
    BY <2>1, ValPassIsPass
  <2>3. pc = "valnext" /\ pc' \in {"next", "crashed"} /\ UNCHANGED trainVars
    BY <1>8 DEF EndValidation
  <2> QED
    BY <2>1, <2>2, <2>3
<1>9. CASE SaveResult
  BY <1>9 DEF SaveResult
<1>10. CASE UNCHANGED vars
  BY <1>10 DEF vars
<1> QED
  BY <1>1, <1>2, <1>3, <1>4, <1>5, <1>6, <1>7, <1>8, <1>9, <1>10 DEF Next

----------------------------------------------------------------------------
(* The types. *)

\* The state after the batch in hand is the one its rows lead to.
LEMMA HiddenAfterRows ==
    ASSUME token = [pass |-> epoch, idx |-> trIt], trIt # 0
    PROVE  /\ (\A w \in Workers : Row(w).finished) <=> Ended(Order[epoch], trIt)
           /\ HiddenAfter(\A w \in Workers : Row(w).finished) = After(Order[epoch], trIt)
<1>1. token.pass = epoch /\ token.idx = trIt
  OBVIOUS
<1>2. \A w \in Workers : Row(w) = Nth(w, Order[epoch], trIt)
  BY <1>1 DEF Row
<1>3. (\A w \in Workers : Row(w).finished) <=> Ended(Order[epoch], trIt)
  BY <1>2 DEF Ended
<1> QED
  BY <1>2, <1>3 DEF HiddenAfter, After

\* TrainBatch and ValidateBatch, in these words.
LEMMA TrainBatchDoes ==
    ASSUME Streams, TrainBatch
    PROVE  /\ epoch \in 1 .. Epochs /\ trIt \in Nat \ {0} /\ trIt <= FullBatches(Order[epoch])
           /\ hidden' = After(Order[epoch], trIt)
           /\ segmentsFinished' <=> Ended(Order[epoch], trIt)
           /\ segmentsFinished' \in BOOLEAN
           /\ UNCHANGED <<epoch, trIt, valVars, mode, checkpoints, result>>
           /\ pc = "batch" /\ pc' \in {"validate", "next"}
<1>1. /\ pc = "batch" /\ trIt # 0 /\ token = [pass |-> epoch, idx |-> trIt]
      /\ epoch \in 1 .. Epochs /\ trIt \in Nat /\ trIt <= FullBatches(Order[epoch])
  BY TrainAssumption DEF Streams, TrainBatch
<1>2. segmentsFinished' = \A w \in Workers : Row(w).finished
  BY DEF TrainBatch
<1>3. hidden' = HiddenAfter(\A w \in Workers : Row(w).finished)
  BY <1>2 DEF TrainBatch
<1>4. UNCHANGED <<epoch, trIt, valVars, mode, checkpoints, result>> /\ pc' \in {"validate", "next"}
  BY DEF TrainBatch
<1> QED
  BY <1>1, <1>2, <1>3, <1>4, HiddenAfterRows

LEMMA ValidateBatchDoes ==
    ASSUME ValStreams, ValidateBatch
    PROVE  /\ valPass \in 1 .. Passes /\ valIt \in Nat \ {0}
           /\ valIt <= FullBatches(ValOrder[valPass])
           /\ valHidden' = After(ValOrder[valPass], valIt)
<1>1. /\ valIt # 0 /\ valToken = [pass |-> valPass, idx |-> valIt]
      /\ valPass \in 1 .. Passes /\ valIt \in Nat /\ valIt <= FullBatches(ValOrder[valPass])
  BY DatasetAssumption DEF ValStreams, ValidateBatch
<1>2. valToken.pass = valPass /\ valToken.idx = valIt
  BY <1>1
<1>3. \A w \in Workers : ValRow(w) = Nth(w, ValOrder[valPass], valIt)
  BY <1>2 DEF ValRow
<1>4. (\A w \in Workers : ValRow(w).finished) <=> Ended(ValOrder[valPass], valIt)
  BY <1>1, <1>3 DEF Ended
<1>5. valHidden' = After(ValOrder[valPass], valIt)
  BY <1>3, <1>4 DEF ValidateBatch, After
<1> QED
  BY <1>1, <1>5

LEMMA NextKeepsTypes ==
    ASSUME Types, Streams, ValStreams, [Next]_vars
    PROVE  Types'
<1>1. AllZero \in HiddenStates
  BY DEF AllZero, HiddenStates
<1> USE DEF Types, Working, trainVars, valVars, outVars
<1>2. CASE StartEpoch \/ StartValidation
  BY <1>1, <1>2 DEF StartEpoch, StartValidation
<1>3. CASE NextBatch \/ EndEpoch \/ NextValBatch \/ SaveResult
  BY <1>3 DEF NextBatch, EndEpoch, NextValBatch, SaveResult
<1>4. CASE TrainBatch
  <2>1. hidden' \in HiddenStates
    BY <1>4, TrainBatchDoes, AfterType, EpochIsPass
  <2>2. weights' \in Nat
    BY <1>4 DEF TrainBatch
  <2> QED
    BY <1>4, <2>1, <2>2, TrainBatchDoes
<1>5. CASE ValidateBatch
  <2>1. valHidden' \in HiddenStates
    BY <1>5, ValidateBatchDoes, AfterType, ValPassIsPass
  <2> QED
    BY <1>5, <2>1 DEF ValidateBatch
<1>6. CASE EndValidation
  BY <1>6 DEF EndValidation
<1>7. CASE UNCHANGED vars
  BY <1>7 DEF vars
<1> QED
  BY <1>2, <1>3, <1>4, <1>5, <1>6, <1>7 DEF Next

----------------------------------------------------------------------------
(* The recurrent state. *)

LEMMA NextKeepsStates ==
    ASSUME Types, Streams, ValStreams, States, [Next]_vars
    PROVE  States'
<1> USE DEF States, Absorbed, ValAbsorbed, Working, Validating, trainVars, valVars, outVars
<1>1. \A list : Ended(list, 0) /\ After(list, 0) = AllZero
  BY DEF Ended, After
<1>2. CASE StartEpoch
  <2>1. trIt = 0
    BY <1>2 DEF StartEpoch, Streams
  <2> QED
    BY <1>1, <1>2, <2>1 DEF StartEpoch
<1>3. CASE NextBatch
  <2>1. epoch' = epoch /\ trIt' = trIt + 1 /\ trIt' - 1 = trIt
    BY <1>3, TrainDelivers
  <2> QED
    BY <1>3, <2>1 DEF NextBatch
<1>4. CASE TrainBatch
  BY <1>4, TrainBatchDoes
<1>5. CASE EndEpoch
  BY <1>5 DEF EndEpoch
<1>6. CASE StartValidation
  <2>1. valIt = 0
    BY <1>6 DEF StartValidation, ValStreams
  <2> QED
    BY <1>1, <1>6, <2>1 DEF StartValidation
<1>7. CASE NextValBatch
  <2>1. valPass' = valPass /\ valIt' = valIt + 1 /\ valIt' - 1 = valIt
    BY <1>7, ValDelivers
  <2> QED
    BY <1>7, <2>1 DEF NextValBatch
<1>8. CASE ValidateBatch
  BY <1>8, ValidateBatchDoes DEF ValidateBatch
<1>9. CASE EndValidation
  BY <1>9 DEF EndValidation
<1>10. CASE SaveResult
  BY <1>10 DEF SaveResult
<1>11. CASE UNCHANGED vars
  BY <1>11 DEF vars
<1> QED
  BY <1>2, <1>3, <1>4, <1>5, <1>6, <1>7, <1>8, <1>9, <1>10, <1>11 DEF Next

----------------------------------------------------------------------------
(* The updates. *)

LEMMA TrainBatchIs ==
    ASSUME NEW b
    PROVE  b \in TrainBatches <=> /\ b = <<b[1], b[2]>> /\ b[1] \in 1 .. Epochs
                                  /\ b[2] \in 1 .. FullBatches(Order[b[1]])
BY DEF TrainBatches

LEMMA TrainBatchesFinite == IsFiniteSet(TrainBatches)
<1> DEFINE Of(e) == {e} \X (1 .. FullBatches(Order[e]))
           f == [e \in 1 .. Epochs |-> Of(e)]
           Sets == {Of(e) : e \in 1 .. Epochs}
<1>1. IsFiniteSet(1 .. Epochs)
  BY FS_Interval, TrainAssumption
<1>2. f \in Surjection(1 .. Epochs, Sets)
  BY DEF Surjection
<1>3. IsFiniteSet(Sets)
  BY <1>1, <1>2, FS_Surjection
<1>4. ASSUME NEW e \in 1 .. Epochs PROVE IsFiniteSet(Of(e))
  <2>1. 1 \in Int /\ FullBatches(Order[e]) \in Int
    BY EpochIsPass
  <2>2. IsFiniteSet(1 .. FullBatches(Order[e]))
    BY <2>1, FS_Interval, Zenon
  <2>3. IsFiniteSet({e})
    BY FS_Singleton
  <2> QED
    BY <2>2, <2>3, FS_Product
<1>5. \A T \in Sets : IsFiniteSet(T)
  BY <1>4
<1>6. TrainBatches = UNION Sets
  BY DEF TrainBatches
<1> HIDE DEF Sets
<1> QED
  BY <1>3, <1>5, <1>6, FS_UNION

LEMMA UpdatesFinite == IsFiniteSet(Updates) /\ Cardinality(Updates) \in Nat
<1>1. Updates \in SUBSET TrainBatches
  BY DEF Updates
<1> QED
  BY <1>1, TrainBatchesFinite, FS_Subset, FS_CardinalityType

\* Training on a batch adds one update, if the batch is to make one.
LEMMA TrainBatchCounts ==
    ASSUME SameLength, Types, Streams, States, Counted, TrainBatch
    PROVE  Counted'
<1>1. /\ epoch \in 1 .. Epochs /\ trIt \in Nat \ {0} /\ trIt <= FullBatches(Order[epoch])
      /\ epoch' = epoch /\ trIt' = trIt /\ pc = "batch" /\ pc' \in {"validate", "next"}
  BY TrainBatchDoes
<1> DEFINE b == <<epoch, trIt>>
<1>2. FullBatches(Order[epoch]) \in Nat
  BY <1>1, EpochIsPass
<1>3. b \in TrainBatches
  BY <1>1, <1>2, TrainBatchIs
<1>4. \A c \in TrainBatches : Done(c)' <=> Done(c) \/ c = b
  <2>1. ASSUME NEW c \in TrainBatches
        PROVE  c = <<c[1], c[2]>> /\ c[1] \in Int /\ c[2] \in Int
    BY TrainBatchIs
  <2>2. Absorbed = trIt - 1 /\ Absorbed' = trIt
    BY <1>1 DEF Absorbed
  <2> QED
    BY <1>1, <2>1, <2>2 DEF Done
<1>5. ~Done(b)
  BY <1>1 DEF Done, Absorbed
<1>6. ShouldBackprop <=> Updating(epoch, trIt)
  <2>1. trIt - 1 \in Nat /\ trIt - 1 + 1 = trIt
    BY <1>1
  <2>2. Updating(epoch, trIt) <=> (RecurrWarmup => ~Ended(Order[epoch], trIt - 1))
    BY <1>1, <2>1, FlagFits, EpochIsPass
  <2>3. segmentsFinished <=> Ended(Order[epoch], trIt - 1)
    BY <1>1 DEF States, Working, Absorbed
  <2> QED
    BY <2>2, <2>3, TrainAssumption DEF ShouldBackprop
<1>7. CASE ShouldBackprop
  <2>1. weights' = weights + 1
    BY <1>7 DEF TrainBatch
  <2>2. Updates' = Updates \cup {b} /\ b \notin Updates
    BY <1>3, <1>4, <1>5, <1>6, <1>7 DEF Updates
  <2>3. Cardinality(Updates') = Cardinality(Updates) + 1
    BY <2>2, UpdatesFinite, FS_AddElement
  <2> QED
    BY <1>1, <2>1, <2>3 DEF Counted
<1>8. CASE ~ShouldBackprop
  <2>1. weights' = weights
    BY <1>8 DEF TrainBatch
  <2>2. Updates' = Updates
    BY <1>4, <1>6, <1>8 DEF Updates
  <2> QED
    BY <1>1, <2>1, <2>2 DEF Counted
<1> QED
  BY <1>7, <1>8

LEMMA NextKeepsCounted ==
    ASSUME SameLength, Types, Streams, ValStreams, States, Counted, [Next]_vars
    PROVE  Counted'
<1>1. ASSUME weights' = weights, pc' # "finished",
             \A b \in TrainBatches : Done(b)' <=> Done(b)
      PROVE  Counted'
  <2>1. Updates' = Updates
    BY <1>1 DEF Updates
  <2> QED
    BY <1>1, <2>1 DEF Counted
<1>2. ASSUME epoch' = epoch, Absorbed' = Absorbed, NEW b PROVE Done(b)' <=> Done(b)
  BY <1>2 DEF Done
<1>3. CASE StartEpoch \/ StartValidation
  BY <1>1, <1>2, <1>3 DEF StartEpoch, StartValidation, Absorbed, trainVars, outVars
<1>4. CASE NextBatch
  <2>1. epoch' = epoch /\ trIt' - 1 = trIt /\ pc = "next" /\ pc' = "batch"
    BY <1>4, TrainDelivers DEF NextBatch
  <2>2. Absorbed' = Absorbed
    BY <2>1 DEF Absorbed
  <2> QED
    BY <1>1, <1>2, <1>4, <2>1, <2>2 DEF NextBatch, outVars
<1>5. CASE TrainBatch
  BY <1>5, TrainBatchCounts
<1>6. CASE EndEpoch
  <2>1. /\ epoch \in 1 .. Epochs /\ trIt = FullBatches(Order[epoch])
        /\ epoch' = epoch + 1 /\ trIt' = 0
    BY <1>6, TrainEndsPass
  <2>2. Absorbed = trIt /\ Absorbed' = 0
    BY <1>6, <2>1 DEF EndEpoch, Absorbed
  <2>3. ASSUME NEW b \in TrainBatches PROVE Done(b)' <=> Done(b)
    <3>1. b[1] \in 1 .. Epochs /\ b[2] \in 1 .. FullBatches(Order[b[1]])
      BY TrainBatchIs
    <3>2. FullBatches(Order[b[1]]) \in Nat
      BY <3>1, EpochIsPass
    <3>3. CASE b[1] = epoch
      BY <2>1, <2>2, <3>1, <3>2, <3>3 DEF Done
    <3>4. CASE b[1] # epoch
      <4>1. b[2] \in Nat \ {0} /\ b[1] \in Nat
        BY <3>1, <3>2
      <4> QED
        BY <2>1, <2>2, <4>1, <3>4 DEF Done
    <3> QED
      BY <3>3, <3>4
  <2> QED
    BY <1>1, <1>6, <2>3 DEF EndEpoch, outVars
<1>7. CASE NextValBatch \/ ValidateBatch \/ EndValidation
  BY <1>1, <1>2, <1>7 DEF NextValBatch, ValidateBatch, EndValidation, Absorbed, trainVars,
                          outVars
<1>8. CASE SaveResult
  <2>1. Absorbed' = Absorbed /\ epoch' = epoch
    BY <1>8 DEF SaveResult, Absorbed, trainVars
  <2>2. Updates' = Updates
    BY <1>2, <2>1 DEF Updates
  <2> QED
    BY <1>8, <2>2 DEF SaveResult, Counted
<1>9. CASE UNCHANGED vars
  <2>1. Absorbed' = Absorbed /\ epoch' = epoch
    BY <1>9 DEF vars, Absorbed, trainVars
  <2>2. Updates' = Updates
    BY <1>2, <2>1 DEF Updates
  <2> QED
    BY <1>9, <2>2 DEF vars, outVars, Counted
<1> QED
  BY <1>3, <1>4, <1>5, <1>6, <1>7, <1>8, <1>9 DEF Next

----------------------------------------------------------------------------
(* The invariant and what follows from it. *)

LEMMA InitIsFine == Init => IInv
<1> SUFFICES ASSUME Init PROVE IInv
  OBVIOUS
<1> USE DEF Init, Train!Init, Validation!Init
<1>1. AllZero \in HiddenStates
  BY DEF AllZero, HiddenStates
<1>2. Types
  BY <1>1 DEF Types, NoResult
<1>3. Streams
  <2>1. 1 \in 1 .. Epochs /\ Epochs \in Nat \ {0}
    BY TrainAssumption, DatasetAssumption
  <2>2. pc = "epoch" /\ epoch = 1 /\ trIt = 0
    OBVIOUS
  <2>3. 0 <= FullBatches(Order[1])
    BY <2>1, EpochIsPass
  <2> QED
    BY <2>1, <2>2, <2>3 DEF Streams
<1>4. ValStreams
  <2>1. 1 \in 1 .. Passes /\ Passes \in Nat \ {0}
    BY DatasetAssumption
  <2>2. pc = "epoch" /\ valPass = 1 /\ valIt = 0
    OBVIOUS
  <2>3. 0 <= FullBatches(ValOrder[1])
    BY <2>1, ValPassIsPass
  <2> QED
    BY <2>1, <2>2, <2>3 DEF ValStreams, Validating
<1>5. States
  BY DEF States, Working, Validating
<1>6. Counted
  <2>1. Updates = {}
    <3>1. ASSUME NEW b \in TrainBatches PROVE ~Done(b)
      <4>1. b[1] \in 1 .. Epochs /\ b[2] \in 1 .. FullBatches(Order[b[1]])
        BY TrainBatchIs
      <4>2. b[1] \in Nat \ {0} /\ b[2] \in Nat \ {0}
        BY <4>1, EpochIsPass
      <4> QED
        BY <4>2 DEF Done, Absorbed
    <3> QED
      BY <3>1 DEF Updates
  <2> QED
    BY <2>1, FS_EmptySet DEF Counted
<1> QED
  BY <1>2, <1>3, <1>4, <1>5, <1>6 DEF IInv

\* Loops, recurrent state, flag, mode and weights agree in every reachable state.
THEOREM Invariance == Spec => []IInv
<1>1. IInv /\ [Next]_vars => IInv'
  BY NextKeepsTypes, NextKeepsStreams, NextKeepsStates, NextKeepsCounted DEF IInv
<1> QED
  BY <1>1, InitIsFine, PTL DEF Spec

\* The training process stays within its types, whatever the lengths of the recordings.
THEOREM TypeCorrect == Spec => []TypeOK
<1>1. IInv => TypeOK
  BY DEF IInv, Types, Streams, ValStreams, TypeOK, Working
<1> QED
  BY <1>1, Invariance, PTL

\* The recurrent state a row meets is that of the sequence just before it in the same
\* segment, in every epoch and in every validation (doc/MODEL_INPUTS.md:143-146).
THEOREM StateIsOfTheSegment == ASSUME SameLength PROVE Spec => []HiddenMatchesRows
<1>1. ASSUME IInv PROVE HiddenMatchesRows
  <2>1. ASSUME pc = "batch", NEW w \in Workers PROVE hidden[w] = Expected(Row(w))
    <3>1. /\ epoch \in 1 .. Epochs /\ trIt - 1 \in Nat /\ trIt - 1 + 1 = trIt
          /\ trIt <= FullBatches(Order[epoch])
          /\ token.pass = epoch /\ token.idx = trIt
      BY <1>1, <2>1, TrainAssumption DEF IInv, Streams
    <3>2. hidden = After(Order[epoch], trIt - 1)
      BY <1>1, <2>1 DEF IInv, States, Working, Absorbed
    <3>3. After(Order[epoch], trIt - 1)[w] = Expected(Nth(w, Order[epoch], trIt))
      BY <3>1, StateFits, EpochIsPass
    <3> QED
      BY <3>1, <3>2, <3>3 DEF Row
  <2>2. ASSUME pc = "valbatch", NEW w \in Workers PROVE valHidden[w] = Expected(ValRow(w))
    <3>1. /\ valPass \in 1 .. Passes /\ valIt - 1 \in Nat /\ valIt - 1 + 1 = valIt
          /\ valIt <= FullBatches(ValOrder[valPass])
          /\ valToken.pass = valPass /\ valToken.idx = valIt
      BY <1>1, <2>2, DatasetAssumption DEF IInv, ValStreams
    <3>2. valHidden = After(ValOrder[valPass], valIt - 1)
      BY <1>1, <2>2 DEF IInv, States, Validating, ValAbsorbed
    <3>3. After(ValOrder[valPass], valIt - 1)[w] = Expected(Nth(w, ValOrder[valPass], valIt))
      BY <3>1, StateFits, ValPassIsPass
    <3> QED
      BY <3>1, <3>2, <3>3 DEF ValRow
  <2> QED
    BY <2>1, <2>2 DEF HiddenMatchesRows
<1> QED
  BY <1>1, Invariance, PTL

\* The first batch of a segment updates nothing, every other one does, in training mode;
\* validation is in evaluation mode (README.md:122).
THEOREM WarmBatchesUpdate == ASSUME SameLength PROVE Spec => []OnlyWarmBatchesUpdate
<1>1. ASSUME IInv PROVE OnlyWarmBatchesUpdate
  <2>1. ASSUME pc = "batch"
        PROVE  mode = "train" /\ (ShouldBackprop <=> Updating(token.pass, token.idx))
    <3>1. /\ epoch \in 1 .. Epochs /\ trIt - 1 \in Nat /\ trIt - 1 + 1 = trIt
          /\ trIt <= FullBatches(Order[epoch])
          /\ token.pass = epoch /\ token.idx = trIt
      BY <1>1, <2>1, TrainAssumption DEF IInv, Streams
    <3>2. Updating(epoch, trIt) <=> (RecurrWarmup => ~Ended(Order[epoch], trIt - 1))
      BY <3>1, FlagFits, EpochIsPass
    <3>3. mode = "train" /\ (segmentsFinished <=> Ended(Order[epoch], trIt - 1))
      BY <1>1, <2>1 DEF IInv, States, Working, Absorbed
    <3> QED
      BY <3>1, <3>2, <3>3, TrainAssumption DEF ShouldBackprop
  <2>2. pc = "valbatch" => mode = "eval"
    BY <1>1 DEF IInv, States, Validating
  <2> QED
    BY <2>1, <2>2 DEF OnlyWarmBatchesUpdate
<1> QED
  BY <1>1, Invariance, PTL

\* The finished model has had one update for every batch of every epoch that is to make
\* one, however often training was interrupted for validation.
THEOREM EveryBatchCounts == ASSUME SameLength PROVE Spec => []ResultIsTrained
<1>1. ASSUME IInv PROVE ResultIsTrained
  <2>1. ASSUME pc = "finished", NEW b \in TrainBatches PROVE Done(b)
    <3>1. epoch = Epochs + 1 /\ Epochs \in Nat
      BY <1>1, <2>1, TrainAssumption DEF IInv, Streams
    <3>2. b[1] \in 1 .. Epochs
      BY TrainBatchIs
    <3> QED
      BY <3>1, <3>2 DEF Done
  <2>2. pc = "finished" => Updates = {b \in TrainBatches : Updating(b[1], b[2])}
    BY <2>1 DEF Updates
  <2> QED
    BY <1>1, <2>2 DEF IInv, Counted, ResultIsTrained
<1> QED
  BY <1>1, Invariance, PTL
=============================================================================
