------------------------ MODULE DatasetVolume_proofs ------------------------
(***************************************************************************)
(* Proofs about DatasetVolume: what its run checks of two segments holds   *)
(* of any number of segments, workers and runs, with crashes anywhere.     *)
(*                                                                         *)
(* The invariant has three parts beside the types.  Shares: the segments   *)
(* that wait for a worker or are in one's hands are all different.  Hands: *)
(* a segment in a worker's hands has no ground truth, or one it is just    *)
(* writing, so that no segment that is listed is ever written again.       *)
(* Caches: how far the two files of the cache, the lists in memory and the *)
(* segments still to look at agree at each place of get_paths.             *)
(***************************************************************************)
EXTENDS DatasetVolume, FiniteSetTheorems, SequenceTheorems, TLAPS

NoneOpen == [w \in Workers |-> FALSE]

\* No worker has anything to do but while the script waits for them.
Quiet == stage \notin {"generating", "growing"} => todo = NoWork /\ doing = Idle /\ open = NoneOpen

Shares == /\ \A w, x \in Workers : \A i \in DOMAIN todo[w], j \in DOMAIN todo[x] :
                todo[w][i] = todo[x][j] => w = x /\ i = j
          /\ \A w, x \in Workers : doing[w] # 0 => doing[w] \notin Range(todo[x])
          /\ OneWriter

Hands == \A w \in Workers :
            /\ open[w] => doing[w] # 0
            /\ doing[w] # 0 => gt[doing[w]] = IF open[w] THEN "broken" ELSE "none"

\* The files and lists that get_paths builds, by the line it is at.
Caches ==
    /\ stage \notin {"over", "scan", "plan", "loaded", "fit"} => train = Empty
    /\ stage = "dropplans" => vcache = NoCache
    /\ stage = "train" /\ args.grow => vcache = NoCache
    /\ stage = "truncateplans" => vcache = <<>>
    /\ stage = "scan" => train = [videos |-> vcache, plans |-> pcache] /\ vcache = pcache
                         /\ vcache \in Lists
    /\ stage = "plan" => /\ train = [videos |-> vcache, plans |-> pcache]
                         /\ rest # <<>> /\ pcache \in Lists
                         /\ vcache = Append(pcache, Head(rest))
    /\ stage \in {"loaded", "fit"} => train = [videos |-> vcache, plans |-> pcache]
    /\ stage = "fit" => val = train

\* While the script unzips, it is at an archive.
AtArchive == /\ stage = "dataset" => pos = 1
             /\ stage = "unzip" => pos \in 1 .. NumSegs

\* Whatever can be trained on is listed or still to be looked at.
Covered ==
    /\ stage \in {"truncate", "truncateplans", "scan", "plan"} =>
          \A s \in Segs : Usable(s) => s \in Range(rest) \/ s \in Range(train.videos)
    /\ stage \in {"loaded", "fit"} /\ args.grow => Current

IInv == /\ TypeOK /\ AtArchive /\ Quiet /\ Shares /\ Hands
        /\ ListedIsUsable /\ Caches /\ PairsMatch /\ Covered

----------------------------------------------------------------------------
(* Lists of segments. *)

\* A finite set of numbers can be listed in increasing order: each at its rank.
LEMMA SortedListExists ==
    ASSUME NEW S \in SUBSET Nat, IsFiniteSet(S)
    PROVE  \E list \in [1 .. Cardinality(S) -> S] :
              \A i, j \in DOMAIN list : i < j => list[i] < list[j]
<1> DEFINE N == Cardinality(S)
           Upto(x) == {y \in S : y <= x}
           rank == [x \in S |-> Cardinality(Upto(x))]
           list == [i \in 1 .. N |-> CHOOSE x \in S : rank[x] = i]
<1>1. N \in Nat
  BY FS_CardinalityType
<1>2. ASSUME NEW x \in S
      PROVE  IsFiniteSet(Upto(x)) /\ Cardinality(Upto(x)) \in 1 .. N
  <2>1. Upto(x) \in SUBSET S /\ x \in Upto(x)
    OBVIOUS
  <2>2. IsFiniteSet(Upto(x)) /\ Cardinality(Upto(x)) <= N
    BY <2>1, FS_Subset
  <2>3. Cardinality(Upto(x)) \in Nat /\ Cardinality(Upto(x)) # 0
    BY <2>1, <2>2, FS_CardinalityType, FS_EmptySet
  <2> QED
    BY <1>1, <2>2, <2>3
<1>3. ASSUME NEW x \in S, NEW y \in S, x < y
      PROVE  rank[x] < rank[y]
  <2>1. Upto(x) \in SUBSET Upto(y) /\ y \in Upto(y) /\ y \notin Upto(x)
    <3>1. x \in Nat /\ y \in Nat /\ x < y
      BY <1>3
    <3>2. \A z \in Upto(x) : z \in Upto(y)
      BY <3>1
    <3>3. y \in Upto(y) /\ y \notin Upto(x)
      BY <3>1
    <3> QED
      BY <3>2, <3>3
  <2>2. Cardinality(Upto(x)) <= Cardinality(Upto(y)) /\ Cardinality(Upto(x)) # Cardinality(Upto(y))
    BY <1>2, <2>1, FS_Subset
  <2> QED
    BY <1>1, <1>2, <2>2
<1>4. rank \in Surjection(S, 1 .. N)
  <2>1. rank \in [S -> 1 .. N]
    BY <1>2
  <2>2. \A x, y \in S : rank[x] = rank[y] => x = y
    <3> SUFFICES ASSUME NEW x \in S, NEW y \in S, rank[x] = rank[y] PROVE x = y
      OBVIOUS
    <3>1. rank[x] \in 1 .. N /\ rank[y] \in 1 .. N /\ x \in Nat /\ y \in Nat
      BY <2>1
    <3>2. ~(x < y) /\ ~(y < x)
      BY <1>1, <1>3, <3>1
    <3> QED
      BY <3>1, <3>2
  <2>3. rank \in Injection(S, 1 .. N)
    BY <2>1, <2>2 DEF Injection, IsInjective
  <2>4. IsFiniteSet(1 .. N) /\ Cardinality(1 .. N) = N
    BY <1>1, FS_Interval
  <2> QED
    BY <2>3, <2>4, FS_Injection
<1>5. \A i \in 1 .. N : list[i] \in S /\ rank[list[i]] = i
  <2> HIDE DEF rank
  <2> QED
    BY <1>4 DEF Surjection
<1>6. list \in [1 .. N -> S]
  BY <1>5
<1>7. ASSUME NEW i \in 1 .. N, NEW j \in 1 .. N, i < j
      PROVE  list[i] < list[j]
  <2> HIDE DEF rank, list
  <2>1. list[i] \in Nat /\ list[j] \in Nat
    BY <1>5
  <2>2. list[i] # list[j]
    BY <1>5, <1>7
  <2>3. ~(list[j] < list[i])
    <3>1. list[j] < list[i] => rank[list[j]] < rank[list[i]]
      BY <1>3, <1>5
    <3> QED
      BY <1>1, <1>5, <1>7, <3>1
  <2> QED
    BY <2>1, <2>2, <2>3
<1> QED
  BY <1>6, <1>7

\* What "find | sort" gives: every number of the set, once.
LEMMA ListedProperties ==
    ASSUME NEW S \in SUBSET Nat, IsFiniteSet(S)
    PROVE  /\ Listed(S) \in Seq(S)
           /\ Range(Listed(S)) = S
           /\ \A i, j \in DOMAIN Listed(S) : Listed(S)[i] = Listed(S)[j] => i = j
<1> DEFINE N == Cardinality(S)
           l == Listed(S)
<1>1. N \in Nat
  BY FS_CardinalityType
<1>2. l \in [1 .. N -> S] /\ \A i, j \in 1 .. N : i < j => l[i] < l[j]
  BY SortedListExists DEF Listed
<1> HIDE DEF l
<1>3. \A i, j \in 1 .. N : l[i] = l[j] => i = j
  <2> SUFFICES ASSUME NEW i \in 1 .. N, NEW j \in 1 .. N, l[i] = l[j] PROVE i = j
    OBVIOUS
  <2>1. l[i] \in Nat /\ l[j] \in Nat
    BY <1>2
  <2>2. ~(i < j) /\ ~(j < i)
    BY <1>2, <2>1
  <2> QED
    BY <1>1, <2>2
<1>4. l \in Injection(1 .. N, S)
  BY <1>2, <1>3 DEF Injection, IsInjective
<1>5. l \in Surjection(1 .. N, S)
  <2>1. IsFiniteSet(1 .. N) /\ Cardinality(1 .. N) = N
    BY <1>1, FS_Interval
  <2> QED
    BY <1>4, <2>1, FS_Injection
<1>6. l \in Seq(S)
  BY <1>1, <1>2
<1>7. Range(l) = S
  BY <1>2, <1>5 DEF Surjection, Range
<1> QED
  BY <1>2, <1>3, <1>6, <1>7 DEF l

\* Any segments, listed, are a list without repetitions.
LEMMA ListedSegments ==
    ASSUME NEW S \in SUBSET Segs
    PROVE  /\ Listed(S) \in Lists /\ Range(Listed(S)) = S
           /\ \A i, j \in DOMAIN Listed(S) : Listed(S)[i] = Listed(S)[j] => i = j
<1>1. S \in SUBSET Nat /\ IsFiniteSet(S)
  <2>1. IsFiniteSet(Segs) /\ Segs \subseteq Nat
    BY VolumeAssumption, FS_Interval DEF Segs
  <2> QED
    BY <2>1, FS_Subset
<1>2. Listed(S) \in Seq(S)
  BY <1>1, ListedProperties
<1>3. Listed(S) \in Lists
  BY <1>2, SeqMonotonic DEF Lists
<1> QED
  BY <1>1, <1>3, ListedProperties

\* awk deals every line to one shard, and to one place in it
\* (launch_runpod_training.py:320-322).
LEMMA DealProperties ==
    ASSUME NEW list \in Lists, NEW n,
           \A i, j \in DOMAIN list : list[i] = list[j] => i = j
    PROVE  /\ Deal(list, n) \in [Workers -> Lists]
           /\ \A w, x \in Workers : \A i \in DOMAIN Deal(list, n)[w], j \in DOMAIN Deal(list, n)[x] :
                 Deal(list, n)[w][i] = Deal(list, n)[x][j] => w = x /\ i = j
<1> DEFINE nums(w) == {i \in DOMAIN list : i % n = w}
           lines(w) == Listed(nums(w))
           shard(w) == [k \in DOMAIN lines(w) |-> list[lines(w)[k]]]
<1>1. Len(list) \in Nat /\ DOMAIN list = 1 .. Len(list) /\ \A i \in 1 .. Len(list) : list[i] \in Segs
  BY DEF Lists
<1>2. ASSUME NEW w
      PROVE  /\ lines(w) \in Seq(nums(w))
             /\ \A i, j \in DOMAIN lines(w) : lines(w)[i] = lines(w)[j] => i = j
  <2>1. nums(w) \in SUBSET Nat /\ nums(w) \in SUBSET (1 .. Len(list)) /\ IsFiniteSet(1 .. Len(list))
    BY <1>1, FS_Interval
  <2>2. IsFiniteSet(nums(w))
    BY <2>1, FS_Subset
  <2> HIDE DEF nums
  <2> QED
    BY <2>1, <2>2, ListedProperties
<1>3. ASSUME NEW w
      PROVE  \A k \in DOMAIN lines(w) : lines(w)[k] \in DOMAIN list /\ lines(w)[k] % n = w
  <2> HIDE DEF lines
  <2>1. \A k \in DOMAIN lines(w) : lines(w)[k] \in nums(w)
    <3> HIDE DEF nums
    <3> QED
      BY <1>2
  <2> QED
    BY <2>1
<1>4. Deal(list, n) = [w \in Workers |-> shard(w)]
  BY DEF Deal
<1> HIDE DEF lines, nums
<1>5. ASSUME NEW w
      PROVE  shard(w) \in Lists
  <2>1. Len(lines(w)) \in Nat /\ DOMAIN lines(w) = 1 .. Len(lines(w))
    BY <1>2
  <2> QED
    BY <1>1, <1>3, <2>1 DEF Lists
<1>6. ASSUME NEW w \in Workers, NEW x \in Workers,
             NEW i \in DOMAIN shard(w), NEW j \in DOMAIN shard(x), shard(w)[i] = shard(x)[j]
      PROVE  w = x /\ i = j
  <2>1. list[lines(w)[i]] = list[lines(x)[j]] /\ i \in DOMAIN lines(w) /\ j \in DOMAIN lines(x)
    BY <1>6
  <2>2. lines(w)[i] = lines(x)[j]
    BY <1>3, <2>1
  <2>3. w = x
    BY <1>3, <2>1, <2>2
  <2> QED
    BY <1>2, <2>1, <2>2, <2>3
<1> QED
  BY <1>4, <1>5, <1>6

\* What Append and Tail do to the elements of a list.
LEMMA RangeFacts ==
    ASSUME NEW list \in Lists
    PROVE  /\ \A s \in Segs : Range(Append(list, s)) = Range(list) \cup {s}
           /\ list # <<>> => /\ Range(list) = {Head(list)} \cup Range(Tail(list))
                             /\ Head(list) \in Segs /\ Tail(list) \in Lists
<1>1. ASSUME NEW s \in Segs PROVE Range(Append(list, s)) = Range(list) \cup {s}
  <2>1. /\ Len(list) \in Nat /\ DOMAIN list = 1 .. Len(list)
        /\ DOMAIN Append(list, s) = 1 .. Len(list) + 1
        /\ \A k \in 1 .. Len(list) : Append(list, s)[k] = list[k]
        /\ Append(list, s)[Len(list) + 1] = s
    BY AppendProperties DEF Lists
  <2> QED
    BY <2>1 DEF Range
<1>2. ASSUME list # <<>>
      PROVE  Range(list) = {Head(list)} \cup Range(Tail(list))
  <2>1. /\ Len(list) \in Nat \ {0} /\ DOMAIN list = 1 .. Len(list) /\ Head(list) = list[1]
        /\ DOMAIN Tail(list) = 1 .. Len(list) - 1
        /\ \A k \in 1 .. Len(list) - 1 : Tail(list)[k] = list[k + 1]
    BY <1>2 DEF Lists
  <2>2. ASSUME NEW k \in DOMAIN list PROVE list[k] \in {Head(list)} \cup Range(Tail(list))
    <3>1. k = 1 \/ (k - 1 \in DOMAIN Tail(list) /\ list[k] = Tail(list)[k - 1])
      BY <2>1
    <3> QED
      BY <2>1, <3>1 DEF Range
  <2>3. ASSUME NEW k \in DOMAIN Tail(list) PROVE Tail(list)[k] \in Range(list)
    <3>1. k + 1 \in DOMAIN list
      BY <2>1
    <3> QED
      BY <2>1, <3>1 DEF Range
  <2> QED
    BY <2>1, <2>2, <2>3 DEF Range
<1> QED
  BY <1>1, <1>2, HeadTailProperties DEF Lists

----------------------------------------------------------------------------
(* The invariant. *)

\* A step that touches neither the ground truth nor the workers.
LEMMA WorkersKept ==
    ASSUME Shares, Hands, UNCHANGED <<gt, todo, doing, open>>
    PROVE  Shares' /\ Hands'
  BY DEF Shares, OneWriter, Hands

\* A step that touches none of the lists, and takes no ground truth away.
LEMMA ListsKept ==
    ASSUME TypeOK, ListedIsUsable, PairsMatch, UNCHANGED <<vcache, pcache, train, val>>,
           \A s \in Segs : Usable(s) => Usable(s)'
    PROVE  ListedIsUsable' /\ PairsMatch'
<1>1. \A list \in {vcache, pcache, train.videos, train.plans} \ {NoCache} : Range(list) \subseteq Segs
  BY RangeOfSeq DEF TypeOK, Lists
<1>2. ListedIsUsable'
  BY <1>1 DEF ListedIsUsable
<1> QED
  BY <1>2 DEF PairsMatch

\* The lists that are empty hold nothing unusable.
LEMMA EmptyRange == Range(<<>>) = {} /\ <<>> \in Lists /\ NoCache \notin Lists /\ NoCache # <<>>
  BY DEF Range, Lists, NoCache, Segs

\* New shards are only made when nothing is in a worker's hands.
LEMMA StartWorkersShares ==
    ASSUME IInv, stage \in {"all", "grow"}, NEW list \in Lists, NEW n,
           \A i, j \in DOMAIN list : list[i] = list[j] => i = j,
           StartWorkers(list, n), UNCHANGED <<gt, doing, open>>
    PROVE  /\ shards' \in [Workers -> Lists] /\ todo' \in [Workers -> Lists]
           /\ Shares' /\ Hands'
<1>1. doing = Idle /\ open = NoneOpen
  BY DEF IInv, Quiet
<1>2. todo' = Deal(list, n) /\ shards' = Deal(list, n)
  BY DEF StartWorkers
<1>3. Shares'
  BY <1>1, <1>2, DealProperties DEF Shares, OneWriter, Idle
<1>4. Hands'
  BY <1>1 DEF IInv, Hands
<1> QED
  BY <1>2, <1>3, <1>4, DealProperties

LEMMA InitIInv == Init => IInv
<1> SUFFICES ASSUME Init PROVE IInv
  OBVIOUS
<1> USE VolumeAssumption, EmptyRange DEF Init
<1>1. TypeOK /\ AtArchive
  BY DEF TypeOK, AtArchive, NoWork, Idle, Empty
<1>2. Quiet /\ Shares /\ Hands
  BY DEF Quiet, NoneOpen, Shares, OneWriter, Hands, NoWork, Idle
<1>3. ListedIsUsable /\ PairsMatch
  BY DEF ListedIsUsable, PairsMatch, Empty
<1>4. Caches /\ Covered
  BY DEF Caches, Covered
<1> QED
  BY <1>1, <1>2, <1>3, <1>4 DEF IInv

\* A run begins, the script goes through its steps before the training, or the pod is lost.
LEMMA ScriptKeeps ==
    ASSUME IInv, \/ Begin \/ Crash \/ Dataset \/ ArchiveMissing \/ UnzipOpen \/ UnzipClose
                 \/ Wait \/ DropVideos \/ DropPlans
    PROVE  IInv'
<1> USE VolumeAssumption DEF IInv, volume, work, trainer, script, GoTo
<1>1. CASE Begin
  <2>1. TypeOK' /\ AtArchive' /\ Quiet'
    BY <1>1, EmptyRange DEF Begin, TypeOK, AtArchive, Quiet, Empty
  <2>2. Shares' /\ Hands'
    BY <1>1, WorkersKept DEF Begin
  <2>3. ListedIsUsable' /\ PairsMatch'
    BY <1>1, EmptyRange DEF Begin, ListedIsUsable, PairsMatch, Empty, Usable
  <2>4. Caches' /\ Covered'
    BY <1>1 DEF Begin, Caches, Covered
  <2> QED
    BY <2>1, <2>2, <2>3, <2>4
<1>2. CASE Crash
  <2>1. TypeOK' /\ AtArchive' /\ Quiet'
    BY <1>2, EmptyRange DEF Crash, TypeOK, AtArchive, Quiet, NoWork, Idle, NoneOpen
  <2>2. Shares' /\ Hands'
    BY <1>2 DEF Crash, Shares, OneWriter, Hands, NoWork, Idle
  <2>3. ListedIsUsable' /\ PairsMatch'
    BY <1>2, ListsKept DEF Crash, Usable
  <2>4. Caches' /\ Covered'
    BY <1>2 DEF Crash, Caches, Covered
  <2> QED
    BY <2>1, <2>2, <2>3, <2>4
<1>3. CASE Dataset \/ ArchiveMissing \/ UnzipOpen \/ UnzipClose
  <2> USE DEF Dataset, ArchiveMissing, UnzipOpen, UnzipClose, NextArchive
  <2>1. TypeOK' /\ AtArchive' /\ Quiet'
    <3>1. vid' \in [Segs -> {"none", "torn", "whole"}]
      BY <1>3 DEF TypeOK
    <3>2. pos' \in 1 .. NumSegs + 1 /\ AtArchive'
      BY <1>3 DEF TypeOK, AtArchive
    <3>3. Quiet'
      BY <1>3 DEF Quiet
    <3> QED
      BY <1>3, <3>1, <3>2, <3>3 DEF TypeOK
  <2>2. Shares' /\ Hands'
    BY <1>3, WorkersKept
  <2>3. ListedIsUsable' /\ PairsMatch'
    <3>1. \A s \in Segs : vid[s] # "none" => vid'[s] # "none"
      BY <1>3 DEF TypeOK, AtArchive
    <3>2. \A s \in Segs : Usable(s) => Usable(s)'
      BY <1>3, <3>1 DEF Usable
    <3> QED
      BY <1>3, <3>2, ListsKept
  <2>4. Caches' /\ Covered'
    BY <1>3 DEF Caches, Covered
  <2> QED
    BY <2>1, <2>2, <2>3, <2>4
<1>4. CASE Wait
  <2>1. TypeOK' /\ AtArchive'
    BY <1>4 DEF Wait, TypeOK, AtArchive
  <2>2. Quiet'
    <3>1. \A w \in Workers : ~ open[w]
      BY <1>4 DEF Wait, Hands, Idle
    <3>2. open = NoneOpen
      BY <3>1 DEF NoneOpen, TypeOK
    <3> QED
      BY <1>4, <3>2 DEF Wait, Quiet
  <2>3. Shares' /\ Hands'
    BY <1>4, WorkersKept DEF Wait
  <2>4. ListedIsUsable' /\ PairsMatch'
    BY <1>4, ListsKept DEF Wait, Usable
  <2>5. Caches' /\ Covered'
    BY <1>4 DEF Wait, Caches, Covered
  <2> QED
    BY <2>1, <2>2, <2>3, <2>4, <2>5
<1>5. CASE DropVideos \/ DropPlans
  <2> USE DEF DropVideos, DropPlans
  <2>1. TypeOK' /\ AtArchive' /\ Quiet'
    BY <1>5 DEF TypeOK, AtArchive, Quiet
  <2>2. Shares' /\ Hands'
    BY <1>5, WorkersKept
  <2>3. ListedIsUsable' /\ PairsMatch'
    BY <1>5 DEF ListedIsUsable, PairsMatch, Usable
  <2>4. Caches' /\ Covered'
    BY <1>5 DEF Caches, Covered
  <2> QED
    BY <2>1, <2>2, <2>3, <2>4
<1> QED
  BY <1>1, <1>2, <1>3, <1>4, <1>5

\* Ground truth is asked for: the shards are made and the workers start, or not.
LEMMA StartingKeeps ==
    ASSUME IInv, GenAll \/ Grow
    PROVE  IInv'
<1> USE VolumeAssumption DEF IInv, GoTo
<1> DEFINE new == Listed(WithoutGt)
           n == Min({Count, Len(new)})
           some == SubSeq(new, 1, n)
<1>1. /\ Listed(WithVideo) \in Lists
      /\ \A i, j \in DOMAIN Listed(WithVideo) : Listed(WithVideo)[i] = Listed(WithVideo)[j] => i = j
  BY ListedSegments DEF WithVideo
<1>2. new \in Lists /\ \A i, j \in DOMAIN new : new[i] = new[j] => i = j
  BY ListedSegments DEF WithoutGt, WithVideo
<1>3. some \in Lists /\ \A i, j \in DOMAIN some : some[i] = some[j] => i = j
  <2> HIDE DEF new
  <2>1. Len(new) \in Nat /\ \A i \in 1 .. Len(new) : new[i] \in Segs
    BY <1>2 DEF Lists
  <2>2. n \in Nat /\ n <= Len(new)
    <3>1. \E x \in {Count, Len(new)} : \A y \in {Count, Len(new)} : x <= y
      BY <2>1
    <3> QED
      BY <2>1, <3>1 DEF Min
  <2> HIDE DEF n
  <2>3. /\ some \in Seq(Segs) /\ Len(some) = n
        /\ \A i \in 1 .. n : some[i] = new[i]
    <3>1. n \in Int /\ 1 \in Int /\ \A i \in 1 .. n : new[i] \in Segs
      BY <2>1, <2>2
    <3>2. /\ some \in Seq(Segs) /\ Len(some) = (IF 1 <= n THEN n - 1 + 1 ELSE 0)
          /\ \A i \in 1 .. n - 1 + 1 : some[i] = new[1 + i - 1]
      BY <3>1, SubSeqProperties
    <3>3. n - 1 + 1 = n /\ \A i \in 1 .. n : 1 + i - 1 = i
      BY <2>2
    <3>4. Len(some) = n
      BY <2>2, <3>2
    <3>5. \A i \in 1 .. n : some[i] = new[i]
      BY <3>2, <3>3
    <3> QED
      BY <3>2, <3>4, <3>5
  <2>4. DOMAIN some = 1 .. n /\ \A i \in 1 .. n : i \in DOMAIN new
    BY <1>2, <2>1, <2>2, <2>3 DEF Lists
  <2> HIDE DEF some
  <2> QED
    BY <1>2, <2>3, <2>4 DEF Lists
<1> HIDE DEF new, some, n
<1>4. /\ shards' \in [Workers -> Lists] /\ todo' \in [Workers -> Lists]
      /\ Shares' /\ Hands' /\ Quiet'
  <2>1. CASE UNCHANGED <<shards, todo>> /\ stage' \notin {"generating", "growing"}
    <3>1. Quiet'
      BY <2>1 DEF GenAll, Grow, Quiet
    <3> QED
      BY <2>1, <3>1, WorkersKept DEF GenAll, Grow, TypeOK
  <2>2. CASE stage' \in {"generating", "growing"} /\ StartWorkers(Listed(WithVideo), ParAll)
    BY <1>1, <2>2, StartWorkersShares DEF GenAll, Grow, Quiet
  <2>3. CASE stage' \in {"generating", "growing"} /\ StartWorkers(some, ParGrow)
    BY <1>3, <2>3, StartWorkersShares DEF GenAll, Grow, Quiet
  <2> QED
    BY <2>1, <2>2, <2>3 DEF GenAll, Grow, new, some, n
<1>5. UNCHANGED <<vid, gt, vcache, pcache, doing, open, trainer, run, args, pos>>
  BY DEF GenAll, Grow
<1>6. /\ stage \in {"all", "grow"} /\ stage' \in {"generating", "grow", "growing", "dropvideos", "train"}
      /\ stage' = "train" => ~ args.grow
  BY DEF GenAll, Grow
<1>7. TypeOK' /\ AtArchive'
  BY <1>4, <1>5, <1>6 DEF TypeOK, AtArchive, trainer
<1>8. ListedIsUsable' /\ PairsMatch'
  BY <1>5, ListsKept DEF Usable, trainer
<1>9. Caches' /\ Covered'
  BY <1>5, <1>6 DEF Caches, Covered, trainer
<1> QED
  BY <1>4, <1>7, <1>8, <1>9

\* A worker takes a segment, opens its file, closes it, or dies.
LEMMA WorkerKeeps ==
    ASSUME IInv, NEW w \in Workers, Take(w) \/ Open(w) \/ Close(w) \/ Die(w)
    PROVE  IInv'
<1> USE DEF IInv
<1>1. stage \in {"generating", "growing"}
  <2>1. doing[w] # 0 \/ todo[w] # <<>>
    BY DEF Take, Open, Close, Die, Hands
  <2> QED
    BY <2>1 DEF Quiet, Idle, NoWork
<1>2. UNCHANGED <<vid, shards, vcache, pcache, trainer, script>>
  BY DEF Take, Open, Close, Die, volume
<1>3. AtArchive' /\ Quiet' /\ Caches' /\ Covered'
  BY <1>1, <1>2 DEF AtArchive, Quiet, Caches, Covered, trainer, script
<1>4. CASE Take(w)
  <2>1. /\ todo[w] \in Lists /\ todo[w] # <<>>
        /\ todo' = [todo EXCEPT ![w] = Tail(@)]
        /\ Head(todo[w]) \in Segs /\ Tail(todo[w]) \in Lists
        /\ UNCHANGED <<gt, open>> /\ doing[w] = 0
    BY <1>4, RangeFacts DEF Take, TypeOK, volume
  <2>2. doing' = doing \/ (gt[Head(todo[w])] = "none" /\ doing' = [doing EXCEPT ![w] = Head(todo[w])])
    BY <1>4 DEF Take
  <2>3. TypeOK'
    BY <1>2, <2>1, <2>2 DEF TypeOK, trainer, script
  <2>4. /\ Len(todo[w]) \in Nat \ {0} /\ DOMAIN todo[w] = 1 .. Len(todo[w])
        /\ Head(todo[w]) = todo[w][1]
        /\ DOMAIN Tail(todo[w]) = 1 .. Len(todo[w]) - 1
        /\ \A k \in 1 .. Len(todo[w]) - 1 : Tail(todo[w])[k] = todo[w][k + 1]
    BY <2>1 DEF Lists
  <2>5. \A x \in Workers : x # w => todo'[x] = todo[x]
    BY <2>1 DEF TypeOK
  <2>6. todo'[w] = Tail(todo[w])
    BY <2>1 DEF TypeOK
  <2>7. ASSUME NEW x \in Workers, NEW i \in DOMAIN todo'[x]
        PROVE  \E k \in DOMAIN todo[x] : /\ k = IF x = w THEN i + 1 ELSE i
                                         /\ todo'[x][i] = todo[x][k]
    <3>1. CASE x = w
      <4>1. i \in 1 .. Len(todo[w]) - 1
        BY <2>4, <2>6, <3>1
      <4>2. todo'[x][i] = Tail(todo[w])[i]
        BY <2>6, <3>1
      <4>3. i + 1 \in DOMAIN todo[w] /\ Tail(todo[w])[i] = todo[w][i + 1]
        BY <2>4, <4>1
      <4> QED
        BY <3>1, <4>2, <4>3
    <3>2. CASE x # w
      BY <2>5, <3>2
    <3> QED
      BY <3>1, <3>2
  <2>8. \A x, y \in Workers : \A i \in DOMAIN todo'[x], j \in DOMAIN todo'[y] :
           todo'[x][i] = todo'[y][j] => x = y /\ i = j
    <3> SUFFICES ASSUME NEW x \in Workers, NEW y \in Workers, NEW i \in DOMAIN todo'[x],
                        NEW j \in DOMAIN todo'[y], todo'[x][i] = todo'[y][j]
                 PROVE  x = y /\ i = j
      OBVIOUS
    <3>1. PICK k \in DOMAIN todo[x] : k = (IF x = w THEN i + 1 ELSE i) /\ todo'[x][i] = todo[x][k]
      BY <2>7
    <3>2. PICK l \in DOMAIN todo[y] : l = (IF y = w THEN j + 1 ELSE j) /\ todo'[y][j] = todo[y][l]
      BY <2>7
    <3>3. x = y /\ k = l
      <4>1. todo[x][k] = todo[y][l]
        BY <3>1, <3>2
      <4> QED
        BY <4>1 DEF Shares
    <3>4. i \in Nat /\ j \in Nat
      <4>1. todo'[x] \in Seq(Segs) /\ todo'[y] \in Seq(Segs)
        BY <2>3 DEF TypeOK, Lists
      <4> QED
        BY <4>1
    <3> QED
      BY <3>1, <3>2, <3>3, <3>4
  <2>9. \A x \in Workers : Range(todo'[x]) \subseteq Range(todo[x])
    BY <2>7 DEF Range
  <2>10. Head(todo[w]) \in Range(todo[w]) /\ \A x \in Workers : Head(todo[w]) \notin Range(todo'[x])
    <3>1. 1 \in DOMAIN todo[w]
      BY <2>4
    <3>2. ASSUME NEW x \in Workers, NEW i \in DOMAIN todo'[x], todo'[x][i] = todo[w][1] PROVE FALSE
      <4>1. PICK k \in DOMAIN todo[x] : k = (IF x = w THEN i + 1 ELSE i) /\ todo'[x][i] = todo[x][k]
        BY <2>7
      <4>2. x = w /\ k = 1
        <5>1. todo[x][k] = todo[w][1]
          BY <3>2, <4>1
        <5> QED
          BY <3>1, <5>1 DEF Shares
      <4>3. i \in 1 .. Len(todo[w]) - 1
        BY <2>4, <2>6, <4>2
      <4> QED
        BY <2>4, <4>1, <4>2, <4>3
    <3> QED
      BY <2>4, <3>1, <3>2 DEF Range
  <2>11. Shares'
    <3>1. \A x \in Workers : doing'[x] = doing[x] \/ (x = w /\ doing'[x] = Head(todo[w]))
      BY <2>2 DEF TypeOK
    <3>2. \A x, y \in Workers : doing'[x] # 0 => doing'[x] \notin Range(todo'[y])
      BY <2>9, <2>10, <3>1 DEF Shares
    <3>3. \A x \in Workers : doing[x] # 0 => doing[x] # Head(todo[w])
      BY <2>10 DEF Shares
    <3>4. OneWriter'
      BY <3>1, <3>3 DEF Shares, OneWriter
    <3> QED
      BY <2>8, <3>2, <3>4 DEF Shares
  <2>12. Hands'
    BY <2>1, <2>2 DEF Hands, TypeOK
  <2>13. ListedIsUsable' /\ PairsMatch'
    BY <1>2, <2>1, ListsKept DEF Usable, trainer
  <2> QED
    BY <1>3, <2>3, <2>11, <2>12, <2>13
<1>5. CASE Open(w)
  <2>1. TypeOK'
    BY <1>2, <1>5 DEF Open, TypeOK, trainer, script
  <2>2. doing[w] \in Segs /\ gt[doing[w]] = "none" /\ gt' = [gt EXCEPT ![doing[w]] = "broken"]
    BY <1>5 DEF Open, Hands, TypeOK
  <2>3. Shares'
    BY <1>5 DEF Open, Shares, OneWriter
  <2>4. Hands'
    BY <1>5, <2>2 DEF Open, Hands, Shares, OneWriter, TypeOK
  <2>5. \A s \in Segs : Usable(s) => Usable(s)'
    BY <1>5, <2>2 DEF Open, Usable, TypeOK
  <2>6. ListedIsUsable' /\ PairsMatch'
    BY <1>2, <2>5, ListsKept DEF trainer
  <2> QED
    BY <1>3, <2>1, <2>3, <2>4, <2>6
<1>6. CASE Close(w)
  <2>1. TypeOK'
    <3>1. PICK outcome \in {"ready", "short", "headless", "broken"} :
             gt' = [gt EXCEPT ![doing[w]] = outcome]
      BY <1>6 DEF Close
    <3>2. gt' \in [Segs -> {"none", "broken", "short", "headless", "ready"}]
      BY <3>1 DEF TypeOK
    <3> QED
      BY <1>2, <1>6, <3>2 DEF Close, TypeOK, trainer, script
  <2>2. doing[w] \in Segs /\ gt[doing[w]] = "broken"
    BY <1>6 DEF Close, Hands, TypeOK
  <2>3. PICK outcome : gt' = [gt EXCEPT ![doing[w]] = outcome]
    BY <1>6 DEF Close
  <2>4. Shares'
    BY <1>6 DEF Close, Shares, OneWriter, TypeOK
  <2>5. Hands'
    BY <1>6, <2>2, <2>3 DEF Close, Hands, Shares, OneWriter, TypeOK
  <2>6. \A s \in Segs : Usable(s) => Usable(s)'
    BY <1>6, <2>2, <2>3 DEF Close, Usable, TypeOK
  <2>7. ListedIsUsable' /\ PairsMatch'
    BY <1>2, <2>6, ListsKept DEF trainer
  <2> QED
    BY <1>3, <2>1, <2>4, <2>5, <2>7
<1>7. CASE Die(w)
  <2>1. TypeOK'
    BY <1>2, <1>7, EmptyRange DEF Die, TypeOK, volume, trainer, script
  <2>2. \A x \in Workers : /\ doing'[x] \in {doing[x], 0}
                           /\ todo'[x] \in {todo[x], <<>>}
    BY <1>7 DEF Die, TypeOK
  <2>3. Shares'
    BY <2>2, EmptyRange DEF Shares, OneWriter
  <2>4. Hands'
    BY <1>7 DEF Die, Hands, TypeOK, volume
  <2>5. ListedIsUsable' /\ PairsMatch'
    BY <1>2, <1>7, ListsKept DEF Die, Usable, trainer, volume
  <2> QED
    BY <1>3, <2>1, <2>3, <2>4, <2>5
<1> QED
  BY <1>4, <1>5, <1>6, <1>7

\* train.py finds the cache in place, or builds it; the second dataset takes it over.
LEMMA TrainerKeeps ==
    ASSUME IInv, TrainerStep
    PROVE  IInv'
<1> USE DEF IInv, GoTo, volume, work, trainer
<1>1. /\ UNCHANGED <<vid, gt, shards, todo, doing, open, run, args, pos>>
      /\ stage \notin {"generating", "growing"}
      /\ stage' \notin {"dataset", "unzip", "generating", "growing"}
  BY DEF TrainerStep, GetPaths, TruncateVideos, TruncatePlans, Scan, ScanPlan, ScanEnds,
         LoadVal, Fit, script
<1>2. AtArchive' /\ Quiet' /\ Shares' /\ Hands'
  BY <1>1, WorkersKept DEF AtArchive, Quiet
<1>3. \A s \in Segs : Usable(s)' = Usable(s)
  BY <1>1 DEF Usable
<1>4. CASE GetPaths
  <2>1. CASE ~ args.train \/ Cached
    <3>1. TypeOK'
      BY <1>1, <1>4, <2>1 DEF GetPaths, TypeOK, Cached
    <3>2. ListedIsUsable'
      BY <1>1, <1>4, <2>1 DEF GetPaths, ListedIsUsable, Usable, Cached
    <3>3. PairsMatch'
      BY <1>4, <2>1 DEF GetPaths, PairsMatch, Cached
    <3>4. Caches' /\ Covered'
      BY <1>1, <1>4, <2>1 DEF GetPaths, Caches, Covered, Cached
    <3> QED
      BY <1>2, <3>1, <3>2, <3>3, <3>4
  <2>2. CASE args.train /\ ~ Cached
    <3>1. rest' \in Lists /\ Range(rest') = WithGt
      BY <1>4, <2>2, ListedSegments DEF GetPaths, WithGt
    <3>2. TypeOK'
      BY <1>1, <1>4, <2>2, <3>1 DEF GetPaths, TypeOK
    <3>3. ListedIsUsable' /\ PairsMatch'
      BY <1>3, <1>4, <2>2, ListsKept DEF GetPaths
    <3>4. Caches' /\ Covered'
      BY <1>1, <1>4, <2>2, <3>1 DEF GetPaths, Caches, Covered, Usable, WithGt
    <3> QED
      BY <1>2, <3>2, <3>3, <3>4
  <2> QED
    BY <2>1, <2>2
<1>5. CASE TruncateVideos \/ TruncatePlans
  <2> USE DEF TruncateVideos, TruncatePlans
  <2>1. TypeOK'
    BY <1>1, <1>5, EmptyRange DEF TypeOK
  <2>2. ListedIsUsable'
    BY <1>1, <1>5, EmptyRange DEF ListedIsUsable, Usable
  <2>3. PairsMatch'
    BY <1>5, EmptyRange DEF PairsMatch
  <2>4. Caches' /\ Covered'
    BY <1>1, <1>5, EmptyRange DEF Caches, Covered, Usable, Empty
  <2> QED
    BY <1>2, <2>1, <2>2, <2>3, <2>4
<1>6. CASE Scan
  <2>1. /\ rest # <<>> /\ Head(rest) \in Segs /\ Tail(rest) \in Lists
        /\ Range(rest) = {Head(rest)} \cup Range(Tail(rest))
        /\ vcache \in Lists /\ train = [videos |-> vcache, plans |-> vcache] /\ pcache = vcache
    BY <1>6, RangeFacts DEF Scan, Caches, TypeOK
  <2>2. CASE Usable(Head(rest))
    <3>1. /\ vcache' = Append(vcache, Head(rest)) /\ stage' = "plan"
          /\ train' = [videos |-> vcache', plans |-> pcache]
          /\ vcache' \in Lists /\ Range(vcache') = Range(vcache) \cup {Head(rest)}
          /\ UNCHANGED <<pcache, rest, val>>
      <4>1. /\ vcache' = Append(vcache, Head(rest)) /\ stage' = "plan"
            /\ train' = [train EXCEPT !.videos = Append(@, Head(rest))]
            /\ UNCHANGED <<pcache, rest, val>>
        BY <1>6, <2>2 DEF Scan
      <4>2. vcache' \in Lists /\ Range(vcache') = Range(vcache) \cup {Head(rest)}
        BY <2>1, <4>1, RangeFacts, AppendProperties DEF Lists
      <4> QED
        BY <2>1, <4>1, <4>2
    <3>2. TypeOK'
      BY <1>1, <2>1, <3>1 DEF TypeOK
    <3>3. ListedIsUsable'
      BY <1>1, <2>1, <2>2, <3>1, EmptyRange DEF ListedIsUsable, Usable
    <3>4. PairsMatch'
      <4>1. \A i \in DOMAIN vcache' \cap DOMAIN pcache : vcache'[i] = pcache[i]
        BY <2>1, <3>1, AppendProperties, LenProperties DEF Lists
      <4>2. NoCache \notin {val.videos, val.plans} =>
               \A i \in DOMAIN val.videos \cap DOMAIN val.plans : val.videos[i] = val.plans[i]
        BY DEF PairsMatch
      <4>3. \A pair \in {[videos |-> vcache', plans |-> pcache'], train', val'} :
               pair = [videos |-> vcache', plans |-> pcache] \/ pair = val
        BY <3>1
      <4> QED
        BY <4>1, <4>2, <4>3 DEF PairsMatch
    <3>5. Caches' /\ Covered'
      BY <1>1, <1>6, <2>1, <3>1 DEF Scan, Caches, Covered, Usable
    <3> QED
      BY <1>2, <3>2, <3>3, <3>4, <3>5
  <2>3. CASE ~ Usable(Head(rest))
    <3>1. rest' = Tail(rest) /\ UNCHANGED <<vcache, pcache, train, val, stage>>
      BY <1>6, <2>3 DEF Scan, script
    <3>2. TypeOK'
      BY <1>1, <2>1, <3>1 DEF TypeOK
    <3>3. ListedIsUsable' /\ PairsMatch'
      BY <1>3, <3>1, ListsKept
    <3>4. Caches' /\ Covered'
      BY <1>1, <1>6, <2>1, <2>3, <3>1 DEF Scan, Caches, Covered, Usable
    <3> QED
      BY <1>2, <3>2, <3>3, <3>4
  <2> QED
    BY <2>2, <2>3
<1>7. CASE ScanPlan
  <2>1. /\ rest # <<>> /\ Head(rest) \in Segs /\ Tail(rest) \in Lists
        /\ Range(rest) = {Head(rest)} \cup Range(Tail(rest))
        /\ pcache \in Lists /\ vcache = Append(pcache, Head(rest)) /\ vcache \in Lists
        /\ Range(vcache) = Range(pcache) \cup {Head(rest)}
        /\ train = [videos |-> vcache, plans |-> pcache]
    <3>1. /\ rest # <<>> /\ rest \in Lists /\ pcache \in Lists
          /\ vcache = Append(pcache, Head(rest))
          /\ train = [videos |-> vcache, plans |-> pcache]
      BY <1>7 DEF ScanPlan, Caches, TypeOK
    <3>2. /\ Head(rest) \in Segs /\ Tail(rest) \in Lists
          /\ Range(rest) = {Head(rest)} \cup Range(Tail(rest))
      BY <3>1, RangeFacts
    <3>3. vcache \in Lists /\ Range(vcache) = Range(pcache) \cup {Head(rest)}
      BY <3>1, <3>2, RangeFacts, AppendProperties DEF Lists
    <3> QED
      BY <3>1, <3>2, <3>3
  <2>2. /\ pcache' = vcache /\ train' = [videos |-> vcache, plans |-> vcache]
        /\ rest' = Tail(rest) /\ stage' = "scan" /\ UNCHANGED <<vcache, val>>
    BY <1>7, <2>1 DEF ScanPlan
  <2>3. TypeOK'
    BY <1>1, <2>1, <2>2 DEF TypeOK
  <2>4. ListedIsUsable'
    BY <1>1, <2>1, <2>2, EmptyRange DEF ListedIsUsable, Usable
  <2>5. PairsMatch'
    BY <2>2 DEF PairsMatch
  <2>6. Caches' /\ Covered'
    BY <1>1, <1>7, <2>1, <2>2 DEF ScanPlan, Caches, Covered, Usable
  <2> QED
    BY <1>2, <2>3, <2>4, <2>5, <2>6
<1>8. CASE ScanEnds
  <2>1. TypeOK'
    BY <1>1, <1>8 DEF ScanEnds, TypeOK
  <2>2. ListedIsUsable' /\ PairsMatch'
    BY <1>3, <1>8, ListsKept DEF ScanEnds
  <2>3. Caches' /\ Covered'
    BY <1>1, <1>8, EmptyRange DEF ScanEnds, Caches, Covered, Current, Usable
  <2> QED
    BY <1>2, <2>1, <2>2, <2>3
<1>9. CASE LoadVal \/ Fit
  <2> USE DEF LoadVal, Fit
  <2>1. TypeOK'
    BY <1>1, <1>9 DEF TypeOK, Caches
  <2>2. ListedIsUsable'
    BY <1>1, <1>9 DEF ListedIsUsable, Usable
  <2>3. PairsMatch'
    BY <1>9 DEF PairsMatch
  <2>4. Caches' /\ Covered'
    BY <1>1, <1>9 DEF Caches, Covered, Current, Usable
  <2> QED
    BY <1>2, <2>1, <2>2, <2>3, <2>4
<1> QED
  BY <1>4, <1>5, <1>6, <1>7, <1>8, <1>9 DEF TrainerStep

----------------------------------------------------------------------------

\* The invariant holds, whatever crashes and in whatever order workers and runs go.
THEOREM Invariance == Spec => []IInv
<1>1. IInv /\ [Next]_vars => IInv'
  <2> SUFFICES ASSUME IInv, [Next]_vars PROVE IInv'
    OBVIOUS
  <2>1. CASE TrainerStep
    BY <2>1, TrainerKeeps
  <2>2. CASE WorkerStep
    BY <2>2, WorkerKeeps DEF WorkerStep
  <2>3. CASE GenAll \/ Grow
    BY <2>3, StartingKeeps
  <2>4. CASE \/ Begin \/ Crash \/ Dataset \/ ArchiveMissing \/ UnzipOpen \/ UnzipClose
             \/ Wait \/ DropVideos \/ DropPlans
    BY <2>4, ScriptKeeps
  <2>5. CASE UNCHANGED vars
    BY <2>5 DEF vars, volume, work, trainer, script, IInv, TypeOK, AtArchive, Quiet, Shares,
            OneWriter, Hands, ListedIsUsable, Usable, Caches, PairsMatch, Covered, Current
  <2> QED
    BY <2>1, <2>2, <2>3, <2>4, <2>5 DEF Next, Step
<1> QED
  BY <1>1, InitIInv, PTL DEF Spec

\* Every variable keeps its type.
THEOREM TypeCorrect == Spec => []TypeOK
<1>1. IInv => TypeOK
  BY DEF IInv
<1> QED
  BY <1>1, Invariance, PTL

\* No ground truth is written by two workers (launch_runpod_training.py:290-291, 328-329).
THEOREM GroundTruthHasOneWriter == Spec => []OneWriter
<1>1. IInv => OneWriter
  BY DEF IInv, Shares
<1> QED
  BY <1>1, Invariance, PTL

\* What the cache or a dataset lists has plans that can be read and are long enough, and a
\* video file, after any crash (dataloader.py:346-359); plans_prob may be missing, and the
\* video may be torn.
THEOREM ListsAreUsable == Spec => []ListedIsUsable
<1>1. IInv => ListedIsUsable
  BY DEF IInv
<1> QED
  BY <1>1, Invariance, PTL

\* Videos and ground truths match line by line (dataloader.py:242-244).
THEOREM ListsMatch == Spec => []PairsMatch
<1>1. IInv => PairsMatch
  BY DEF IInv
<1> QED
  BY <1>1, Invariance, PTL

\* Training and validation split the same list (dataloader.py:205-218).
THEOREM DatasetsAgree == Spec => []SplitsAgree
<1>1. IInv => SplitsAgree
  BY DEF IInv, Caches, SplitsAgree
<1> QED
  BY <1>1, Invariance, PTL

\* A run that grows the set trains on all of it (launch_runpod_training.py:338-339).
THEOREM GrowthIsUsed == Spec => []GrownRunTrainsOnAll
<1>1. IInv => GrownRunTrainsOnAll
  BY DEF IInv, Covered, GrownRunTrainsOnAll
<1> QED
  BY <1>1, Invariance, PTL

=============================================================================
