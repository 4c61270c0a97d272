---------------------------- MODULE DatasetVolume ----------------------------
(***************************************************************************)
(* The dataset on the network volume over several training runs: the steps *)
(* 7, 9 and 9b of launch_runpod_training.py's script, the ground-truth     *)
(* workers it starts (gt_distill/generate_gt.py), and the cache of paths   *)
(* that CommaDataset (train/dataloader.py) builds and reuses.  All of it   *)
(* is plain files, written in several steps and never locked, on a pod     *)
(* that may vanish at any of them.                                         *)
(*                                                                         *)
(* Abstractions.  Every archive holds one segment.  A ground-truth file is *)
(* what a reader can make of it: broken (cannot be opened, or without      *)
(* plans), headless (plans without plans_prob), short (fewer plans than    *)
(* min_segment_len), ready.  A path is its segment.  calib.h5, which only  *)
(* previews read, is left out.  One pod at a time has the volume.          *)
(***************************************************************************)
EXTENDS Naturals, SequencesExt

CONSTANTS NumSegs,      \* segments of the dataset, in the order of their paths
          ParAll,       \* ground-truth workers in step 9
          ParGrow,      \* in step 9b
          Count,        \* --gen-gt-count
          MayCrash,     \* whether a pod may vanish
          Runs          \* bound on the runs

ASSUME VolumeAssumption ==
    /\ NumSegs \in Nat \ {0} /\ Runs \in Nat /\ MayCrash \in BOOLEAN
    /\ ParAll \in Nat \ {0} /\ ParGrow \in Nat \ {0} /\ Count \in Nat \ {0}

Segs == 1 .. NumSegs
Workers == 0 .. (IF ParAll > ParGrow THEN ParAll ELSE ParGrow) - 1

VARIABLES
  vid, gt,          \* segment -> state of its video.hevc, of its gt_distill.h5
  shards,           \* gt_shards/s_<w>.txt
  vcache, pcache,   \* cache/videos.txt, cache/plans.txt
  stage, run, args, \* where the script is, which run this is, what was asked for
  pos,              \* the archive that step 7 is at
  todo, doing, open,    \* per worker: segments to do, the one at hand, its file open
  rest,             \* segments get_paths has still to look at
  train, val        \* the lists of the two datasets of train.py

volume == <<vid, gt, shards, vcache, pcache>>
work == <<todo, doing, open>>
trainer == <<rest, train, val>>
script == <<stage, run, args, pos>>
vars == <<volume, work, trainer, script>>

NoCache == <<0>>
Empty == [videos |-> <<>>, plans |-> <<>>]
NoWork == [w \in Workers |-> <<>>]
Idle == [w \in Workers |-> 0]

Init == /\ vid = [s \in Segs |-> "none"] /\ gt = [s \in Segs |-> "none"]
        /\ shards = NoWork /\ vcache = NoCache /\ pcache = NoCache
        /\ stage = "over" /\ run = 0 /\ pos = 1
        /\ args = [all |-> FALSE, grow |-> FALSE, train |-> FALSE]
        /\ todo = NoWork /\ doing = Idle /\ open = [w \in Workers |-> FALSE]
        /\ rest = <<>> /\ train = Empty /\ val = Empty

\* A run: --gen-gt, --gen-gt-count and whether it trains (not --gt-only, --convert-only).
Begin == /\ stage = "over" /\ run < Runs
         /\ run' = run + 1
         /\ args' \in [all : BOOLEAN, grow : BOOLEAN, train : BOOLEAN]
         /\ stage' = "dataset" /\ pos' = 1
         /\ rest' = <<>> /\ train' = Empty /\ val' = Empty
         /\ UNCHANGED <<volume, work>>

\* The pod is reclaimed: its processes go, the files stay as they are.
Crash == /\ MayCrash /\ stage # "over"
         /\ stage' = "over"
         /\ todo' = NoWork /\ doing' = Idle /\ open' = [w \in Workers |-> FALSE]
         /\ UNCHANGED <<volume, trainer, run, args, pos>>

GoTo(s) == stage' = s /\ UNCHANGED <<run, args, pos>>

----------------------------------------------------------------------------
(* Step 7: the dataset, unless there is a video.hevc already. *)

Dataset == /\ stage = "dataset"
           /\ GoTo(IF \E s \in Segs : vid[s] # "none" THEN "all" ELSE "unzip")
           /\ UNCHANGED <<volume, work, trainer>>

NextArchive == /\ pos' = pos + 1
               /\ stage' = IF pos = NumSegs THEN "all" ELSE "unzip"
               /\ UNCHANGED <<run, args>>

\* An archive that cannot be downloaded is passed over.
ArchiveMissing == /\ stage = "unzip" /\ vid[pos] = "none"
                  /\ NextArchive
                  /\ UNCHANGED <<volume, work, trainer>>

UnzipOpen == /\ stage = "unzip" /\ vid[pos] = "none"
             /\ vid' = [vid EXCEPT ![pos] = "torn"]
             /\ UNCHANGED <<gt, shards, vcache, pcache, work, trainer, script>>

\* The video is written to its end, or not (the disk is full).
UnzipClose == /\ stage = "unzip" /\ vid[pos] = "torn"
              /\ vid' \in {vid, [vid EXCEPT ![pos] = "whole"]}
              /\ NextArchive
              /\ UNCHANGED <<gt, shards, vcache, pcache, work, trainer>>

----------------------------------------------------------------------------
(* Steps 9 and 9b: ground truth by parallel workers, each with its shard.  *)

\* find ... | sort: a set of numbers in increasing order.
Listed(numbers) ==
    CHOOSE list \in [1 .. Cardinality(numbers) -> numbers] :
       \A i, j \in DOMAIN list : i < j => list[i] < list[j]

\* awk deals line NR to the shard NR % n.
Deal(list, n) ==
    [w \in Workers |->
        LET lines == Listed({i \in DOMAIN list : i % n = w})
        IN  [k \in DOMAIN lines |-> list[lines[k]]]]

\* A mutant: the shards of an earlier run are left in place.
StartWorkersOverOld(list, n) ==
    /\ shards' = [w \in Workers |-> IF Deal(list, n)[w] = <<>> THEN shards[w] ELSE Deal(list, n)[w]]
    /\ todo' = [w \in Workers |-> IF w < n THEN shards'[w] ELSE <<>>]

\* The old shards are removed, the new ones written, a worker started for each.
StartWorkers(list, n) ==
    /\ shards' = Deal(list, n)
    /\ todo' = shards'

WithVideo == {s \in Segs : vid[s] # "none"}
WithoutGt == {s \in WithVideo : gt[s] = "none"}

GenAll == /\ stage = "all"
          /\ IF args.all
             THEN StartWorkers(Listed(WithVideo), ParAll) /\ GoTo("generating")
             ELSE GoTo("grow") /\ UNCHANGED <<shards, todo>>
          /\ UNCHANGED <<vid, gt, vcache, pcache, doing, open, trainer>>

\* A mutant: the cache is dropped only when there was something to generate.
GrowDropsWhenNew ==
    /\ stage = "grow"
    /\ IF ~ args.grow \/ Listed(WithoutGt) = <<>>
       THEN GoTo("train") /\ UNCHANGED <<shards, todo>>
       ELSE /\ StartWorkers(SubSeq(Listed(WithoutGt), 1, Min({Count, Len(Listed(WithoutGt))})), ParGrow)
            /\ GoTo("growing")
    /\ UNCHANGED <<vid, gt, vcache, pcache, doing, open, trainer>>

\* The first Count segments without ground truth.
Grow == LET new == Listed(WithoutGt) IN
        /\ stage = "grow"
        /\ IF args.grow /\ new # <<>>
           THEN StartWorkers(SubSeq(new, 1, Min({Count, Len(new)})), ParGrow) /\ GoTo("growing")
           ELSE /\ GoTo(IF args.grow THEN "dropvideos" ELSE "train")
                /\ UNCHANGED <<shards, todo>>
        /\ UNCHANGED <<vid, gt, vcache, pcache, doing, open, trainer>>

\* generate_ground_truth: nothing to do if the file exists; a torn video may
\* not give a single frame.
Take(w) == /\ doing[w] = 0 /\ todo[w] # <<>>
           /\ LET s == Head(todo[w]) IN
              \/ gt[s] = "none" /\ doing' = [doing EXCEPT ![w] = s]
              \/ (gt[s] # "none" \/ vid[s] = "torn") /\ UNCHANGED doing
           /\ todo' = [todo EXCEPT ![w] = Tail(@)]
           /\ UNCHANGED <<volume, open, trainer, script>>

\* The model has run over the video; the file is removed and created.
Open(w) == /\ doing[w] # 0 /\ ~ open[w]
           /\ gt' = [gt EXCEPT ![doing[w]] = "broken"]
           /\ open' = [open EXCEPT ![w] = TRUE]
           /\ UNCHANGED <<vid, shards, vcache, pcache, todo, doing, trainer, script>>

\* The file is closed: complete, with as many plans as the video had frames,
\* or after an exception, which is printed.
Close(w) == /\ open[w]
            /\ \E outcome \in {"ready", "short", "headless", "broken"} :
                  gt' = [gt EXCEPT ![doing[w]] = outcome]
            /\ doing' = [doing EXCEPT ![w] = 0]
            /\ open' = [open EXCEPT ![w] = FALSE]
            /\ UNCHANGED <<vid, shards, vcache, pcache, todo, trainer, script>>

\* Killed for want of memory, or by an error outside the try.
Die(w) == /\ doing[w] # 0 \/ todo[w] # <<>>
          /\ todo' = [todo EXCEPT ![w] = <<>>]
          /\ doing' = [doing EXCEPT ![w] = 0]
          /\ open' = [open EXCEPT ![w] = FALSE]
          /\ UNCHANGED <<volume, trainer, script>>

\* A mutant: the script waits for a file in every segment.
WaitForFiles == /\ stage \in {"generating", "growing"}
                /\ doing = Idle /\ todo = NoWork
                /\ \A w \in Workers : \A s \in Range(shards[w]) : gt[s] # "none"
                /\ GoTo(IF stage = "generating" THEN "grow" ELSE "dropvideos")
                /\ UNCHANGED <<volume, work, trainer>>

\* The shell waits for its workers, however they ended.
Wait == /\ stage \in {"generating", "growing"}
        /\ doing = Idle /\ todo = NoWork
        /\ GoTo(IF stage = "generating" THEN "grow" ELSE "dropvideos")
        /\ UNCHANGED <<volume, work, trainer>>

\* rm -f removes one cache file after the other.
DropVideos == /\ stage = "dropvideos"
              /\ vcache' = NoCache
              /\ GoTo("dropplans")
              /\ UNCHANGED <<vid, gt, shards, pcache, work, trainer>>

DropPlans == /\ stage = "dropplans"
             /\ pcache' = NoCache
             /\ GoTo("train")
             /\ UNCHANGED <<vid, gt, shards, vcache, work, trainer>>

----------------------------------------------------------------------------
(* Step 10, train.py: get_paths of the training dataset, then of the other. *)

Cached == vcache # NoCache /\ pcache # NoCache
WithGt == {s \in Segs : gt[s] # "none"}

\* It has plans, and enough of them, and a video beside them: neither plans_prob nor the
\* frames of the video are looked at.
Usable(s) == gt[s] \in {"ready", "headless"} /\ vid[s] # "none"

GetPaths == /\ stage = "train"
            /\ IF ~ args.train THEN GoTo("over") /\ UNCHANGED trainer
               ELSE IF Cached THEN /\ train' = [videos |-> vcache, plans |-> pcache]
                                   /\ GoTo("loaded") /\ UNCHANGED <<rest, val>>
                    ELSE rest' = Listed(WithGt) /\ GoTo("truncate") /\ UNCHANGED <<train, val>>
            /\ UNCHANGED <<volume, work>>

TruncateVideos == /\ stage = "truncate"
                  /\ vcache' = <<>>
                  /\ GoTo("truncateplans")
                  /\ UNCHANGED <<vid, gt, shards, pcache, work, trainer>>

\* A mutant: the plans are appended to what is there.
TruncatePlansNot == /\ stage = "truncateplans"
                    /\ pcache' = IF pcache = NoCache THEN <<>> ELSE pcache
                    /\ GoTo("scan")
                    /\ UNCHANGED <<vid, gt, shards, vcache, work, trainer>>

TruncatePlans == /\ stage = "truncateplans"
                 /\ pcache' = <<>>
                 /\ GoTo("scan")
                 /\ UNCHANGED <<vid, gt, shards, vcache, work, trainer>>

\* Mutants: any file will do; the path is cached before the file is read.
ScanTakesAll == /\ stage = "scan" /\ rest # <<>>
                /\ vcache' = Append(vcache, Head(rest))
                /\ train' = [train EXCEPT !.videos = Append(@, Head(rest))]
                /\ GoTo("plan")
                /\ UNCHANGED <<vid, gt, shards, pcache, work, rest, val>>

ScanCachesFirst == /\ stage = "scan" /\ rest # <<>>
                   /\ vcache' = Append(vcache, Head(rest))
                   /\ IF Usable(Head(rest))
                      THEN /\ train' = [train EXCEPT !.videos = Append(@, Head(rest))]
                           /\ GoTo("plan") /\ UNCHANGED rest
                      ELSE rest' = Tail(rest) /\ UNCHANGED <<train, script>>
                   /\ UNCHANGED <<vid, gt, shards, pcache, work, val>>

\* A segment whose file cannot be read or is too short, or that has no video, is left out.
Scan == /\ stage = "scan" /\ rest # <<>>
        /\ LET s == Head(rest) IN
           IF Usable(s) THEN /\ vcache' = Append(vcache, s)
                             /\ train' = [train EXCEPT !.videos = Append(@, s)]
                             /\ GoTo("plan") /\ UNCHANGED rest
                        ELSE rest' = Tail(rest) /\ UNCHANGED <<vcache, train, script>>
        /\ UNCHANGED <<vid, gt, shards, pcache, work, val>>

ScanPlan == /\ stage = "plan"
            /\ pcache' = Append(pcache, Head(rest))
            /\ train' = [train EXCEPT !.plans = Append(@, Head(rest))]
            /\ rest' = Tail(rest)
            /\ GoTo("scan")
            /\ UNCHANGED <<vid, gt, shards, vcache, work, val>>

ScanEnds == /\ stage = "scan" /\ rest = <<>>
            /\ GoTo("loaded")
            /\ UNCHANGED <<volume, work, trainer>>

\* Without a segment train.py ends with an IndexError.  The validation dataset
\* finds the cache in place.
LoadVal == /\ stage = "loaded"
           /\ IF train.videos = <<>> THEN GoTo("over") /\ UNCHANGED val
              ELSE val' = [videos |-> vcache, plans |-> pcache] /\ GoTo("fit")
           /\ UNCHANGED <<volume, work, rest, train>>

Fit == /\ stage = "fit"
       /\ GoTo("over")
       /\ UNCHANGED <<volume, work, trainer>>

----------------------------------------------------------------------------

WorkerStep == \E w \in Workers : Take(w) \/ Open(w) \/ Close(w) \/ Die(w)
TrainerStep == \/ GetPaths \/ TruncateVideos \/ TruncatePlans
               \/ Scan \/ ScanPlan \/ ScanEnds \/ LoadVal \/ Fit
Step == \/ Dataset \/ ArchiveMissing \/ UnzipOpen \/ UnzipClose
        \/ GenAll \/ Grow \/ WorkerStep \/ Wait \/ DropVideos \/ DropPlans
        \/ TrainerStep

Next == Begin \/ Step \/ Crash

Spec == Init /\ [][Next]_vars

\* A pod that is there runs.
FairSpec == Spec /\ WF_vars(Step)

----------------------------------------------------------------------------

Lists == Seq(Segs)

TypeOK == /\ vid \in [Segs -> {"none", "torn", "whole"}]
          /\ gt \in [Segs -> {"none", "broken", "headless", "short", "ready"}]
          /\ shards \in [Workers -> Lists] /\ todo \in [Workers -> Lists]
          /\ vcache \in Lists \cup {NoCache} /\ pcache \in Lists \cup {NoCache}
          /\ run \in 0 .. Runs /\ pos \in 1 .. NumSegs + 1
          /\ args \in [all : BOOLEAN, grow : BOOLEAN, train : BOOLEAN]
          /\ doing \in [Workers -> Segs \cup {0}] /\ open \in [Workers -> BOOLEAN]
          /\ rest \in Lists
          /\ train \in [videos : Lists, plans : Lists]
          /\ val \in [videos : Lists, plans : Lists]

\* No two workers write the same file: the shards of this run are disjoint, and none
\* of an earlier run is taken up (launch_runpod_training.py:290-291, 328-329).
OneWriter == \A w, x \in Workers : doing[w] # 0 /\ doing[w] = doing[x] => w = x

\* Whatever is listed, in the cache or in memory, over crashes and later runs, is a
\* segment whose plans can be read and are long enough and that has a video file
\* (dataloader.py:346-359).  It is not said, for it is not so, that the video is whole
\* or that the plans have their probabilities (plans_prob): a loader worker may find out.
ListedIsUsable ==
    \A list \in {vcache, pcache, train.videos, train.plans} \ {NoCache} :
       \A s \in Range(list) : Usable(s)

\* Videos and ground truths are two files that are only matched by position
\* (dataloader.py:242-244): wherever both have a line, it is of the same segment.
PairsMatch ==
    \A pair \in {[videos |-> vcache, plans |-> pcache], train, val} :
       NoCache \notin {pair.videos, pair.plans} =>
          \A i \in DOMAIN pair.videos \cap DOMAIN pair.plans : pair.videos[i] = pair.plans[i]

\* The two datasets split one list, each on its own (dataloader.py:205-218): they must
\* have loaded the same one, or a segment trained on is also validated on.
SplitsAgree == stage = "fit" => train = val

Current == \A s \in Segs : Usable(s) => s \in Range(train.videos)

\* "the next training run rebuilds it (once)" (launch_runpod_training.py:338-339): a run
\* that grows the set trains on all of it, even when an earlier one crashed half-way.
GrownRunTrainsOnAll == stage = "fit" /\ args.grow => Current

\* A run whose pod stays comes to its end, whatever becomes of its workers.
RunEnds == (stage = "dataset") ~> (stage = "over")

=============================================================================
