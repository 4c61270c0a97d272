# Formal verification of openpilot-pipeline

TLA+ models of the training pipeline in this repository, checked with TLC on small
instances and, where marked, proved with TLAPS for all values of the constants.

Run everything from this directory: `tlc -config X.cfg MCModule` checks a configuration,
`tlapm Module_proofs.tla` checks a proof module. `PROJECT.json` maps every definition to the
lines it models and lists the runs, the mutants that each property must reject, and the hazards.

## 1. The system

The repository distils a driving model. A **launcher** on the user's computer rents a machine (a
*pod*) with a persistent network volume; a **script** on the pod downloads the dataset, generates
**ground truth** with the teacher model, runs the **trainer**, converts the result; the launcher
downloads it and terminates the pod. A second launcher renders test videos of the result the same
way. The repository also carries parts of openpilot that keep state of their own.

| part | source | state | talks to |
|---|---|---|---|
| pod lifecycle | `runpod_lib.py` | the pod it has, attempt, GPU type | RunPod service (external), both launchers |
| training launcher | `launch_runpod_training.py` `main`, `start_remote`, `wait_download_terminate` | poll position, local files | pod over SSH; log files |
| provisioning script | `PROVISION_SCRIPT` in the same file | stage; files on the volume | launcher (log, process table), trainer (process, log) |
| test-video launcher and script | `launch_runpod_test_video.py` | tail position, marker, path | the same, with a single log for all runs |
| teacher ground truth | `gt_distill/generate_gt.py` | `gt_distill.h5` per segment | script (shards, `wait`), dataset (files) |
| dataset | `CommaDataset` in `train/dataloader.py` | path cache on the volume, shuffled index per worker | PyTorch workers |
| batching | `BatchDataLoader` | the batch under construction | PyTorch `DataLoader` (external) |
| producer | `BackgroundGenerator` | bounded queue between two processes | trainer |
| trainer | `train/train.py` | recurrent state, warm-up flag, mode, weights | two producers; files |
| test-video renderer | `train/test_prediction_video.py` | frames decoded, recurrent states, rows written | script (exit, file), recordings on disk |
| sensor ground truth | `gt_real/generate_gt.py` | - | recordings on disk |
| parameter store | `common/params.py` | directory of keys behind a symlink, a lock file | any process that opens it |
| asynchronous generators | `common/tools/lib/async_generator.py`, `pollable_queue.py` | three bounded queues, what is in flight | worker threads, a caller |
| frame readers, video index | `common/tools/lib/framereader.py`, `cache.py`, `vidindex/` | cache of frames, index and its file, a decoder | ffmpeg (external), a thread that reads ahead |
| model, losses, drawing, geometry, player | `train/model.py`, `utils.py`, `play_gt/` | - | - |

What is hard here is not in any one function: the processes that feed the trainer run ahead of it
into later epochs; a batch is put together from processes that stop at different times; the
launchers follow a script through a log and a process table they read one SSH command at a time;
everything on the volume outlives the run that wrote it, whole or torn; a renderer keeps half a dozen
sequences in step across chunks and segments; and the vendored parts are concurrent (threads and
processes over files, queues and caches).

## 2. Modules

```
EpochStream                  what a loader promises: passes of batches in order
  ^ implemented by BackgroundGenerator            (TLC; proved in BackgroundGenerator_proofs)
  ^ implemented by BatchLoader                    (TLC; proved in Training_proofs)
CommaDataset -> WorkerPool -> BatchLoader         the loader, from segments to batches
CommaDataset -> TrainLoop                         the trainer, over two epoch streams
                                                  (Training_proofs)
PodFleet                                          what a launcher may do with pods
  ^ implemented by TrainingLauncher               (proved in TrainingLauncher_proofs)
  ^ implemented by TestVideoLauncher              (proved in TestVideo_proofs)
DriveSignals -> PredictionVideo                   what is read of a drive; a video of it (TestVideo_proofs)
ParamsStore                                       (ParamsStore_proofs)
AsyncGenerator                                    (ToolsLib_proofs)
VideoStream -> FrameReader                        streams and their index; the readers (ToolsLib_proofs)
Matroska -> FrameReader                           an MKV file, byte by byte
DatasetVolume                                     dataset, ground truth and cache over several runs
                                                  (DatasetVolume_proofs)
```

* **EpochStream** is the abstract specification of anything the trainer iterates over: in pass *p*
  exactly the batches 1..n(p), in order, then the end of the pass.
* **BackgroundGenerator**: `Fetch`, `Poll`, `Put`, `EndPass` are the lines of `run` (the poll of
  `queue.full()` and the put are separate steps); `StartEpoch`, `GetBatch`, `GetNone`, `Resume`
  those of `__iter__`. `Raise` is a loader that dies; `GetFails` the connection error in the consumer.
* **CommaDataset** has no state: which sequence of which segment a worker yields at a position,
  with which rows of ground truth, after how many shuffles.
* **WorkerPool** is PyTorch 1.10's iterator over worker processes as this code configures it
  (prefetch, results returned in task order, persistent workers that are resumed for every pass).
  It is external; only the generator that a worker runs is the repository's.
* **BatchLoader** composes the pool with `BatchDataLoader.__iter__` and `collate_fn`.
* **TrainLoop**: `train`, `validate` and the loop of epochs. A row's recurrent state is the last
  sequence it has absorbed; the weights are the number of updates they have had.
* **PodFleet**: `create_pod_with_gpu_fallback`, `wait_for_ssh`, `boot_pod_with_retries`,
  `terminate_pod_quiet`, an interrupt at any point; and what a launcher does with a pod that has come
  up: `GiveBack`, `Leave`, `TakeUp` (of one left earlier); a pod may `Vanish`. The two launchers
  extend it and take its steps, so `FleetSpec` is also the abstract specification of both.
* **TrainingLauncher** adds the launcher and the script (steps 10-12) with the trainer as a process.
  A file is the number of the run it stems from, so "stale" can be said; `log.converted` and `saved` are
  what the two have printed of it ("conversion done", "saved:").
* **TestVideoLauncher** does the same for the other launcher; its log is a sequence of lines that
  is read by position while the script appends to it. `--list-segments` is a request like the others.
* **DatasetVolume**: steps 7, 9 and 9b of the script, the ground-truth workers, and
  `CommaDataset.get_paths`, with every file operation a step and a crash between any two.
* **DriveSignals** has no state: the trajectory at a frame, as `load_segment_real_path` and as
  `create_plans_gt` compute it, who was steering (`_schmitt`, the engagement held forward), and which
  source the calibration comes from.
* **PredictionVideo**: `main`, `generate_prediction_video`, `_stream_segment`, the montage. A chunk is
  decoded in one step (`Decode`), rows are written one by one (`WriteRow`). A recurrent state is
  the sequence of inputs it has absorbed, a row of the video a record of what it shows.
* **ParamsStore**: every file operation of `put`, of a transaction and of a snapshot is a step.
  A write is on the disk once synced; a power failure keeps or loses what was not. A file may be
  unreadable to a transaction (`Enter`, which leaves out any set of keys: `Unreadable`), to a snapshot or
  to a get (`ReadFails`), as a write may fail (`CopyFails`).
* **AsyncGenerator**: the master thread's loop as its events (`PutOut`, `Receive`, `Send`,
  `Resend`), its clean-up (`CleanGet`, `CleanPut`, `GiveUp`), workers that may die of an exception of
  the caller's function, the caller. `FindNextResend` is where the master dies under Python 3. A pipe that is nearly full counts as full: `Room` is its bound.
* **VideoStream** has no state: NAL units of HEVC and H.264 streams, `vidindex`, the index of a
  stream, an MP4 file or a segment of a route, the data of a group of pictures, and what a decoder
  makes of it. The index may be computed by Python 2, for which the code was written, or Python 3.
* **Matroska** has no state: numbers and sizes of EBML, the elements of a segment, blocks with their
  four lacings, and where reading goes on after a damaged place, as `mkvparse` does it on a
  sequence of bytes; `Mkvindex` is the index `mkvindex.py` makes of that, `SimpleGen` the file it writes.
* **FrameReader**: the index and its cache file, `GOPFrameReader` with and without the thread that
  reads ahead, `GOPFrameIterator`, the feeder of one ffmpeg for many frames and the reader of a raw
  file (as far as they get), and the reader and of an MKV file, which reads no groups of pictures.

Where a module holds operators named like an action with a suffix (`PutTwice`, `ScrapForgets`),
these are the mutants named in `PROJECT.json`; no specification uses them. Every module of
state has a `TypeOK`; it documents the ranges, is part of the proofs where there are proofs, and
holds in the instances below (add it to the `INVARIANTS` of a configuration to see it).

## 3. Runs

Passing runs. Deadlock is not checked in them: in each the bound on epochs, passes, pods or runs
ends the behaviour, or the program itself ends.

| run | instance | what it shows |
|---|---|---|
| `background_generator` | queue of 2 as in the code; passes of 2, 0, 3, 1, 0, 0, 0 batches, three epochs | each epoch of the trainer gets the batches of its own pass, an empty pass included; it implements `EpochStream`; no put blocks (in `IInv`, the invariant of the proof); a `get` is served while the producer lives |
| `batch_loader` | 2 workers, 4 segments of which one is shorter, 2 passes, prefetch 2, unreadable videos | rows of a batch are the n-th samples of their workers, from distinct segments; the passes form an `EpochStream` whose length the slower worker fixes; every pass ends or raises |
| `train_loop` | 2 rows, 7 segments of 3 sequences (one is always dropped), 3 epochs, validation every 4 batches | the state a row meets is that of the sequence before it, across validations and epochs; exactly the warm batches update, in training mode; the model that is saved has had every such batch once |
| `training_launcher` | 2 runs of one name, all modes, SSH failures, hangs, lost pods | the poll stops when the script is over; a conversion that was saved is of the model saved with it or, where the log does not call it done, an older one; the trainer is only killed with its model saved; a watch ends |
| `test_video` | 2 runs, comparison, plain and listing, 2 GPU types, 2 retries, 3 pods, reused pods, SSH failures | no pod is forgotten; a reported video is complete, of this run and of the segments asked for; no success is overlooked; the pod goes only when the file has come; an invocation ends |
| `dataset_volume` | 2 segments, 2 workers, 3 runs with any flags, crashes anywhere | no ground truth is written by two; what is listed has a video and plans that are long enough, is paired, and is the same for training and validation; a run that grows the set trains on all of it; a run ends |
| `params` | 2 processes, 2 keys of which one is cleared by transactions, 4 operations, 2 faults | every visible change is one put or one whole transaction, which also drops the keys it could not read; what has returned survives a power failure; a reader returns what the store held, partly if a read failed; everything returns |
| `async_generator` | 4 inputs, 2 workers, pipes with room for 1, both modes, a resend, crashes of workers | results once and, in the reliable mode, in order; all of them at the end; no thread waits for ever, but in the reliable mode under Python 3 the caller does |
| `frame_reader` | an HEVC stream, a route of 3 H.264 segments cut inside their groups of pictures, an MP4, an MKV file with blocks of every lacing and a damaged place, a raw file; cache of 3 frames, 3 gets | the frame under a number is that frame, however it was indexed, cached or skipped; what is asked for is there; an index on disk does not depend on which programs made it and died; readers, thread and iterator end |
| `prediction_video` | 6 recordings, 9 requests of one to three segments and of montages, chunks of 2, all courses of a torque of 3 levels over 6 frames | each row is about one frame of one segment in image, models, calibration, trajectory and badge; the clip has the length asked for; a render ends |

Bounds, and why they suffice. Two workers are enough for every interleaving the loaders
distinguish (which one stops first, whose result comes first, a second result of the same one).
The third epoch is the first in which the producer of capacity 2 can be two whole passes ahead,
and passes of length 0 are those where counting `None`s goes wrong most easily. Two runs of a
launcher are the fewest in which something stale can be found and three runs of the volume
the fewest in which a crash can be repaired by a run that is then trained on. `MaxPods` exceeds what
one boot with all its retries uses. Chunks of two over videos of one to six frames put the end of a
chunk, of a segment and of the clip before, on and after each other. Two faults are the fewest in which a
writer meets what a killed one left and then fails itself. A route of three segments is the
shortest with a segment that has neighbours on both sides. The
counters (`Passes`, `Runs`, `MaxPods`, `Ops`, `Faults`, `Gets`, `Resends`, `Crashes`) are bounded in
guards, each declared as a constant.

Fairness. Every process that is there runs: weak fairness of the producer and of the consumer, of
each loader worker, of the launcher (its boot included) and of the script, of each process at the
parameter store until it is killed, of master, workers and caller, of the reader and of its thread,
of the renderer. Nothing is assumed about the outside: pods need not come up, the trainer need not
exit, a stuck trainer stays stuck, workers may all die. `TrainLoop` is a sequential program
and is checked for safety only, without fairness.
Strong fairness is nowhere needed.

Violations. Each of these runs checks one property that the repository states and the code does
not keep:

| run | statement | what happens |
|---|---|---|
| `stale_model` | `--wait` downloads the model of the run | after a failed training, the `.pth` of an earlier run of the same name is converted and downloaded as final |
| `gt_real_anchors` | "take the first future sample at/after it" (`gt_real/generate_gt.py:176`) | the walk over the samples moves on with every anchor; the second and third anchor lie between two frames, so the third and the fourth get a sample 50 ms late |

Seen while modelling, without a run of their own. First, where a document says otherwise:
* the ground truth of a row is documented to have `seq_len` steps (`train.py:373`); the slice at
  `dataloader.py:291` is shifted by one and clipped, so with a length that is a multiple of `seq_len` the
  last sequence is a step short;
* "reset at every segment boundary" (`doc/MODEL_INPUTS.md:143`): the reset at `train.py:203` waits until
  *all* rows end their segment; a row whose segment is shorter carries its state over;
* the launcher is to download the output of its script (`launch_runpod_test_video.py:219`); the marker is
  printed before the path (line 302), and a poll in between falls back to another file name;
* the path cache is said to be dropped when the ground truth changes (`launch_runpod_training.py:355`);
  step 9 (`--gen-gt`, line 285) changes it and drops nothing;
* `put` "blocks until the param is written to disk" (`params.py:381`): a writer killed between
  switching the link and syncing it leaves a link that later puts do not sync (`Loose`);
* "Either way, return empty" (`params.py:170`): after an error of a read other than `ENOENT`,
  `_read_values_locked` returns the keys it has read so far. A snapshot is then a part of the store, and a
  transaction writes back that part only (line 255): every key it had not read is lost for good, though
  puts of them had returned. `ReadsAreCurrent` and `UpdatesAreWhole` name the keys in question
  (`task.del` of a snapshot, `mem.unread` of a transaction) and hold for all others;
* `mkvparse` "supports resyncing" (`mkvparse/README.md:18`): at the end of the file `resync` returns a
  pair where three values are unpacked (`mkvparse.py:660`, 684), so that a truncated file raises; and it
  misses a cluster that starts within three bytes after a byte 0x1F, 0x18 or 0x16 (`Resync`);
* "\x3F\xFF\xFF" is to be 0x1FFFFF (`mkvparse.py:84`); the code takes it for the number of all ones, -1.

Other behaviour that a reader may not expect:
* the launchers do not look at the result of the SSH commands that remove the old logs
  (`launch_runpod_training.py:610`) and the old list of forced segments
  (`launch_runpod_test_video.py:376`); when they fail, the old marker or the old list is taken for
  the new one. The passing runs assume that these two commands succeed, and that the shell which a
  launcher starts has truncated its log by the next SSH connection (`SlowStart`); `--reuse-pod` is
  used on a pod whose last script is over (`ReuseBusy`);
* when a conversion fails, the script goes on with the `.onnx` that an earlier run of the same name left
  (`launch_runpod_training.py:405-410`), and without a converter the `.dlc` stays too. The launcher looks for both
  by name only, downloads them and prints "saved" beside the new `.pth` (lines 733-742): a stale conversion
  beside a new model, and a `.dlc` that is new but made of the stale `.onnx`. Only the missing line
  "conversion done" of the log tells (`ConversionsFit`);
* an interrupt while a pod is being created, or after it has come up, leaves it running; the
  invariants account for it in `lost` and `left`;
* the poll loop of the training launcher never ends when the pod is gone, nor when the trainer waits
  in `queue.get()` for a producer that has died; `WaitEnds` excludes both by name;
* a crash between the two truncations of the cache files leaves empty lists, and every later run
  fails until ground truth is grown again;
* a ground-truth file with `plans` but not `plans_prob` is listed and makes a loader worker raise, as does a
  torn video whose first frame cannot be read; `ListedIsUsable` only speaks of the plans and of a video file;
* with `--show-real-gt`, a segment without poses gives images narrower than the video was opened
  for, which the writer drops silently (`test_prediction_video.py:736`; `InFile`); and a render whose
  segments cannot be read returns without an error and without a frame;
* a lock-free `get` that meets a switch of the link may find no file for a key that was there throughout
  (`params.py:298`); `clear_all` removes the store, lock file included, without the lock, and is
  modelled only while nobody else uses the store;
* the reliable mode of the asynchronous generators only works under Python 2: `_find_next_resend` reads
  `_OrderedDict__root` (`async_generator.py:55`, called at 189), which the `OrderedDict` of Python 3 does not
  have. With the first message sent the master thread dies of an `AttributeError` and the caller waits for
  ever, for any input at all; `Ends` names the case (`Doomed`) and says what happens in it, and the safety
  of the mode says something about Python 2 only. The other mode works under both, but from Python 3.11 on neither
  can be used: `inspect.getargspec` (line 281) is gone;
* a function that raises `OSError` ends its worker without a sentinel, and ten seconds without an event
  in the clean-up fail an assertion in the master thread: the caller then waits for ever (`GiveUp`). When
  all workers die the reliable mode ends early without a word (`EndMeansAll` names it);
* with the thread that reads ahead, a frame may fall out of the cache between the test and the use
  (`framereader.py:985`: `KeyError`); a group of pictures longer than the cache cannot be read; the
  iterator over an MP4 yields its last group twice (line 1048) and relies on more groups in flight than
  the decoder delays (line 1180); an index file is never renewed when its video changes (lines 124, 185);
  under Python 3 `all()` consumes the `map` it tests (lines 220, 323). `cache.py` only loads in Python 3,
  where `framereader.py` cannot index H.264 routes and MP4 files; the runs explore the branches it has for
  Python 2 as well, with `cache.py` modelled by what it does;
* four parts can never do their work: the feeder of one ffmpeg calls `async_generator`, which the file
  does not import (`framereader.py:511`: `NameError` before anything is fed; ffmpeg's input is closed); the raw reader names a module it does not import
  (`framereader.py:716`: `NameError`), the MKV reader writes a string to a binary file under Python 3
  (`TypeError`; it works under Python 2), and `pstream_predecompress` passes a keyword that `cache_path_for_file_path`
  does not have (line 219);
* an MKV element without a size that is not a cluster or segment raises, because the warning about it has too
  many arguments for its format; a block with EBML lacing of one frame gives two;
* `validate` with an empty validation pass, and segments of a single sequence under warm-up (no
  update at all): `TrainLoop` is run with neither.

## 4. Proofs

`BackgroundGenerator_proofs` proves, for every capacity, number of epochs and function of batches
per pass (`NumBatches`, any function from passes to naturals; the queue has room for one token): type
correctness, `EpochAligned`, `PutDoesNotBlock`, `EpochComplete`, and that the specification
implements `EpochStream` (`ImplementsStream`). None of these is inductive: that the batch in use has
the right number says nothing about the next one. The invariant `IInv` states that the queue, with
the token in the producer's hands behind it, is a stretch of the producer's stream without a gap
(`Contiguous`) that starts where the consumer's counters stand (`ExpectedFirst`). Taking the head
keeps both (lemma `TakeHead`); the producer appends the successor of what it put
(`SuccWellFormed`). The refinement follows because every `GetBatch` and `GetNone` is the stream's
`Deliver` and `EndPass` and all other steps stutter.

`PodFleet_proofs` proves type correctness and `Accounted` (theorem `NoPodForgotten`) for every number
of GPU types, retries and pods. The invariant adds `Budget` (a boot that is under way has granted
no more pods than its attempts allow, which keeps `granted` in its type) to the two; `Accounted` is
disturbed only where a pod is granted, terminated, timed out or interrupted, and lemma
`TerminateAccounts` covers the steps that terminate.

`TestVideo_proofs` and `TrainingLauncher_proofs` prove that each launcher implements `FleetSpec`
(`ImplementsFleet`): every action of a launcher is a step of the fleet with something added, or leaves
the fleet's variables alone. `LauncherForgetsNoPod` then carries `Accounted` over to the launchers, for any
number of runs, GPU types, retries and pods, with every combination of requests, reuse, interrupts, failures
of SSH and pods that vanish; the invariant is not proved a second time.

The rest of both modules is about the runs, again for any number of them. `TestVideo_proofs`:
`PathLeadsToThisRun`, `KeepsPodWithoutFile`, `MarkerIsNoticed`. `IInv` says how far the script has come
that belongs to the invocation and that no other is at work (`OneScript`), which lines a script at a given
stage has written (`Printed`), and that at each place of the launcher the position in the log, the marker
and the path noted agree with the lines before the position (`Seen`); then a path that was noted is one
that this run has printed after the file was there (`Fresh`). `ReadLinesReads` and `LogGrows` are the
lemmas about reading by position while the log grows. The hypotheses are named: `Alone` (the log was
truncated by the next SSH connection, and a reused pod has no script at work), and for the path
`Reliable` (the commands that remove the old list and start the script are among those whose failure is
noticed). `TrainingLauncher_proofs`: `TrainerIsKilledOnceSaved` without a hypothesis, from the agreement of script,
trainer and train log (`TrainLog`) and the order in which the files descend from each other (`Lineage`);
`WaitsForTheScript` and `DownloadsFit` when the old logs are removed (`Removed`), from `LaunchLog`, `Converted` (a
source does not change after its conversion was announced) and `Collected` (what was saved is what the volume holds). The hypotheses are what section 3 lists as assumed; it says there what happens otherwise.

`DatasetVolume_proofs` proves all five invariants of the volume for any number of segments, workers and runs,
whatever the flags, with a crash before any file operation: `GroundTruthHasOneWriter`,
`ListsAreUsable`, `ListsMatch`, `DatasetsAgree`, `GrowthIsUsed`. `Shares`: what waits for a worker or is in
one's hands is all different, because the shards are dealt from one list without repetitions
(`DealProperties`). `Hands`: a segment in a worker's hands has no ground truth or one this worker is writing, so
that nothing that is listed is written again. `Caches`: how the two files of the cache, the lists in memory
and the segments still to look at agree at each line of `get_paths`; between two appends they differ by one
entry. `Covered`: while the lists are built, whatever can be trained on is listed or still to be looked at.

`ParamsStore_proofs` proves `UpdatesAreDurable`, `ReadersSeeTheStore` and the action property `UpdatesAreWhole`
(`NoUpdateIsLost`) for any number of processes, keys, directories and operations, with kills and
power failures at every step. `Exclusive`: whoever is between taking the lock and returning holds it.
`Copying`: what a transaction took from the store is therefore what the store still holds when it switches
the link, without the keys it deletes or could not read (`Dropped`), and the directory it made is nobody else's. `Durable`: what has returned is on the disk behind the
link and, but for `Loose`, behind the link a power failure brings back. `Reading`: a reader that has
resolved the link finds there nothing the store has not been since; a snapshot is the store without the keys it
has not come to, of which only an error leaves any.

`Training_proofs` is about the loader and the trainer. Of the loader it proves `BatchTypeCorrect`, `RowsInStep` (`BatchIsRowwise`), `RowsDiffer`
(`RowsAreDistinctSegments`) and `StreamImplemented` (the loader implements `EpochStream`, `StreamSpec`) for every
split, permutation, number of workers, prefetch factor and length of recordings, with videos that fail or not. It goes
from the bottom up.

*The samples.* `Order` is a recursive function and `Nth` counts predecessors; the library's induction theorems
cannot be instantiated, so each induction is a least counterexample (`LeastExists`). `ShufflesAreLists`: every
shuffle is a list of different segments. `NthDistinct`: different rows of a batch come from different
segments. `NthNext`: of two consecutive samples the second continues the segment of the first, or begins one
after the first has finished its own. `BatchesAreFull`: up to `FullBatches` every worker has an n-th sample.

*The pool in one pass* (`PoolInv`). The code tells a worker neither which of its samples a task asks for
nor the loader which one arrives; that the n-th task of a worker yields its n-th sample is a matter of order. The
invariant makes it explicit with three values that no variable holds and that it quantifies over: `rank[i]`, the number
of the sample task i is to yield, `made[w]`, how many results a worker has made, and `lap`, the round in which tasks are
handed out. `Ranks` and `Rounds` are the round robin: tasks of lower number never have a higher rank, and an active
worker has a task for every sample from the next to return to the last handed out. `Queued`, `Generators`,
`Arrivals` and `Results` follow a rank from the task queue through the generator and the shared queue into the table
of tasks: no result is made twice, overtakes another of its worker, or is missing unless its worker has stopped. What is
returned is then always the next sample of its worker (`FrontReturns`). The end is
the delicate part: a pass is over when a second sample of some worker arrives (`Starved`) or no task is left
(`AllStarved`), and both lemmas show that a worker that cannot be waited for any more has returned all of its share,
hence that the pass had `FullBatches` batches and not one fewer. There is one lemma for each step of the pool
(`PrimeMakes`, `ReturnKeeps`, `MarkStoppedKeeps`, `StoreKeeps`, `FetchKeeps`, `DropTaskKeeps`).

*The passes* (`BatchIInv`). Workers run into the next pass one by one. `Turn` says for each that it has
shuffled for the pass the loader is in, or that its first task will make it shuffle, or that it has nothing to do
yet; `Resuming` that a resume message is the last thing in a worker's queue or is on its way back, and that none is
left over once a pass runs. When the loader has drained the answers, all queues are empty and all generators fresh
(`RestartKeeps`), and `PoolInv` begins anew with the next list. For the refinement every `TakeBatch` is the
stream's `Deliver`, `EndPass` its `EndPass`, and the other steps stutter. A pass that raises delivers nothing more, which
`EpochStream` allows: that a pass ends or raises (`PassesEnd`) is liveness.

Of the trainer `Training_proofs` proves `StateIsOfTheSegment` (`HiddenMatchesRows`), `WarmBatchesUpdate`
(`OnlyWarmBatchesUpdate`) and `EveryBatchCounts` (`ResultIsTrained`) for every number of rows, epochs, and
frequency of validation, under `SameLength`: all segments of a split have equally many
sequences. Without it the property is false, as described above (a shorter row carries its state over).
Types and the places in the two streams need no hypothesis. `States` says which sequence every row has
absorbed in terms of the batches seen so far (`After`); `RowsAligned` that with equal lengths all rows end their
segments in the same batch; `Counted` that the weights are as many updates as there were warm batches
(`Updates`, a set whose cardinality grows by one exactly with `TrainBatchCounts`).

The first part of `ToolsLib_proofs` proves `AsyncTypesAlways`, `YieldsInOrderAlways` and `EndMeansAllAlways` for any number of
inputs and workers, any size of the pipes, any number of resends and of calls that raise. What the caller has and what
is on its way to it (`Given`) only grows at its end. The two modes need different reasons why it grows by the right thing.
The reliable mode counts (`ReliableOK`): `Given` is 1, 2, ... up to `next_out`, whatever late or repeated answers come in,
and no input is lost because one that has been read from the stream is awaited (`sent`), kept (`received`) or given. The
other mode counts nothing (`PlacesOK`): an input that was read is in exactly one of the input queue, a worker's hands,
the work queue, the results kept and `Given`, and twice in none of them; that all have arrived at the end follows because
the sentinels stand behind the inputs in the queue, so that a worker that has taken one leaves no input behind it
(`UnreliableOK`). In both modes the sentinels the master has counted and those still in the work queue are as many as
the workers that have ended (`WorkersOK`). `OnlyOf` and `Without`, the parts of a queue, are recursive functions (the
provers cannot expand `SelectSeq`); lemma `OnlyAppend` and its kin give their laws, by least counterexample.

The second half of `TestVideo_proofs` is about the renderer, for every set of recordings and of arguments that the parser
lets pass (`IsRequest`), every size of chunk, list of anchors and hold. Two theorems are about what is computed sample by
sample. `PathIsDriven`: `RealPath`, with `searchsorted` and a loop that leaves at the first frame without the whole
horizon, is `DrivenPath`, which says for each frame by itself what its path is. `BadgeIsSteering`: the latch with its
counter, and the search among the steer commands, are `Steering`, which speaks of the torques and commands and of no
counter (`LatchIs` relates the counter to the last sample that was not low). Both need of a recording what `IsRecording` says: times that increase,
which `searchsorted` needs too, and a torque for each pose, which the code makes by interpolating at the poses.
`RowsAlignedAlways` and `FullLengthAlways` follow from `VideoIInv`. Its parts follow the data through a render: what was
loaded is that of the segment at work (`SegmentOK`); the models have absorbed this segment's frames up to the one written
last, and the frame kept for the next chunk is the last one decoded (`StatesOK`); the chunk is a stretch of frames
beginning behind those written, short only at an end of the video or of the clip (`ChunkOK`); every row written is the one that
`Expected` names and the next follows on it (`RowsOK`); and the rows are as many as the segments before had to give, plus
those written of this one (`LengthsOK`, with the sum as a function that it quantifies over, since `InAll` is recursive). That all rows are
in the file when every segment has its panels (`InFileIsOut`) is a fact about the recursive definition of `InFile`.
Chunks are what makes none of this inductive without `StatesOK` and `ChunkOK`: a row is right only because
`written`, `row`, `cap` and the two lists of the chunk are in step.

The second part of `ToolsLib_proofs` is about the readers of frames: `FramesRightAlways`, `GetsSucceedAlways`,
`IndexesAgreeAlways` and `ReaderTypesAlways`, all from the inductive `ReaderInv`, for every set of routes, cache size,
length of reading ahead, number of groups in flight and delay of the decoder. What a route may be is assumed by name and
evaluated by TLC for the instance: `RoutesAssumption` says that files are streams as an encoder writes them (`Encoded`: consecutive
pictures, no group of them longer than the cache, without which reading really fails), that HEVC files and the first file of a
route begin with an I picture, that a sample of an MP4 file is one picture, and that the frames of an MKV file come out of the
file made of them (`IsMkv`). That last one and `HeadersAssumption` (the bits of a slice header are read right) are facts about
functions that recur over bytes and bits; TLC computes the headers for all of their finitely many values, and the MKV file for one with
every lacing. Of MKV files the theorems therefore show only what the reader does with the frames.

The argument has three layers. *Streams.* Places in a file are sets of numbers, and `Ascending` puts them in order: `AscendingFacts`
characterises it, by induction through a counterexample, so that `Pictures` of a concatenation (`PicturesConcat`) and of a part between two
pictures (`PicturesPart`) are known. A decoder fed with more puts out what it did and then the frames of what was added
(`DecodeAppend`). *Indexes.* `Tabled` says what a right index is: an entry for each picture, at its place, and, where a
segment begins inside a group, a prefix that ends in the frame before the segment's first, with the number of its frames.
`HevcTabled`, `Mp4Tabled` and `PstreamTabled` show that the three ways of making one make it so; `GroupRight` that a group of pictures
decodes behind anything to the frames the index gives it, after the skipped ones; `DecodeGopRight` that the assertion on
their number holds. *Readers.* `EntryRight` holds of every index on disk, about to be written, or loaded, which is what survives a
restart; and it is the one that a program makes which finds none (`Made`): what `IndexPstream` makes of a
route depends on the streams and not on which of its indexes were loaded (`PstreamSame`). A program that has loaded one reads it in one of three ways, each with an invariant: `GetInv` (the cache holds right frames
only, `todo` continues `got`, and without a second thread a frame that was seen in the cache is still there), `IterInv` (what the
decoder puts out is so many frames to skip and then those written, `Behind`, and every group but the last begins at an I picture) and `MkvInv`. `ReaderInv` is their disjunction with
`Unread`, and one lemma for each way shows that its steps keep it (`GetSteps`, `IterSteps`, `MkvSteps`) and that no other steps
are enabled (`GetRight` and its kin). An iteration over an MP4 file is where `FramesRight` is delicate: `NextBegins` and `Yielded` follow the last
group, which is written twice.

Only model-checked:
* all liveness (`PassesEnd`, `GetReturns`, `WaitEnds`, `InvocationEnds`, `RunEnds`, `OpsEnd`, `Ends` of the generator and of the
  renderer, `ReadersEnd`): fairness and ENABLED are beyond the prover;
* what `Matroska` and the bit reader of `VideoStream` compute: their functions recur over bytes and bits, which needs induction over
  data. The proofs about readers take of them the two assumptions above.

## 5. Not modelled

* Tensor arithmetic, image warps, drawing, losses, gradient clipping: no state to check.
* CPU affinity, timings, wandb reports: they decide nothing.
* Installation steps and the DLC toolchain: stages that end. A script that fails there goes on
  (`set -uo pipefail` without `-e`), which is what the model's nondeterministic outcomes allow.
* `calib.h5`, the player, and of the sensor ground truth all but the choice of samples: one-shot code
  over files.
* Two pods on one volume at a time: possible after an interrupt, but the launchers neither know of
  each other nor promise anything; the models have one pod at work.
* Of `common/`: `FrameWriter`, `RouteFrameReader` and `url_file` (the same pattern over HTTP), the pixels of the raw
  and MKV readers, timecodes and laced writing of MKV files, log readers and parsers, transformations and
  filters. `snpe248_gate0/`: third party.
* A caller that abandons an asynchronous generator half-way, and a parameter store that is cleared under
  other users.

## 6. Plan

Done, in this order of importance: the stream from the segments to the trainer
(`CommaDataset`, `WorkerPool`, `BatchLoader`, `BackgroundGenerator`, `TrainLoop`); the pods
(`PodFleet`, `TrainingLauncher`, `TestVideoLauncher`); the volume (`DatasetVolume`); the renderer
(`PredictionVideo`); the vendored parts with state (`ParamsStore`, `AsyncGenerator`, `FrameReader`).

Next, extensions: `TrainLoop` over two `BackgroundGenerator`s that may die, with the refinement that
`train_loop` uses made explicit; the file handling of `gt_real` beside that of `gt_distill`; an
abstract map of keys that `ParamsStore` implements up to `Loose`.

Next, proofs: every safety property of the runs has its theorem. What is left are the two assumptions about
parsing, of which a proof about the lacings of one MKV block would be the first step.
