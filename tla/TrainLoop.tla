----------------------------- MODULE TrainLoop -----------------------------
(***************************************************************************)
(* train/train.py: the training process.  train() runs once per epoch over *)
(* the stream of training batches and interrupts it for validate(), which  *)
(* runs over one pass of the stream of validation batches.  The two        *)
(* streams are EpochStreams; row w of a batch is a sample of worker w      *)
(* (BatchLoader's BatchIsRowwise).                                         *)
(*                                                                         *)
(* Abstractions.  The recurrent state of a row is the last sequence it has *)
(* absorbed, or Zero.  The weights are the number of updates they have     *)
(* had: a step of the optimizer without gradients leaves them alone.       *)
(***************************************************************************)
EXTENDS CommaDataset

CONSTANTS ValInitial, ValPerm,  \* the validation split, as Initial and Perm
          Epochs,               \* --epochs
          ValFrequency,         \* --val_frequency
          RecurrWarmup          \* --recurr_warmup (the default)

ValOrder == Shuffles(ValInitial, ValPerm)

ASSUME TrainAssumption ==
    /\ Epochs \in 1 .. Passes /\ ValFrequency \in Nat \ {0} /\ RecurrWarmup \in BOOLEAN
    /\ IsSplit(ValInitial, ValPerm)

VARIABLES
  pc,
  epoch, trIt, token,       \* train(): the epoch, its batches so far, the last one
  hidden,                   \* recurr_input of train(), row by row
  segmentsFinished,         \* did every row of the last batch end its segment
  valPass, valIt, valToken, valHidden,   \* the same for validate()
  mode,                     \* model.train() or model.eval()
  weights,                  \* updates of the weights so far
  checkpoints,              \* the weights that were saved on the way
  result                    \* the weights of the finished model, NoResult before

trainVars == <<epoch, trIt, token, hidden, segmentsFinished>>
valVars == <<valPass, valIt, valToken, valHidden>>
outVars == <<weights, checkpoints, result>>
vars == <<pc, trainVars, valVars, mode, outVars>>

Zero == <<>>
NoResult == -1
AllZero == [w \in Workers |-> Zero]

Row(w) == Nth(w, Order[token.pass], token.idx)
ValRow(w) == Nth(w, ValOrder[valToken.pass], valToken.idx)
AfterRow(d) == <<d.seg, d.seq>>

Train == INSTANCE EpochStream
         WITH seen <- trIt, item <- token,
              NumBatches <- [p \in 1 .. Passes |-> FullBatches(Order[p])]
Validation == INSTANCE EpochStream
              WITH epoch <- valPass, seen <- valIt, item <- valToken,
                   NumBatches <- [p \in 1 .. Passes |-> FullBatches(ValOrder[p])]

Init == /\ pc = "epoch"
        /\ Train!Init
        /\ Validation!Init
        /\ hidden = AllZero /\ valHidden = AllZero
        /\ segmentsFinished = TRUE
        /\ mode = "train"
        /\ weights = 0 /\ checkpoints = {} /\ result = NoResult

----------------------------------------------------------------------------
(* train() *)

StartEpoch == /\ pc = "epoch"
              /\ hidden' = AllZero
              /\ segmentsFinished' = TRUE
              /\ mode' = "train"
              /\ pc' = "next"
              /\ UNCHANGED <<epoch, trIt, token, valVars, outVars>>

NextBatch == /\ pc = "next"
             /\ Train!Deliver
             /\ pc' = "batch"
             /\ UNCHANGED <<hidden, segmentsFinished, valVars, mode, outVars>>

\* A mutant: the warm-up is not honoured.
ShouldBackpropAlways == TRUE

ShouldBackprop == ~RecurrWarmup \/ ~segmentsFinished

\* A mutant: the state is carried into the next segment.
HiddenCarriedOver(done) == [w \in Workers |-> AfterRow(Row(w))]

\* The recurrent state after the batch: zeros once all its segments are done.
HiddenAfter(done) == IF done THEN AllZero ELSE [w \in Workers |-> AfterRow(Row(w))]

\* train_batch, the reset of the recurrent state, and the choice to validate.
TrainBatch ==
    /\ pc = "batch"
    /\ weights' = IF ShouldBackprop THEN weights + 1 ELSE weights
    /\ segmentsFinished' = \A w \in Workers : Row(w).finished
    /\ hidden' = HiddenAfter(segmentsFinished')
    /\ pc' = IF trIt % ValFrequency = 0 THEN "validate" ELSE "next"
    /\ UNCHANGED <<epoch, trIt, token, valVars, mode, checkpoints, result>>

EndEpoch == /\ pc = "next"
            /\ Train!EndPass
            /\ pc' = IF epoch = Epochs THEN "save" ELSE "epoch"
            /\ UNCHANGED <<hidden, segmentsFinished, valVars, mode, outVars>>

----------------------------------------------------------------------------
(* visualize_predictions() and validate() *)

StartValidation == /\ pc = "validate"
                   /\ mode' = "eval"
                   /\ valHidden' = AllZero
                   /\ pc' = "valnext"
                   /\ UNCHANGED <<trainVars, valPass, valIt, valToken, outVars>>

NextValBatch == /\ pc = "valnext"
                /\ valPass <= Passes
                /\ Validation!Deliver
                /\ pc' = "valbatch"
                /\ UNCHANGED <<trainVars, valHidden, mode, outVars>>

\* A mutant: validation writes the flag that training reads.
ValidateBatchSharesFlag ==
    /\ pc = "valbatch"
    /\ segmentsFinished' = \A w \in Workers : ValRow(w).finished
    /\ valHidden' = IF segmentsFinished' THEN AllZero
                    ELSE [w \in Workers |-> AfterRow(ValRow(w))]
    /\ pc' = "valnext"
    /\ UNCHANGED <<epoch, trIt, token, hidden, valPass, valIt, valToken, mode, outVars>>

ValidateBatch ==
    /\ pc = "valbatch"
    /\ valHidden' = IF \A w \in Workers : ValRow(w).finished THEN AllZero
                    ELSE [w \in Workers |-> AfterRow(ValRow(w))]
    /\ pc' = "valnext"
    /\ UNCHANGED <<trainVars, valPass, valIt, valToken, mode, outVars>>

\* Without a batch there is no val_avg_loss to return: UnboundLocalError.  With
\* one, the scheduler steps, a checkpoint is saved, and training goes on.
EndValidation ==
    /\ pc = "valnext"
    /\ valPass <= Passes
    /\ Validation!EndPass
    /\ IF valIt = 0
       THEN pc' = "crashed" /\ UNCHANGED <<mode, checkpoints>>
       ELSE /\ pc' = "next"
            /\ mode' = "train"
            /\ checkpoints' = checkpoints \cup {weights}
    /\ UNCHANGED <<trainVars, valHidden, weights, result>>

----------------------------------------------------------------------------

\* The result is saved and "training_finished" is logged.
SaveResult == /\ pc = "save"
              /\ result' = weights
              /\ pc' = "finished"
              /\ UNCHANGED <<trainVars, valVars, mode, weights, checkpoints>>

Next == \/ StartEpoch \/ NextBatch \/ TrainBatch \/ EndEpoch
        \/ StartValidation \/ NextValBatch \/ ValidateBatch \/ EndValidation
        \/ SaveResult

Spec == Init /\ [][Next]_vars

----------------------------------------------------------------------------

HiddenStates == [Workers -> {Zero} \cup (Segments \X Nat)]

TypeOK ==
    /\ pc \in {"epoch", "next", "batch", "validate", "valnext", "valbatch",
               "save", "finished", "crashed"}
    /\ epoch \in 1 .. Epochs + 1 /\ valPass \in 1 .. Passes + 1
    /\ trIt \in Nat /\ valIt \in Nat
    /\ hidden \in HiddenStates /\ valHidden \in HiddenStates
    /\ segmentsFinished \in BOOLEAN
    /\ mode \in {"train", "eval"}
    /\ weights \in Nat /\ checkpoints \subseteq Nat /\ result \in Nat \cup {NoResult}

\* "Initialised to zeros at the start of each segment, and reset at every segment
\* boundary ... preserved between batches within a segment" (doc/MODEL_INPUTS.md:143-146):
\* the recurrent state a row meets is that of the sequence just before it in the same
\* segment, in training and, separately, in validation.
Expected(d) == IF d.seq = 0 THEN Zero ELSE <<d.seg, d.seq - 1>>
HiddenMatchesRows ==
    /\ pc = "batch" => \A w \in Workers : hidden[w] = Expected(Row(w))
    /\ pc = "valbatch" => \A w \in Workers : valHidden[w] = Expected(ValRow(w))

\* "The first batch of each segment is not used to update the weights" (README.md:122),
\* and every other batch is, by a model in training mode; no batch is validated by one.
Updating(p, i) == RecurrWarmup => \A w \in Workers : Nth(w, Order[p], i).seq # 0
OnlyWarmBatchesUpdate ==
    /\ pc = "batch" => /\ mode = "train"
                       /\ ShouldBackprop <=> Updating(token.pass, token.idx)
    /\ pc = "valbatch" => mode = "eval"

\* The batches of all epochs.
TrainBatches == UNION {{e} \X (1 .. FullBatches(Order[e])) : e \in 1 .. Epochs}

\* The finished model has been updated once by every batch of every epoch that is to
\* update it: none is lost, repeated or trained on around a validation.
ResultIsTrained ==
    pc = "finished" => result = Cardinality({b \in TrainBatches : Updating(b[1], b[2])})

============================================================================
