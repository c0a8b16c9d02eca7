------------------------------ MODULE Trainer ------------------------------
(***************************************************************************)
(* The training loop of the demo OCR job: _train_mlp in                    *)
(* src/open/demo/learn/main.py.                                            *)
(*                                                                         *)
(* Numbers are abstracted away.  The four parameter tensors w1, b1, w2, b2 *)
(* are updated together, in place, once per minibatch, so the live        *)
(* parameters are identified by `params`, the number of SGD updates       *)
(* applied so far.  A validation loss is a value of the finite, ordered   *)
(* set Losses or the IEEE NaN that a diverged model produces; the loss of *)
(* an epoch is a nondeterministic choice among them, because the model    *)
(* has no way to compute it.  Pacing (time.sleep) only delays the loop    *)
(* and telemetry is write-only, so neither has state here.                *)
(***************************************************************************)
EXTENDS Naturals, Sequences, FiniteSets

CONSTANTS
  NTrain,      \* rows of x_train (>= 1: run_training rejects an empty split)
  BatchSize,   \* cfg.batch_size, clamped to 4..512 by _parse_train_config
  Epochs,      \* cfg.epochs, clamped to 1..5000
  Losses,      \* abstract finite loss values, ordered by <
  NaN,         \* model value: a NaN validation loss
  Inf,         \* model value: float("inf"), the initial best_val_loss
  NoSnapshot   \* model value: best_snapshot = None

ASSUME NTrain \in Nat \ {0}
ASSUME BatchSize \in Nat \ {0}
ASSUME Epochs \in Nat \ {0}
ASSUME Losses \subseteq Nat /\ Losses # {}

VARIABLES
  pc,             \* where the loop is: "epoch", "batch" or "done"
  epoch,          \* loop variable of `for epoch in range(1, epochs + 1)`
  perm,           \* rng.permutation(n_train) of the current epoch
  batch_idx,      \* loop variable of the minibatch loop
  params,         \* number of SGD updates applied to w1, b1, w2, b2
  best_val_loss,
  best_snapshot,  \* params copied at the last strict improvement
  model,          \* params of the returned TrainedModel
  val_loss_out,   \* metrics["val_loss"] returned with it
  \* history, not in the code: how often each row was trained on in this
  \* epoch, and the (val_loss, params) pair of every finished epoch
  seen,
  evals

vars == <<pc, epoch, perm, batch_idx, params, best_val_loss, best_snapshot,
          model, val_loss_out, seen, evals>>

Rows == 1..NTrain

\* All permutations of the rows: the values rng.permutation can return.
Permutations == {p \in [Rows -> Rows] : \A i \in Rows : \E j \in Rows : p[j] = i}

CeilDiv(a, b) == (a + b - 1) \div b

MinOf(a, b) == IF a < b THEN a ELSE b

(* Bug variant: the number of batches rounded down. *)
BatchesFloor == NTrain \div BatchSize

(* batches_per_epoch = int(math.ceil(n_train / float(cfg.batch_size)))    *)
BatchesPerEpoch == CeilDiv(NTrain, BatchSize)

(* idx = perm[start : start + cfg.batch_size]; a Python slice is clipped   *)
(* at the end of the array, so the last batch may be smaller.             *)
BatchRows(p, b) ==
  {p[k] : k \in (b * BatchSize + 1)..MinOf(b * BatchSize + BatchSize, NTrain)}

(* Bug variant: a best of "none yet" accepts any loss, NaN included.       *)
ImprovesNoneFirst(v, best) == best = Inf \/ (v # NaN /\ v < best)

(* Bug variant: `<=` instead of `<`, so a tie replaces the snapshot.     *)
ImprovesOrEqual(v, best) == v # NaN /\ (best = Inf \/ v <= best)

(* `val_loss < best_val_loss` on Python floats: false whenever val_loss   *)
(* is NaN, true for every finite val_loss while best_val_loss is inf.     *)
Improves(v, best) == v # NaN /\ (best = Inf \/ v < best)

(* A snapshot either holds copies of the tensors as they were after p     *)
(* updates, or references to the live tensors, which later in-place SGD   *)
(* updates keep changing.                                                  *)
Snapshots == [kind : {"copy", "alias"}, params : Nat]

(* Bug variant: (w1, b1, w2, b2) stored without .copy(). *)
SnapshotAliased(p) == [kind |-> "alias", params |-> p]

(* best_snapshot = (w1.copy(), b1.copy(), w2.copy(), b2.copy()) *)
TakeSnapshot(p) == [kind |-> "copy", params |-> p]

(* The parameters `w1, b1, w2, b2 = best_snapshot` restores. *)
Restored(s, live) == IF s.kind = "copy" THEN s.params ELSE live

-----------------------------------------------------------------------------

Init ==
  /\ pc = "epoch"
  /\ epoch = 1
  /\ perm = [i \in Rows |-> i]
  /\ batch_idx = 0
  /\ params = 0
  /\ best_val_loss = Inf
  /\ best_snapshot = NoSnapshot
  /\ model = NoSnapshot
  /\ val_loss_out = 0
  /\ seen = [i \in Rows |-> 0]
  /\ evals = <<>>

(* Head of an epoch: draw the permutation of the rows. *)
StartEpoch ==
  /\ pc = "epoch"
  /\ epoch <= Epochs
  /\ \E p \in Permutations : perm' = p
  /\ batch_idx' = 0
  /\ seen' = [i \in Rows |-> 0]
  /\ pc' = "batch"
  /\ UNCHANGED <<epoch, params, best_val_loss, best_snapshot, model,
                 val_loss_out, evals>>

(* One minibatch: forward pass, backward pass and the in-place SGD update  *)
(* of all four parameter tensors.                                          *)
TrainBatch ==
  /\ pc = "batch"
  /\ batch_idx < BatchesPerEpoch
  /\ LET idx == BatchRows(perm, batch_idx)
     IN seen' = [i \in Rows |-> IF i \in idx THEN seen[i] + 1 ELSE seen[i]]
  /\ params' = params + 1
  /\ batch_idx' = batch_idx + 1
  /\ UNCHANGED <<pc, epoch, perm, best_val_loss, best_snapshot, model,
                 val_loss_out, evals>>

(* End of an epoch: evaluate on train and validation sets, snapshot the    *)
(* parameters if the validation loss strictly improved, report metrics    *)
(* and progress, sleep out the rest of min_epoch_seconds.                  *)
EndEpoch ==
  /\ pc = "batch"
  /\ batch_idx = BatchesPerEpoch
  /\ \E val_loss \in Losses \cup {NaN} :
        /\ IF Improves(val_loss, best_val_loss)
              THEN /\ best_val_loss' = val_loss
                   /\ best_snapshot' = TakeSnapshot(params)
              ELSE UNCHANGED <<best_val_loss, best_snapshot>>
        /\ evals' = Append(evals, [loss |-> val_loss, params |-> params])
  /\ epoch' = epoch + 1
  /\ pc' = "epoch"
  /\ UNCHANGED <<perm, batch_idx, params, model, val_loss_out, seen>>

(* After the last epoch: restore the best snapshot if there is one and     *)
(* report its loss, or 0.0 when best_val_loss stayed infinite.            *)
Finish ==
  /\ pc = "epoch"
  /\ epoch > Epochs
  /\ model' = IF best_snapshot # NoSnapshot THEN Restored(best_snapshot, params) ELSE params
  /\ val_loss_out' = IF best_val_loss # Inf THEN best_val_loss ELSE 0
  /\ pc' = "done"
  /\ UNCHANGED <<epoch, perm, batch_idx, params, best_val_loss,
                 best_snapshot, seen, evals>>

Next == StartEpoch \/ TrainBatch \/ EndEpoch \/ Finish

Spec == Init /\ [][Next]_vars

-----------------------------------------------------------------------------

TypeOK ==
  /\ pc \in {"epoch", "batch", "done"}
  /\ epoch \in 1..(Epochs + 1)
  /\ perm \in Permutations
  /\ batch_idx \in 0..BatchesPerEpoch
  /\ params \in Nat
  /\ best_val_loss \in Losses \cup {Inf}
  /\ best_snapshot \in Snapshots \cup {NoSnapshot}
  /\ model \in Nat \cup {NoSnapshot}
  /\ val_loss_out \in Losses \cup {0}
  /\ seen \in [Rows -> Nat]
  /\ evals \in Seq([loss : Losses \cup {NaN}, params : Nat])

(* Every training row is used at most once per epoch, and once the        *)
(* minibatch loop of _train_mlp is over, every row has been used exactly  *)
(* once: the batches tile the permutation, the short last one included.   *)
EachRowOncePerEpoch ==
  /\ \A i \in Rows : seen[i] <= 1
  /\ (pc = "batch" /\ batch_idx = BatchesPerEpoch) => \A i \in Rows : seen[i] = 1

(* What _train_mlp promises its caller (CheckpointSelection): one         *)
(* evaluation per epoch, appended in order, then one result: the model     *)
(* of the first epoch with the smallest non-NaN validation loss, or the   *)
(* live model with val_loss 0.0 when every loss was NaN.  The history      *)
(* `evals` is the abstract sequence; the result is the returned pair.      *)
Selection == INSTANCE CheckpointSelection
  WITH NoResult <- NoSnapshot,
       result <- IF pc = "done"
                   THEN [params |-> model, loss |-> val_loss_out]
                   ELSE NoSnapshot

(* The training loop implements checkpoint selection: the model and        *)
(* val_loss it returns after restoring best_snapshot are those of the      *)
(* first best epoch, although the snapshot is taken before later epochs    *)
(* keep updating w1, b1, w2, b2 in place and NaN losses compare false.     *)
ImplementsCheckpointSelection == Selection!Spec

=============================================================================
