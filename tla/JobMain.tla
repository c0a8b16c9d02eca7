------------------------------- MODULE JobMain -------------------------------
(***************************************************************************)
(* main() of src/open/demo/learn/main.py: ANIMUS_JOB_KIND, stripped and    *)
(* lower-cased, selects run_evaluation for "evaluation" and run_training  *)
(* for anything else; the job's exception becomes the exit status.  The    *)
(* two jobs are EvaluationJob and TrainingJob, instantiated with the       *)
(* variables main() shares with them (the step, the logger, the           *)
(* exception and the exit status) and each job's own.                     *)
(*                                                                         *)
(* A run's jobs are separate processes that share only the artifact       *)
(* store (spec section 3).  After a training process has exited, the      *)
(* platform may start main() again with ANIMUS_JOB_KIND=evaluation for    *)
(* the same run: the new process lists the run's model artifacts, which   *)
(* are then exactly what the training stored.                              *)
(***************************************************************************)
EXTENDS Naturals

CONSTANTS
  Listings, ModelFiles, Datasets, PreviewSamples, SplitRequests,  \* EvaluationJob's inputs
  FileCounts, MaxTrain, MaxVal, Absent,             \* TrainingJob's inputs
  JobKinds,   \* values of ANIMUS_JOB_KIND, as [text, padded, upper]
  Null

VARIABLES
  kind,                                   \* the job main() runs
  after_training,                         \* this evaluation follows a training of the run
  pc, closed, exc, exit_code,             \* shared by both jobs
  listing, model_file, dataset, preview, request, split_dir, use_trained, n_images, idx, step, uploads,
  layout, cfg, root, train_images, val_images, val_source, scan, saved, stored

eval_vars == <<listing, model_file, dataset, preview, request, split_dir, use_trained, n_images, idx,
               step, uploads>>

train_vars == <<layout, cfg, root, train_images, val_images, val_source, scan,
                saved, stored>>

vars == <<kind, after_training, pc, closed, exc, exit_code, eval_vars, train_vars>>

Eval == INSTANCE EvaluationJob

Train == INSTANCE TrainingJob

(* (os.environ.get("ANIMUS_JOB_KIND") or "training").strip().lower(): an  *)
(* unset variable is "training"; case and surrounding blanks do not count, *)
(* any other text (say "eval") runs training.                              *)
JobOf(k) == IF k.text = "evaluation" THEN "evaluation" ELSE "training"

-----------------------------------------------------------------------------

(* The inputs of the job that does not run are never read; one value of  *)
(* each stands for all of them.                                            *)
IdleTraining ==
  <<CHOOSE l \in Train!Splits!Layouts : TRUE, CHOOSE c \in Train!Splits!Configs : TRUE>>

IdleInputs(k) ==
  IF k = "evaluation"
    THEN layout = IdleTraining[1] /\ cfg = IdleTraining[2]
    ELSE /\ listing = CHOOSE l \in Listings : TRUE
         /\ model_file = CHOOSE f \in ModelFiles : TRUE
         /\ dataset = CHOOSE d \in Datasets : TRUE
         /\ preview = CHOOSE p \in PreviewSamples : TRUE
         /\ request = CHOOSE r \in SplitRequests : TRUE

Init ==
  /\ \E k \in JobKinds : kind = JobOf(k)
  /\ after_training = FALSE
  /\ IdleInputs(kind)
  /\ Eval!Init
  /\ Train!Init

(* The selected job takes its next step; the other's variables stay. *)
JobStep ==
  \/ kind = "evaluation" /\ Eval!Next /\ UNCHANGED <<kind, after_training, train_vars>>
  \/ kind = "training" /\ Train!Next /\ UNCHANGED <<kind, after_training, eval_vars>>

(* Bug variant: the model uploaded without its filename argument. *)
TrainedListingNoName == [artifact_id |-> "model", filename |-> [ext |-> "", upper |-> FALSE]]

(* The newest model artifact of the run as list_run_artifacts returns it  *)
(* once run_training's upload_run_artifact(kind="model",                  *)
(* filename="model.npz") has been stored.                                  *)
TrainedListing == [artifact_id |-> "model", filename |-> [ext |-> "npz", upper |-> FALSE]]

(* The training process has exited (its temporary directory and locals    *)
(* are gone; the server keeps `stored`) and main() starts again as an     *)
(* evaluation of the same run.  The .npz it downloads is the one           *)
(* _save_model_npz wrote, which loads (ModelHandoff).                      *)
Evaluate ==
  /\ kind = "training" /\ pc = "done"
  /\ kind' = "evaluation" /\ after_training' = TRUE
  /\ listing' = IF stored = 0 THEN Null ELSE TrainedListing
  /\ model_file' = "valid"
  /\ dataset' \in Datasets /\ preview' \in PreviewSamples /\ request' \in SplitRequests
  /\ split_dir' = "unscanned" /\ use_trained' = FALSE /\ n_images' = 0 /\ idx' = 0
  /\ step' = 1 /\ uploads' = <<>>
  /\ pc' = "start" /\ closed' = FALSE /\ exc' = Null /\ exit_code' = Null
  /\ layout' = IdleTraining[1] /\ cfg' = IdleTraining[2]
  /\ root' = 0 /\ train_images' = <<>> /\ val_images' = <<>>
  /\ val_source' = "validation" /\ scan' = "start" /\ saved' = FALSE
  /\ UNCHANGED stored

Next == JobStep \/ Evaluate

(* A process is one synchronous thread whose every call returns or raises. *)
(* Whether the platform evaluates the run afterwards is its choice, so     *)
(* Evaluate has no fairness.                                               *)
Spec == Init /\ [][Next]_vars /\ WF_vars(JobStep)

-----------------------------------------------------------------------------

TypeOK ==
  /\ kind \in {"evaluation", "training"} /\ after_training \in BOOLEAN
  /\ kind = "evaluation" => Eval!TypeOK
  /\ kind = "training" => Train!TypeOK

(* EvaluationJob's PreviewPairsInOrder for the evaluation job. *)
PreviewPairsInOrder == kind = "evaluation" => Eval!PreviewPairsInOrder

(* EvaluationJob's RequestedSplitPreviewed for the evaluation job: the    *)
(* split ANIMUS_EVAL_SPLIT names, under any alias, is the one previewed.  *)
RequestedSplitPreviewed == kind = "evaluation" => Eval!RequestedSplitPreviewed

(* TrainingJob's AtMostOneModelArtifact for the training job, and no model *)
(* artifact is ever stored by an evaluation.                               *)
AtMostOneModelArtifact ==
  /\ kind = "training" => Train!AtMostOneModelArtifact
  /\ kind = "evaluation" /\ ~after_training => stored = 0

(* DataSplits' RootFoundUnderOneWrapper for the split scan of the         *)
(* training job: a train split at the top of the archive or under one     *)
(* wrapper folder is always found by _resolve_dataset_root.               *)
RootFoundUnderOneWrapper == kind = "training" => Train!Splits!RootFoundUnderOneWrapper

(* DataSplits' ScanYieldsNonEmptySplits for the training job: a scan that  *)
(* succeeds hands the trainer two non-empty splits within their caps.     *)
ScanYieldsNonEmptySplits == kind = "training" => Train!Splits!ScanYieldsNonEmptySplits

(* An evaluation that follows a training of the same run exits 0 only     *)
(* when the training stored its model, and then every preview it uploaded *)
(* was predicted by that model, never by the pass-through predictor.  A   *)
(* training that exited 1 after its upload's answer timed out counts: the *)
(* server has the model.                                                   *)
EvaluatesTrainedModel ==
  kind = "evaluation" /\ after_training /\ exit_code = 0 =>
    /\ stored = 1
    /\ \A k \in DOMAIN uploads : uploads[k].trained

=============================================================================
