----------------------------- MODULE DataSplits -----------------------------
(***************************************************************************)
(* How run_training (src/open/demo/learn/main.py) finds its training and   *)
(* validation images in the extracted dataset: _resolve_dataset_root, the  *)
(* train/validation directory checks, _iter_images with the sample caps,   *)
(* and the two fallbacks that take validation images from the training    *)
(* split.                                                                  *)
(*                                                                         *)
(* The extracted archive is abstracted to a layout: the split directories *)
(* sit under `depth` single wrapper folders; `stray` says the top level    *)
(* holds another entry beside them; `train` and `val` are the number of    *)
(* image files under train/ and validation/ (Absent: no such directory);  *)
(* `other` says a test/ or evaluate/ directory sits beside them.  The      *)
(* image at position k of the sorted scan of split s is <<s, k>>.          *)
(***************************************************************************)
EXTENDS Naturals, Sequences, SequencesExt

CONSTANTS
  FileCounts,   \* numbers of image files a split directory can hold
  MaxTrain,     \* cfg.max_train_samples values (clamped to >= 10)
  MaxVal,       \* cfg.max_validation_samples values (clamped to >= 10)
  Absent        \* model value: the split directory does not exist

VARIABLES
  layout,        \* the extracted dataset
  cfg,           \* [max_train_samples, max_validation_samples]
  root,          \* wrapper depth of the resolved root (0 = extracted dir)
  train_images,
  val_images,
  val_source,    \* "validation" or "train"
  outcome        \* "start", "resolved", "scanned" or the RuntimeError text

vars == <<layout, cfg, root, train_images, val_images, val_source, outcome>>

Layouts ==
  [depth : 0..2, stray : BOOLEAN, other : BOOLEAN,
   train : FileCounts \cup {Absent}, val : FileCounts \cup {Absent}]

Configs == [max_train_samples : MaxTrain, max_validation_samples : MaxVal]

(* The directory at wrapper depth d contains one of the split names. *)
HasSplitDir(l, d) ==
  d = l.depth /\ (l.train # Absent \/ l.val # Absent \/ l.other)

(* The directory at depth d holds exactly one subdirectory and no file. *)
SingleChildNoFiles(l, d) == d < l.depth /\ ~(d = 0 /\ l.stray)

(* Bug variant: only one loop iteration, so a wrapper folder is not entered. *)
RECURSIVE ResolveRootOnce(_, _, _)
ResolveRootOnce(l, d, k) ==
  IF k = 1 THEN 0
  ELSE IF HasSplitDir(l, d) THEN d
  ELSE IF SingleChildNoFiles(l, d) THEN ResolveRootOnce(l, d + 1, k + 1)
  ELSE 0

(* Bug variant: three iterations, so a second wrapper folder is entered. *)
RECURSIVE ResolveRootThrice(_, _, _)
ResolveRootThrice(l, d, k) ==
  IF k = 3 THEN 0
  ELSE IF HasSplitDir(l, d) THEN d
  ELSE IF SingleChildNoFiles(l, d) THEN ResolveRootThrice(l, d + 1, k + 1)
  ELSE 0

(* _resolve_dataset_root: at most two iterations; each returns the current *)
(* directory if it has a split directory, descends into a single child,   *)
(* or gives up; giving up or running out of iterations yields the         *)
(* extracted directory itself.                                            *)
RECURSIVE ResolveRoot(_, _, _)
ResolveRoot(l, d, k) ==
  IF k = 2 THEN 0
  ELSE IF HasSplitDir(l, d) THEN d
  ELSE IF SingleChildNoFiles(l, d) THEN ResolveRoot(l, d + 1, k + 1)
  ELSE 0

(* Number of image files under split s (train or validation) of root r. *)
Count(l, r, s) == IF r = l.depth THEN l[s] ELSE Absent

(* _iter_images(dir, limit): the first `limit` images of the sorted scan. *)
IterImages(s, n, limit) == [k \in 1..(IF n < limit THEN n ELSE limit) |-> <<s, k>>]

Prefix(seq, n) == SubSeq(seq, 1, IF Len(seq) < n THEN Len(seq) ELSE n)

-----------------------------------------------------------------------------

Init ==
  /\ layout \in Layouts
  /\ cfg \in Configs
  /\ root = 0
  /\ train_images = <<>>
  /\ val_images = <<>>
  /\ val_source = "validation"
  /\ outcome = "start"

(* root = _resolve_dataset_root(extracted) *)
ResolveDatasetRoot ==
  /\ outcome = "start"
  /\ root' = ResolveRoot(layout, 0, 0)
  /\ outcome' = "resolved"
  /\ UNCHANGED <<layout, cfg, train_images, val_images, val_source>>

(* The train split is missing: RuntimeError("dataset_missing_train_split"). *)
MissingTrainSplit ==
  /\ outcome = "resolved"
  /\ Count(layout, root, "train") = Absent
  /\ outcome' = "dataset_missing_train_split"
  /\ UNCHANGED <<layout, cfg, root, train_images, val_images, val_source>>

(* The train split has no image: RuntimeError("empty_train_split"). *)
EmptyTrainSplit ==
  /\ outcome = "resolved"
  /\ Count(layout, root, "train") = 0
  /\ outcome' = "empty_train_split"
  /\ UNCHANGED <<layout, cfg, root, train_images, val_images, val_source>>

(* Bug variant: an empty validation directory is used as it is. *)
ValidationNoEmptyFallback(train, val_dir_n, val_dir_name) ==
  IterImages(val_dir_name, val_dir_n, cfg.max_validation_samples)

(* The validation images: those of validation/, or, when that directory   *)
(* does not exist, the first images of train/; when the scan found none,  *)
(* the prefix of the training images.                                      *)
ValidationImages(train, val_dir_n, val_dir_name) ==
  LET scanned == IterImages(val_dir_name, val_dir_n, cfg.max_validation_samples)
  IN IF scanned # <<>> THEN scanned
     ELSE Prefix(train, cfg.max_validation_samples)

(* Both splits scanned; the job goes on to read labels and features. *)
ScanSplits ==
  /\ outcome = "resolved"
  /\ Count(layout, root, "train") \notin {Absent, 0}
  /\ LET n_train == Count(layout, root, "train")
         train == IterImages("train", n_train, cfg.max_train_samples)
         has_val == Count(layout, root, "val") # Absent
         val_dir_n == IF has_val THEN Count(layout, root, "val") ELSE n_train
         val_dir_name == IF has_val THEN "val" ELSE "train"
         val == ValidationImages(train, val_dir_n, val_dir_name)
     IN /\ train_images' = train
        /\ val_images' = val
        /\ val_source' = IF has_val /\ IterImages(val_dir_name, val_dir_n, cfg.max_validation_samples) # <<>>
                            THEN "validation" ELSE "train"
  /\ outcome' = "scanned"
  /\ UNCHANGED <<layout, cfg, root>>

Next == ResolveDatasetRoot \/ MissingTrainSplit \/ EmptyTrainSplit \/ ScanSplits

Spec == Init /\ [][Next]_vars

-----------------------------------------------------------------------------

Image == {"train", "val"} \X Nat

TypeOK ==
  /\ layout \in Layouts
  /\ cfg \in Configs
  /\ root \in 0..1     \* the extracted directory or its single child
  /\ train_images \in Seq(Image)
  /\ val_images \in Seq(Image)
  /\ val_source \in {"validation", "train"}
  /\ outcome \in {"start", "resolved", "scanned", "dataset_missing_train_split",
                  "empty_train_split"}

(* A dataset whose split directories sit at the top of the archive or     *)
(* inside one wrapper folder, as the spec allows, is never rejected for a  *)
(* missing train split: _resolve_dataset_root descends into the wrapper.   *)
RootFoundUnderOneWrapper ==
  (outcome = "dataset_missing_train_split" /\ layout.train # Absent)
     => (layout.depth = 2 \/ (layout.depth = 1 /\ layout.stray))

(* A scan that succeeds hands the trainer two non-empty splits within      *)
(* their caps, whatever mix of missing and empty validation directory the  *)
(* dataset has (an empty validation set would make _eval_model return 0.0  *)
(* and pin the best checkpoint to the first epoch).                        *)
ScanYieldsNonEmptySplits ==
  outcome = "scanned" =>
     /\ 1 <= Len(train_images) /\ Len(train_images) <= cfg.max_train_samples
     /\ 1 <= Len(val_images) /\ Len(val_images) <= cfg.max_validation_samples

(* Spec, section 9: without a validation split the job "reuses a prefix of *)
(* the training split for both training and validation evaluation", so    *)
(* every image evaluated as validation data was also trained on.           *)
TrainFallbackValidatesOnTrainedImages ==
  (outcome = "scanned" /\ val_source = "train")
     => ToSet(val_images) \subseteq ToSet(train_images)

=============================================================================
