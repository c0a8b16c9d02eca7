---------------------------- MODULE EvaluationJob ----------------------------
(***************************************************************************)
(* run_evaluation of src/open/demo/learn/main.py, step by step, with the   *)
(* exit status main() gives it.                                            *)
(*                                                                         *)
(* What the collaborators answer is the environment: the newest model      *)
(* artifact of the run (Listings), what the downloaded .npz holds          *)
(* (ModelFiles), what the dataset archive holds (Datasets), the split     *)
(* ANIMUS_EVAL_SPLIT asks for (SplitRequests), and the                     *)
(* outcome of every remote call: it returns, raises AnimusAPIError, or a   *)
(* socket timeout escapes request_json (see HttpClient).  Image decoding   *)
(* and prediction may raise as well.  Image contents, labels and           *)
(* predicted text are left out: an upload is identified by the image's     *)
(* index, its role in the preview pair and which predictor produced it.    *)
(***************************************************************************)
EXTENDS Naturals, Sequences, SequencesExt

CONSTANTS
  Listings,        \* items[0] of list_run_artifacts(kind="model", limit=1), or Null
  ModelFiles,      \* "valid" or "corrupt": what _load_model_npz finds
  Datasets,        \* [zip_ok, depth, stray, dirs, images]: the archive, the
                   \* single wrapper folders above the directories `dirs`, a
                   \* file beside the top wrapper, the split directory's images
  SplitRequests,   \* [word, means]: ANIMUS_EVAL_SPLIT after strip().lower()
                   \* ("" when unset) and the split of spec section 3 it names
  PreviewSamples,  \* ANIMUS_EVAL_PREVIEW_SAMPLES after _clamp_int(.., 1, 128)
  Null

VARIABLES
  listing, model_file, dataset, preview, request,   \* inputs, fixed for the run
  split_dir,   \* "unscanned", then what _resolve_split_dir returned (Null: none)
  pc,          \* the step run_evaluation is at
  use_trained, \* use_trained_model
  n_images,    \* len(images)
  idx,         \* loop index over images
  step,        \* 1 or 2: which upload of the pair comes next
  uploads,     \* preview artifacts uploaded, in order
  closed,      \* logger.close(...) has run
  exc,         \* Null, or the exception propagating to main()
  exit_code    \* Null, then main()'s return value

vars == <<listing, model_file, dataset, preview, request, split_dir, pc, use_trained, n_images, idx,
          step, uploads, closed, exc, exit_code>>

(* The outcome of one remote call. *)
CallResults == {"ok", "AnimusAPIError", "TimeoutError"}

(* model_filename.endswith(".npz") after str(...).strip().lower(): a      *)
(* filename is its extension and whether it is written in upper case.      *)
IsNpz(f) == f.ext = "npz"

(* An exception leaves run_evaluation: nothing after it runs, main()      *)
(* catches it.                                                             *)
Raise(e) == exc' = e /\ pc' = "exit"

(* Bug variant: prediction uploaded before its input. *)
PairOrderSwapped == <<"prediction", "input">>

(* The two upload_run_artifact calls of one image. *)
PairOrder == <<"input", "prediction">>

(* _normalize_split of the stripped, lower-cased value; "" is "evaluate". *)
NormalizeSplit(v) ==
  CASE v \in {"val", "valid", "validation"}   -> "validation"
    [] v \in {"eval", "evalute", "evaluate"}   -> "evaluate"
    [] OTHER -> IF v = "" THEN "evaluate" ELSE v

(* Bug variant: only the correctly spelled evaluate directory is tried. *)
SplitCandidatesNoTypo(split) == <<split>>

(* The directories _resolve_split_dir tries, in order. *)
SplitCandidates(split) ==
  IF split = "evaluate" THEN <<"evalute", "evaluate">> ELSE <<split>>

(* _resolve_split_dir: the first candidate that is a directory of the     *)
(* root, or None.                                                          *)
ResolveSplitDir(dirs, split) ==
  LET found == SelectSeq(SplitCandidates(split), LAMBDA d : d \in dirs)
  IN IF found = <<>> THEN Null ELSE Head(found)

(* Bug variant: the misspelled evaluate directory does not mark a root. *)
RootMarkersNoTypo == {"train", "validation", "test", "evaluate"}

(* The directory names _resolve_dataset_root looks for. *)
RootMarkers == {"train", "validation", "test", "evaluate", "evalute"}

(* _resolve_dataset_root as the wrapper depth it returns: at most two      *)
(* iterations, each returning the current directory when it holds a      *)
(* marker, descending into a single child when it holds nothing else, or  *)
(* giving up; giving up or running out yields the extracted directory.    *)
(* A descent into a split directory finds no marker below and ends at 0.  *)
RECURSIVE DatasetRoot(_, _, _)
DatasetRoot(ds, d, k) ==
  IF k = 2 THEN 0
  ELSE IF d = ds.depth /\ ds.dirs \cap RootMarkers # {} THEN d
  ELSE IF d < ds.depth /\ ~(d = 0 /\ ds.stray) THEN DatasetRoot(ds, d + 1, k + 1)
  ELSE 0

(* The directories of the resolved root: above the split directories it   *)
(* holds only the wrapper folder.                                          *)
RootDirs(ds) == IF DatasetRoot(ds, 0, 0) = ds.depth THEN ds.dirs ELSE {}

(* images = _iter_images(split_dir, limit=preview_samples) *)
SelectedImages(d, limit) == IF d < limit THEN d ELSE limit

(* Bug variant: the loop runs one image past the end. *)
MoreImagesPastEnd(i, n) == i < n

(* The `for idx, img in enumerate(images)` loop goes on after image i. *)
MoreImages(i, n) == i + 1 < n

(* main(): 0 when the job returns, 2 for AnimusAPIError, 1 otherwise. *)
ExitStatus(e) ==
  CASE e = Null             -> 0
    [] e = "AnimusAPIError" -> 2
    [] OTHER                -> 1

-----------------------------------------------------------------------------

Init ==
  /\ listing \in Listings
  /\ model_file \in ModelFiles
  /\ dataset \in Datasets
  /\ preview \in PreviewSamples
  /\ request \in SplitRequests
  /\ split_dir = "unscanned"
  /\ pc = "start"
  /\ use_trained = FALSE
  /\ n_images = 0
  /\ idx = 0
  /\ step = 1
  /\ uploads = <<>>
  /\ closed = FALSE
  /\ exc = Null
  /\ exit_code = Null

Inputs == <<listing, model_file, dataset, preview, request>>

(* _require_env of the four variables, the clients, the logger and the    *)
(* starting_evaluation status; a missing variable raises ValueError.       *)
Start ==
  /\ pc = "start"
  /\ \/ Raise("ValueError")
     \/ pc' = "list" /\ UNCHANGED exc
  /\ UNCHANGED <<Inputs, split_dir, use_trained, n_images, idx, step, uploads, closed, exit_code>>

(* list_run_artifacts; no artifact or a blank artifact_id raises          *)
(* RuntimeError("model_artifact_not_found").                               *)
ListArtifacts ==
  /\ pc = "list"
  /\ \E r \in CallResults :
       CASE r # "ok"                                 -> Raise(r) /\ UNCHANGED use_trained
         [] listing = Null \/ listing.artifact_id = "" -> Raise("RuntimeError") /\ UNCHANGED use_trained
         [] OTHER -> /\ use_trained' = IsNpz(listing.filename)
                     /\ pc' = "download_model"
                     /\ UNCHANGED exc
  /\ UNCHANGED <<Inputs, split_dir, n_images, idx, step, uploads, closed, exit_code>>

(* download_run_artifact of the model, then _load_model_npz for an .npz; *)
(* any other file is downloaded and the pass-through predictor is used.    *)
DownloadModel ==
  /\ pc = "download_model"
  /\ \E r \in CallResults :
       IF r # "ok" THEN Raise(r)
       ELSE /\ pc' = IF use_trained THEN "load" ELSE "download_dataset"
            /\ UNCHANGED exc
  /\ UNCHANGED <<Inputs, split_dir, use_trained, n_images, idx, step, uploads, closed, exit_code>>

(* np.load / json.loads / a missing tensor raise on a corrupt artifact. *)
LoadModel ==
  /\ pc = "load"
  /\ IF model_file = "corrupt" THEN Raise("CorruptArtifactError")
     ELSE pc' = "download_dataset" /\ UNCHANGED exc
  /\ UNCHANGED <<Inputs, split_dir, use_trained, n_images, idx, step, uploads, closed, exit_code>>

DownloadDataset ==
  /\ pc = "download_dataset"
  /\ \E r \in CallResults :
       IF r # "ok" THEN Raise(r) ELSE pc' = "scan" /\ UNCHANGED exc
  /\ UNCHANGED <<Inputs, split_dir, use_trained, n_images, idx, step, uploads, closed, exit_code>>

(* extractall, _resolve_dataset_root, _resolve_split_dir and _iter_images: a bad archive, a      *)
(* missing split or no image raise before any preview is uploaded.         *)
ScanSplit ==
  /\ pc = "scan"
  /\ CASE ~dataset.zip_ok   -> Raise("BadZipFile") /\ UNCHANGED <<n_images, split_dir>>
       [] OTHER ->
            LET d == ResolveSplitDir(RootDirs(dataset), NormalizeSplit(request.word))
            IN /\ split_dir' = d
               /\ CASE d = Null -> Raise("RuntimeError") /\ UNCHANGED n_images
                    [] SelectedImages(dataset.images, preview) = 0 ->
                         Raise("RuntimeError") /\ UNCHANGED n_images
                    [] OTHER -> /\ n_images' = SelectedImages(dataset.images, preview)
                                /\ pc' = "predict"
                                /\ UNCHANGED exc
  /\ UNCHANGED <<Inputs, use_trained, idx, step, uploads, closed, exit_code>>

(* Progress, then the prediction: _load_features and _predict_text for a  *)
(* trained model (an unreadable image or a vocabulary shorter than the    *)
(* heads raises), the label itself with confidence 1.0 otherwise.         *)
Predict ==
  /\ pc = "predict"
  /\ \/ pc' = "upload" /\ UNCHANGED exc
     \/ use_trained /\ \E e \in {"ImageDecodeError", "IndexError"} : Raise(e)
  /\ step' = 1
  /\ UNCHANGED <<Inputs, split_dir, use_trained, n_images, idx, uploads, closed, exit_code>>

(* The preview artifact of this step of the pair. *)
ThisPreview == [index |-> idx, role |-> PairOrder[step], trained |-> use_trained]

(* One upload_run_artifact of the pair; after the second the loop moves   *)
(* to the next image or ends.  A timeout can come before or after the     *)
(* server stored the artifact.                                             *)
UploadPreview ==
  /\ pc = "upload"
  /\ \/ \E e \in CallResults \ {"ok"} : Raise(e) /\ UNCHANGED <<uploads, step, idx>>
     \/ Raise("TimeoutError") /\ uploads' = Append(uploads, ThisPreview)
                              /\ UNCHANGED <<step, idx>>
     \/ /\ uploads' = Append(uploads, ThisPreview)
        /\ IF step = 1
             THEN step' = 2 /\ UNCHANGED <<pc, idx>>
             ELSE /\ idx' = idx + 1
                  /\ pc' = IF MoreImages(idx, n_images) THEN "predict" ELSE "finish"
                  /\ UNCHANGED step
        /\ UNCHANGED exc
  /\ UNCHANGED <<Inputs, split_dir, use_trained, n_images, closed, exit_code>>

(* The metric, the finished_evaluation status and logger.close. *)
Finish ==
  /\ pc = "finish"
  /\ closed' = TRUE
  /\ pc' = "exit"
  /\ UNCHANGED <<Inputs, split_dir, use_trained, n_images, idx, step, uploads, exc, exit_code>>

(* main() returns its status. *)
Exit ==
  /\ pc = "exit"
  /\ exit_code' = ExitStatus(exc)
  /\ pc' = "done"
  /\ UNCHANGED <<Inputs, split_dir, use_trained, n_images, idx, step, uploads, closed, exc>>

Next ==
  \/ Start \/ ListArtifacts \/ DownloadModel \/ LoadModel \/ DownloadDataset
  \/ ScanSplit \/ Predict \/ UploadPreview \/ Finish \/ Exit

(* Every step is a synchronous call that returns or raises (each request  *)
(* has a timeout), so the single thread always takes its next step.        *)
Spec == Init /\ [][Next]_vars /\ WF_vars(Next)

-----------------------------------------------------------------------------

Steps == {"start", "list", "download_model", "load", "download_dataset", "scan",
          "predict", "upload", "finish", "exit", "done"}

TypeOK ==
  /\ pc \in Steps
  /\ use_trained \in BOOLEAN
  /\ idx \in 0..n_images /\ step \in {1, 2}
  /\ uploads \in Seq([index : 0..(n_images - 1), role : {"input", "prediction"}, trained : BOOLEAN])
  /\ closed \in BOOLEAN
  /\ exit_code \in {Null, 0, 1, 2}

(* How many images the preview covers: the split's images up to the limit. *)
ImagesInSplit ==
  IF dataset.zip_ok /\ ResolveSplitDir(RootDirs(dataset), NormalizeSplit(request.word)) # Null THEN SelectedImages(dataset.images, preview) ELSE 0

(* The preview artifacts of n images, in the order a complete run uploads  *)
(* them: input 0, prediction 0, input 1, prediction 1, ...                 *)
Previews(n) ==
  [k \in 1..(2 * n) |-> [index |-> (k - 1) \div 2,
                         role  |-> IF k % 2 = 1 THEN "input" ELSE "prediction"]]

Uploaded == [k \in DOMAIN uploads |-> [index |-> uploads[k].index, role |-> uploads[k].role]]

(* The previews on the server after any run of run_evaluation, failed      *)
(* ones included, are complete input/prediction pairs in image order, plus *)
(* at most the input of the image whose prediction upload failed; no       *)
(* prediction is ever stored without its input.  A run that exits 0 has    *)
(* uploaded both artifacts of every selected image.                        *)
PreviewPairsInOrder ==
  /\ IsPrefix(Uploaded, Previews(ImagesInSplit))
  /\ exit_code = 0 => ImagesInSplit > 0 /\ Uploaded = Previews(ImagesInSplit)

(* The directories of a split of spec section 3: the evaluate split may   *)
(* be spelled "evalute"; any other name is its own directory.              *)
SpecSplitDirs(s) == IF s = "evaluate" THEN {"evaluate", "evalute"} ELSE {s}

(* The splits of spec section 3. *)
SpecSplits == {"train", "validation", "test", "evaluate"}

(* The archive has a directory of split s at its top level or inside one  *)
(* wrapping folder that is the only top-level entry (spec section 6,       *)
(* Dataset Provider).                                                      *)
ArchiveHasSplit(s) ==
  /\ dataset.dirs \cap SpecSplitDirs(s) # {}
  /\ dataset.depth = 0 \/ (dataset.depth = 1 /\ ~dataset.stray)

(* Whatever alias ANIMUS_EVAL_SPLIT uses for a split, _normalize_split and *)
(* _resolve_split_dir preview a directory of that split; for a split of    *)
(* the spec, _resolve_dataset_root's markers agree with those names, so    *)
(* dataset_missing_split is reported exactly when the archive has no       *)
(* directory of it at the top or under one wrapper folder.                 *)
RequestedSplitPreviewed ==
  split_dir # "unscanned" =>
    /\ split_dir \in SpecSplitDirs(request.means) \cup {Null}
    /\ request.means \in SpecSplits =>
         (split_dir = Null <=> ~ArchiveHasSplit(request.means))

=============================================================================
