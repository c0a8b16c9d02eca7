----------------------------- MODULE TrainingJob -----------------------------
(***************************************************************************)
(* run_training of src/open/demo/learn/main.py, step by step, with the     *)
(* exit status main() gives it.  The split scan is DataSplits, composed    *)
(* through INSTANCE; parsing, labels, features and the training loop are   *)
(* ConfigParser, LabelPrep and Trainer, and appear here only as steps      *)
(* that return or raise.                                                   *)
(*                                                                         *)
(* Every remote call returns, raises AnimusAPIError, or a socket timeout   *)
(* escapes request_json (see HttpClient).  A timeout can hit after the     *)
(* server has stored an upload and before its answer arrives, so the       *)
(* server's artifacts (`stored`) are kept apart from what the job knows.   *)
(***************************************************************************)
EXTENDS Naturals, Sequences, SequencesExt

CONSTANTS
  FileCounts, MaxTrain, MaxVal, Absent,   \* DataSplits' inputs
  Null

VARIABLES
  layout, cfg, root, train_images, val_images, val_source, scan,   \* DataSplits'
  pc,         \* the step run_training is at
  saved,      \* model.npz written by _save_model_npz
  stored,     \* number of model artifacts the server holds for the run
  closed,     \* logger.close(...) has run
  exc,        \* Null, or the exception propagating to main()
  exit_code   \* Null, then main()'s return value

split_vars == <<layout, cfg, root, train_images, val_images, val_source, scan>>

job_vars == <<pc, saved, stored, closed, exc, exit_code>>

vars == <<split_vars, job_vars>>

Splits == INSTANCE DataSplits WITH outcome <- scan

(* The outcome of one remote call. *)
CallResults == {"ok", "AnimusAPIError", "TimeoutError"}

(* The steps of run_training in the order the code takes them. *)
Pipeline ==
  <<"start", "get_run", "parse", "download", "extract", "scan", "features",
    "train", "save", "upload", "finish">>

(* The step after step s when s returns normally. *)
After(s) ==
  LET i == CHOOSE i \in 1..(Len(Pipeline) - 1) : Pipeline[i] = s
  IN Pipeline[i + 1]

(* An exception leaves run_training: nothing after it runs (neither the    *)
(* finished status nor logger.close), main() catches it.                   *)
Raise(e) == exc' = e /\ pc' = "exit"

(* Bug variant: a failed upload retried in place. *)
UploadRetried(e) == exc' = e /\ UNCHANGED pc

(* A failed upload_run_artifact propagates like any other exception. *)
UploadFails(e) == exc' = e /\ pc' = "exit"

(* main(): 0 when the job returns, 2 for AnimusAPIError, 1 otherwise. *)
ExitStatus(e) ==
  CASE e = Null             -> 0
    [] e = "AnimusAPIError" -> 2
    [] OTHER                -> 1

-----------------------------------------------------------------------------

Init ==
  /\ Splits!Init
  /\ pc = "start"
  /\ saved = FALSE
  /\ stored = 0
  /\ closed = FALSE
  /\ exc = Null
  /\ exit_code = Null

(* Step s returns normally (no exception is propagating), or raises one  *)
(* of errs.                                                               *)
Step(s, errs) ==
  /\ pc = s
  /\ \/ pc' = After(s) /\ exc' = Null
     \/ \E e \in errs : Raise(e)
  /\ UNCHANGED <<split_vars, saved, stored, closed, exit_code>>

(* _require_env of the four variables (ValueError), the clients, the       *)
(* logger and the starting status.                                         *)
Start == Step("start", {"ValueError"})

(* experiments.get_run *)
GetRun == Step("get_run", CallResults \ {"ok"})

(* _parse_train_config raises ValueError or OverflowError for a NaN or    *)
(* infinite float in an integer parameter, and OverflowError for an int   *)
(* of 1024 bits or more in a float parameter (ConfigParser).              *)
Parse == Step("parse", {"ValueError", "OverflowError"})

(* datasets.download_dataset_version *)
DownloadDataset == Step("download", CallResults \ {"ok"})

(* zipfile.ZipFile(...).extractall *)
Extract == Step("extract", {"BadZipFile"})

(* One step of the split scan (DataSplits). *)
ScanStep ==
  /\ pc = "scan"
  /\ Splits!Next
  /\ UNCHANGED job_vars

(* The scan is over: a RuntimeError, or on to labels and features. *)
ScanDone ==
  /\ pc = "scan"
  /\ scan \notin {"start", "resolved"}
  /\ IF scan = "scanned" THEN pc' = After("scan") /\ exc' = Null
     ELSE Raise("RuntimeError")
  /\ UNCHANGED <<split_vars, saved, stored, closed, exit_code>>

(* Labels, vocabulary, _load_features (an unreadable image raises) and    *)
(* the normalisation statistics.                                           *)
Features == Step("features", {"ImageDecodeError"})

(* _train_mlp (Trainer): pure computation, it returns. *)
Train == Step("train", {})

(* _save_model_npz writes model.npz; the write can fail. *)
Save ==
  /\ pc = "save"
  /\ \/ pc' = After("save") /\ saved' = TRUE /\ exc' = Null
     \/ Raise("OSError") /\ UNCHANGED saved
  /\ UNCHANGED <<split_vars, stored, closed, exit_code>>

(* experiments.upload_run_artifact of model.npz.  A timeout can come       *)
(* before or after the server stored the artifact.                         *)
Upload ==
  /\ pc = "upload"
  /\ \/ pc' = After("upload") /\ stored' = stored + 1 /\ exc' = Null
     \/ \E e \in CallResults \ {"ok"} : UploadFails(e) /\ UNCHANGED stored
     \/ UploadFails("TimeoutError") /\ stored' = stored + 1
  /\ UNCHANGED <<split_vars, saved, closed, exit_code>>

(* The finished status and logger.close(flush=True). *)
Finish ==
  /\ pc = "finish"
  /\ closed' = TRUE
  /\ pc' = "exit"
  /\ UNCHANGED <<split_vars, saved, stored, exc, exit_code>>

(* main() returns its status. *)
Exit ==
  /\ pc = "exit"
  /\ exit_code' = ExitStatus(exc)
  /\ pc' = "done"
  /\ UNCHANGED <<split_vars, saved, stored, closed, exc>>

Next ==
  \/ Start \/ GetRun \/ Parse \/ DownloadDataset \/ Extract \/ ScanStep \/ ScanDone
  \/ Features \/ Train \/ Save \/ Upload \/ Finish \/ Exit

(* A single synchronous thread whose every call returns or raises (each    *)
(* request has a timeout): it always takes its next step.                  *)
Spec == Init /\ [][Next]_vars /\ WF_vars(Next)

-----------------------------------------------------------------------------

TypeOK ==
  /\ Splits!TypeOK
  /\ pc \in Range(Pipeline) \cup {"exit", "done"}
  /\ saved \in BOOLEAN /\ closed \in BOOLEAN
  /\ stored \in Nat
  /\ exit_code \in {Null, 0, 1, 2}

(* A training job leaves at most one model artifact on the server, and it  *)
(* is the saved model; a job that exits 0 has stored it and closed the     *)
(* logger; the only failed job that leaves a model behind is one whose     *)
(* upload answer timed out after the server stored it.                     *)
AtMostOneModelArtifact ==
  /\ stored <= 1
  /\ stored = 1 => saved
  /\ exit_code = 0 => stored = 1 /\ closed
  /\ (stored = 1 /\ exit_code \notin {Null, 0}) => exc = "TimeoutError"

=============================================================================
