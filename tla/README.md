# TLA+ models of the animus demo OCR trainer

This directory holds TLA+ models of the demo OCR job in
`src/open/demo/learn/main.py` and the SDK it uses under
`src/sdk/python/src/animus_sdk/`. It also holds the TLC configurations that
check them. `PROJECT.json` lists the components, the runs, the mutants that show
each property can fail, the source lines behind every definition, the findings
and the hazards.

## 1. Inventory

The program is one sequential Python process. Its state lives in local
variables and files. Nothing runs concurrently. The only waiting is the pacing
`time.sleep` at the end of each epoch. What makes it hard is ordering and edge
cases: long loops whose bookkeeping must line up, fallbacks chosen by the shape
of the dataset, floating-point edge values (ties, NaN, inf), artifacts the
program did not write itself, and failures partway through a sequence of remote
calls.

| Component | Code | State it keeps | Operations | Interacts with |
|---|---|---|---|---|
| Config parsing | `_as_int`, `_as_float`, `_clamp_*`, `_parse_train_config` (31-67, 162-186) | none (a frozen `TrainConfig`) | parse each parameter, try the legacy key if the new one is missing, clamp | run parameters from `experiments.get_run` |
| Dataset split scan | `_resolve_dataset_root`, `_resolve_split_dir`, `_iter_images`, run_training 504-528 | resolved root, image lists, `val_source` | descend through wrapper folders, check split directories, cap the scans, fall back to train images | the extracted archive (filesystem) |
| Label codec | `_build_vocab`, `_encode_labels`, run_training 530-537, decode in `_predict_text` | vocabulary, `max_label_len`, encoded targets | build, encode, decode | trainer (targets), serializer (vocab in config), predictor |
| Feature extractor | `_load_features`, normalisation 543-548 | feature tensors, mean/std | decode, resize, scale, normalise | PIL, trainer, serializer (mean/std) |
| Sequence MLP | `_relu`, `_softmax`, `_eval_model`, forward/backward in `_train_mlp` | w1, b1, w2, b2 | forward, loss and accuracy, SGD step | trainer, predictor |
| Trainer | `_train_mlp` (264-390) | epoch, permutation, batch index, live parameters, `best_val_loss`, `best_snapshot` | shuffle, train batch, evaluate, checkpoint, report, pace, finish | telemetry logger (write-only), MLP |
| Model serializer | `_save_model_npz`, `_load_model_npz` (393-421) | the `.npz` file | merge mean/std into config and save, load with defaults | trainer output, evaluation job |
| Predictor | `_predict_text` (424-455) | none | normalise, forward, argmax + clamp, vocab lookup, pop trailing pad, confidence | loaded model |
| Training job | `run_training` (458-575) | temp dir, logger | status, get params, download, extract, scan, labels, features, train, save, upload, finish, close | SDK clients, telemetry |
| Evaluation job | `run_evaluation` (578-700) | temp dir, logger | list the latest model artifact, pick the trained or passthrough predictor, download, scan the split, two preview uploads per image | SDK clients |
| Exit status | `main` (703-716) | none | dispatch on job kind; map `AnimusAPIError` to 2, other exceptions to 1 | jobs |
| HTTP client | `request_json` (http_client.py) | none | build the request, turn each response or failure into a result or `AnimusAPIError` | urllib |
| Experiments client | `ExperimentsClient`, `compute_ci_webhook_signature` (experiments.py) | gateway URL, token | request builders, HMAC | `request_json` |

The source tree is partial. `main.py` imports `DatasetRegistryClient`,
`RunTelemetryLogger` and `animus_sdk.errors`, and it calls
`ExperimentsClient.get_run`, `list_run_artifacts`, `upload_run_artifact` and
`download_run_artifact`. None of these is in this tree. They are modelled only at
their interface: a call returns or raises.

What each component needs in order to be correct:

* **Trainer.** Each epoch uses every training row exactly once, including the
  short last batch. The returned model is the first epoch with the smallest
  validation loss. A NaN loss never becomes the best. The snapshot is a copy.
* **Split scan.** The documented layouts are found. The trainer always gets a
  non-empty train set and a non-empty validation set. The train fallback
  validates on images that were trained on, as spec §9 describes.
* **Label codec.** Decoding an encoded label gives back the label, cut to the
  clamped width. Padding is stripped only at the end.
* **Predictor.** Each vocabulary lookup stays inside the vocabulary. The
  confidence covers exactly the positions that are kept, a NaN included.
* **Serializer.** `load(save(m))` gives back the config and statistics. Missing
  statistics load as their defaults.
* **Jobs and exit status.** Every failure ends in the documented exit status.
  Previews come in input/prediction pairs. The final status is sent and the
  logger is flushed.

## 2. Plan and status

1. **Trainer + CheckpointSelection** (done): the loop of `_train_mlp` and the
   abstract promise it refines.
2. **LabelCodec / LabelPrep** (done): the codec as pure operators and the
   label-preparation block of `run_training`.
3. **DataSplits** (done): root resolution and split selection.
4. **Predictor** (done, partly): `_predict_text` over a loaded model's config.
5. **ConfigParser** (done): `_parse_train_config` over tagged JSON values.
6. **HttpClient** (done) and **ExperimentsApi** (done): `request_json` and one
   `ExperimentsClient` call composed with it, ending in `main`'s exit status.
7. **TrainingJob** (done) and **EvaluationJob** (done): the two jobs as
   sequences of steps, each able to fail. TrainingJob composes DataSplits.
8. **Serializer and handoff** (done): ModelHandoff composes LabelPrep, the
   statistics, `_train_mlp`'s config, save, load and the evaluation's use of
   what it loaded.
9. **Run lifecycle** (done, in JobMain): an evaluation process started after a
   training process of the same run, the two sharing only the server's model
   artifacts. A repeated training of the same run is the platform's decision
   and is not modelled.

Not planned: the feature extractor's pixels (its shape and its failure are
modelled), softmax/ReLU arithmetic and the
webhook HMAC. They are numeric or cryptographic, and TLC cannot say anything
useful about them.

## 3. Modules and how they map to the code

* `Trainer.tla` models `_train_mlp`. Its variables are the loop's own: `epoch`,
  `perm`, `batch_idx`, `best_val_loss`, `best_snapshot`. `params` counts the
  in-place SGD updates of w1/b1/w2/b2, and two history variables (`seen`,
  `evals`) exist only for the properties. Actions:
  * `StartEpoch`: the permutation is drawn from all permutations.
  * `TrainBatch`: one minibatch on the slice `perm[start:start+bs]`, clipped at
    the end.
  * `EndEpoch`: evaluation, the strict-improvement snapshot, the telemetry calls
    and the pacing sleep. The telemetry and the sleep leave no state.
  * `Finish`: restores the snapshot, or reports 0.0.

  A snapshot is a record `[kind, params]`. `TakeSnapshot` is the `.copy()` of
  line 346. `Restored` is what line 372 gets back: a copy keeps its update count,
  but an alias (the `SnapshotAliased` mutant) follows the live tensors.
* `CheckpointSelection.tla` is the abstract promise of the loop. `Evaluate`
  appends one (loss, params) evaluation, and `Return`, once all epochs are
  evaluated, sets `result` to `Selected(evals)`: the first epoch with the
  smallest non-NaN loss, or the last epoch's model with loss 0. `Trainer`
  instantiates it as `Selection`. The refinement mapping is `evals` for the
  history, and `result` is the returned `(model, val_loss_out)` once
  `pc = "done"`. `StartEpoch` and `TrainBatch` are stuttering steps of the
  abstract spec.
* `LabelCodec.tla` has the operators `BuildVocab`, `EncodeLabel(s)`,
  `MaxLabelLen`, `StripTrailingPad` (RECURSIVE) and `Decode`. Characters are code
  points. `PAD_TOKEN` is a model value; it is five characters long and can never
  be a label character.
* `LabelPrep.tla` has one action, `PrepareLabels`, which is lines 530-537.
* `DataSplits.tla` abstracts an archive to wrapper depth, a stray top-level
  entry, a test/evaluate directory, and image counts for `train/` and
  `validation/`. `ResolveRoot` (RECURSIVE) follows the two-iteration loop of
  `_resolve_dataset_root`. The actions are `ResolveDatasetRoot`, the two errors
  `MissingTrainSplit` and `EmptyTrainSplit`, and `ScanSplits` with both
  validation fallbacks.
* `Predictor.tla` is one call of `_predict_text` on a loaded model: the config
  vocab (or missing), the config pad_token, the tensors' output dimension, and
  each head's argmax and probability. `RejectVocab` and `Predict` are the two
  ways the call can go.
  The constant `NaN` is a head whose softmax overflowed. `PyLt` is Python's
  `<`, and `MinOfSeq` is Python's `min()`: a fold that keeps the current item
  unless a later one compares smaller.
* `ModelHandoff.tla` follows a model from `run_training` to the evaluation.
  It instantiates `Prep == INSTANCE LabelPrep` for the labels, then:
  * `Train`: the statistics with the `std < 1e-6` floor (`TrainingStd`) and the
    model `_train_mlp` returns: its config (`ModelConfig`) and tensor shapes.
  * `Save`: `_save_model_npz` merges pixel_mean/pixel_std into the config and
    writes it with `json.dumps` (`Dumps`: a JSON object as a set of members).
  * `Load`: `_load_model_npz` parses it (`Loads`) with the 0.0/1.0 defaults
    (`GetOr` is `dict.get`).
  * `Predict`: the evaluation's trained branch: the image size read back from
    the config with its own defaults and clamps (`EvalWidth`, `EvalHeight`),
    the normalisation (`EvalNorm`), `x @ w1.T` raising `ValueError` on a
    feature length mismatch, and decoding with the stored vocabulary and pad.

  The network is abstracted to one fact: fed its training image exactly as in
  training, a model that fits its targets predicts them; fed anything else its
  prediction is `Garbled`. Statistics are whole numbers of 1e-6.
* `ConfigParser.tla` has `_as_int`, `_as_float`, `_clamp_int`, `_clamp_float`
  and `_parse_train_config` as operators, and one action `Parse` (line 474). A
  parameter is a tagged JSON value: none, bool, int, float, or string. Floats
  are fixed-point (1/10000), plus the model values NaN, PosInf and NegInf.
  An int may be the model value `HugeInt`, an int of 1024 bits or more:
  `IntLt` compares it above every bound, and `float()` of it raises
  `OverflowError` (`AsFloat`). The fields are converted in the code's order,
  so the first conversion that raises ends the parse.
  `FLt` is Python's `<` (false with NaN), and `ClampFloat` is
  `max(lo, min(hi, v))` exactly as Python evaluates it, so NaN becomes `hi`. A
  string is abstracted to what `int()` and `float()` make of it.
* `HttpClient.tla` is `request_json`. Its variables are the call's arguments,
  the environment token, the headers `sent`, the `phase` of urllib, the
  response `status` and the `outcome` (returned value or raised exception).
  Actions:
  * `BuildRequest`: lines 20-42.
  * `ConnectFails`: a `URLError`.
  * `ResponseStalls`: a timeout waiting for headers, which is not a
    `URLError`.
  * `Answer` and `Reject`: a 2xx response, or an HTTPError.
  * `ReadBody`: lines 46-62, including a read timeout and the `status >= 400`
    branch that urllib never lets through.
  * `ReadErrorBody`: lines 63-83.

  A token is its non-blank core plus a flag for surrounding whitespace. A body
  is the kind of JSON document it is.
* `ExperimentsApi.tla` is one `ExperimentsClient` method, chosen from its five,
  composed with `Http == INSTANCE HttpClient` (the variables are shared by
  name). Actions:
  * `BuildCall`: the request arguments, the `create_run` body filter, the git
    re-fetch and the blank-secret `ValueError`.
  * `RequestStep`: one step of `request_json`.
  * `CheckResult`: the `assert isinstance(out, dict)`.
  * `Exit`: main's exit status.

  `get_git_metadata` (git.py, not in this tree) is an input.
* `EvaluationJob.tla` is `run_evaluation` plus main's exit status. It has one
  action per step: `Start`, `ListArtifacts`, `DownloadModel`, `LoadModel`,
  `DownloadDataset`, `ScanSplit`, `Predict`, `UploadPreview` (one per upload of
  the pair) and `Finish`, then `Exit`. Every remote call returns, raises
  `AnimusAPIError`, or times out. The listing, the .npz file, the dataset and
  the requested split are inputs fixed for the run. A dataset is its split
  directories, the single wrapper folders above them and whether a file sits
  beside the top one. `DatasetRoot` is `_resolve_dataset_root` and `RootDirs`
  the directories it leaves `_resolve_split_dir`. `UploadPreview` can also time
  out after the server stored the preview. `NormalizeSplit` is `_normalize_split` of
  the stripped, lower-cased ANIMUS_EVAL_SPLIT. `ResolveSplitDir` tries
  `SplitCandidates` in order, and `ScanSplit` records what it found in
  `split_dir`. An upload is recorded as (image index, role, predictor).
* `TrainingJob.tla` is `run_training` plus main's exit status, as the
  `Pipeline` of steps. Each step returns or raises (`Step`). The split scan is
  `Splits == INSTANCE DataSplits` run inside the `scan` step. `Save` writes the
  model or raises `OSError`. `Upload` can time out before or after the server
  stored the model. `stored` is the server's count, kept apart from what the job
  knows.
* `JobMain.tla` is `main()`. `JobOf` is the ANIMUS_JOB_KIND dispatch: "evaluation"
  in any case and padding runs `run_evaluation`, anything else (unset, "eval")
  runs `run_training`. It instantiates `Eval == INSTANCE EvaluationJob` and
  `Train == INSTANCE TrainingJob`, which share `pc`, `closed`, `exc` and
  `exit_code` with it by name. `Next` lets the selected job take its steps and
  leaves the other job's variables alone (`JobStep`). Each job's own invariants
  are checked for the kind that runs it. The inputs of the job that does not
  run are pinned to one value (`IdleInputs`), since nothing reads them; this is
  a reduction of the state space, not code, and has no entry in the map.
  `Evaluate` is the platform starting main() again as an evaluation of the
  same run once a training process has exited. The training's locals are
  gone; the server keeps `stored`. The new process lists `TrainedListing`
  (model.npz) if the training stored it, and nothing otherwise.

Mutants are the "Bug variant" operators. Each sits just before the definition
it replaces.

## 4. Runs

| Run | Checks | Shows |
|---|---|---|
| `trainer` | TypeOK, EachRowOncePerEpoch, ImplementsCheckpointSelection (PROPERTY) | The batches cover each row once per epoch. The loop refines CheckpointSelection: the result is the first minimal-loss epoch, even though later epochs update the tensors in place. |
| `handoff` | TypeOK, PredictsTrainedLabels | A trained, saved and loaded model is fed features of its training size and normalisation, and reads back every training label cut to the clamped width. Vocabulary, pad, image size and the floored statistics survive save and load. |
| `data_splits_val_prefix` (violation) | TrainFallbackValidatesOnTrainedImages | Without `validation/`, the validation images can include images that were never trained on. |
| `predictor` | TypeOK, ConfidenceOfKeptPositions | The confidence is 0 exactly for empty text, otherwise the minimum over kept positions. |
| `predictor_nan` (violation) | NaNConfidenceNotHidden | A NaN probability that is not at the first kept position is skipped by `min()`, so the confidence looks finite. |
| `predictor_vocab` (violation) | LookupStaysInVocabulary | A vocab shorter than w2's output dimension makes prediction raise IndexError. |
| `config` | TypeOK, FloatsFiniteAndBounded, ParseFailsOnlyOnUnconvertibleNumber | Every parsed config has finite floats in range. The parse raises only on a NaN/inf float in an integer key or an int of 1024+ bits in a float key, and always when `train_epochs` or `train_lr` holds one. |
| `config_legacy_nan` (violation) | LegacyPacingReplacesInvalid | A NaN `train_min_epoch_seconds` skips the legacy key and becomes 60 s. |
| `experiments` | TypeOK, ExitStatusMatchesResponse, BearerTokenNonBlank, ErrorDescribesResponse | Exit 0 only after a 2xx JSON object, and 2 after every error status. request_json (HttpClient, composed) never sends a blank Bearer token, and every AnimusAPIError carries the right status, code and request id. |
| `experiments_timeout` (violation) | CollaboratorFailureExitsTwo | A timeout escapes as a socket error and the job exits 1, not 2. |
| `experiments_git` (violation) | GitFieldsOnlyWithCommit | `create_run_with_git` without a commit still sends git_repo and git_ref. |
| `job_main` | TypeOK, PreviewPairsInOrder, RequestedSplitPreviewed, EvaluatesTrainedModel, AtMostOneModelArtifact, RootFoundUnderOneWrapper, ScanYieldsNonEmptySplits | For the job main() selects: an evaluation previews the split ANIMUS_EVAL_SPLIT names under any alias. For a split of the spec, it reports a missing split exactly when the archive has no directory of it at the top or under one wrapper folder, so `_resolve_dataset_root`'s markers agree with the split names. An evaluation that follows a training of the run exits 0 only if the training stored its model (a timed-out upload included), and then every preview came from that model. A training's split scan finds the documented layouts and hands on non-empty capped splits; an evaluation's stored previews are complete pairs in image order plus at most one dangling input, and a job that exits 0 uploaded both artifacts for every selected image. A training leaves at most one model artifact, the saved one; it exits 0 only after storing it and closing the logger, and a failed training leaves a model only after a lost upload answer. |

Bounds:

* **Trainer.** 5 rows in batches of 4, so there is one full batch and one short
  one. 3 epochs over losses {1, 2} and NaN give ties, improvements, NaN epochs
  and all-NaN runs.
* **ModelHandoff.** Two training labels from label sets of 0, 1, 2, 4 and 17
  characters, which covers both width clamps. Widths {16, 32} and heights
  {12, 24} include 16x24 and 32x12, which have the same feature length. The std
  is 0, 1e-6 or 0.25, so the floor fires, just misses, or does nothing. The
  mean is 0 or 0.4, so a lost mean is visible.
* **DataSplits** (inside `job_main`). Each split has 0, 1 or 11 images. The
  caps are 10 (the minimum) and 11. The wrapper depth is 0-2.
* **Predictor.** 3 heads, so a pad can sit between characters. There is one
  foreign vocab that is shorter than the tensors. `predictor_nan` uses the
  trained vocabularies and probabilities {1, NaN}.
* **ConfigParser.** The 5 keys that have fallbacks or float semantics, each
  over 13 values: none, bool, ints on both sides of each bound, an int too
  large for a float, a fraction, NaN, ±inf, a numeric string, and a
  non-numeric string. That is 13^5
  parameter dictionaries.
* **HttpClient / ExperimentsApi.** All three request shapes (GET, JSON POST,
  data POST with caller headers). The tokens are absent, blank with padding, or
  padded. The statuses are two 2xx and two errors. The bodies are every JSON
  kind, plus unreadable bodies and timeouts.
* **JobMain.** Job kinds: "training", padded upper-case "evaluation", and
  "eval". Evaluation listings: none, a blank id, .npz in lower and upper case,
  and another file. Datasets: a bad zip; split directories train/validation,
  the misspelled `evalute` alone or beside `evaluate`, test plus a custom
  `dev`, or `dev` alone (one image each), at the top, under one wrapper folder,
  or under one wrapper beside a stray file; `evaluate` under two wrappers;
  `evaluate` with 0, 1 or 3 images. Requested splits: unset,
  `evalute`, `val`, `valid`, `test` and `dev`. Preview limits 1, 2 and 3, so
  "the limit cuts", "equal" and "the split is smaller" all happen.
  Training: the DataSplits layouts, with 0, 1 or 11 images per split and caps 10
  and 11 for both splits. Every step can fail in each way the code allows. Each
  training may be followed by an evaluation. The search reaches about 110,000
  states.

Fairness: each `Spec` has weak fairness on the job's steps (`WF_vars(JobStep)`
in JobMain). The process is one synchronous thread. Every remote call has a
timeout (30 s or 60 s), and every other step is computation or local I/O that
returns or raises. Whether the platform then evaluates the run is not the
code's doing, so `Evaluate` has no fairness. No liveness property is checked.
Each job is a forward pipeline whose only loops (epochs, preview images) are
bounded, and nothing is retried, so termination follows from the shape of the
code and a property stating it would only restate the model.

Deadlock: every module models code that ends (a function returns, a job exits).
Each cfg therefore disables deadlock checking and says why.

## 5. Findings

1. **Validation fallback** (`data_splits_val_prefix`, main.py:519). Spec §9
   says a prefix of the training split is reused. When the validation cap
   exceeds the train cap, images that were not trained on are used instead.
2. **Vocabulary clamp** (`predictor_vocab`, main.py:445). The clamp uses
   `w2.shape[1]`, not the vocab length. Spec §4.6/§4.5 promise a clamp into the
   vocabulary and a `CorruptArtifactError`.
3. **NaN pacing** (`config_legacy_nan`, main.py:172). The legacy key is consulted
   only when the new value is `< 0`, and NaN is not. Spec §6 says the legacy key
   replaces an invalid one. `_clamp_float(nan)` returns 60.0.
4. **Timeouts exit 1** (`experiments_timeout`, http_client.py:46).
   `request_json` catches only `HTTPError` and `URLError`. A timeout while
   waiting for the response, or while reading it, escapes as a socket error.
   `main` then returns 1. Spec §7 reserves one status for collaborator failures.
5. **Git fields without a commit** (`experiments_git`, experiments.py:114).
   `create_run_with_git` passes `git=None` to leave the git fields out.
   `create_run` treats None as "not given" and fetches the metadata again, so
   repo and ref are sent without a commit.
6. **NaN confidence hidden** (`predictor_nan`, main.py:454). `min(confs)`
   keeps its first item unless a later one compares smaller, and NaN never
   does. A head whose softmax overflowed is reported as NaN only at the first
   kept position; elsewhere it is skipped. Spec §4.6 defines the confidence
   as the minimum over all kept positions.

Observations outside the runs:

* The logger is closed, and the final status sent, only on the success path of
  both jobs (`closed` holds exactly when the exit status is 0).
* A model upload whose answer times out leaves a model on the server while the
  job exits 1.
* `main.py` imports `DatasetRegistryClient` and `RunTelemetryLogger`, which the
  SDK's `__init__.py` does not export. It also calls four `ExperimentsClient`
  methods that `experiments.py` does not define. Against this tree, both jobs
  fail at import or at the first such call.

## 6. Not modelled, and why

* **Pixel values, resizing, ReLU/softmax arithmetic and gradients.** This is
  floating-point tensor math. Its only effect on control flow is the loss value
  and the argmax, and the models choose those nondeterministically, NaN
  included.
* **Telemetry contents and pacing time.** The logger is write-only from the
  job's side, and sleeping only delays the job.
* **The webhook HMAC, URLs and `_format_dt`.** These are pure formatting and
  crypto.
* **The tensor values in the .npz file.** The serializer is modelled by the
  config and statistics it carries and by the tensors' shapes; `astype(float32)`
  rounding does not change control flow.
* **Server behaviour** (artifact ordering, retries) and the SDK pieces that are
  absent from this tree (`get_git_metadata`, the artifact and dataset clients,
  the telemetry logger). They are modelled only as calls that return or raise.
