---------------------------- MODULE ModelHandoff ----------------------------
(***************************************************************************)
(* How a trained model travels from run_training to run_evaluation        *)
(* (src/open/demo/learn/main.py): the labels (LabelPrep), the pixel       *)
(* statistics and the config _train_mlp writes, _save_model_npz, the      *)
(* artifact, _load_model_npz, and what the evaluation does with what it   *)
(* loads: the image size read back from the config, the normalisation by  *)
(* the stored statistics, and _predict_text's decoding with the stored    *)
(* vocabulary and pad token.  Upload and download carry the file          *)
(* unchanged; their failures are TrainingJob's and EvaluationJob's.       *)
(*                                                                         *)
(* The network is abstracted to what the evaluation can rely on: fed one  *)
(* of its training images exactly as in training, a model that fits its   *)
(* targets predicts the target; fed the image resized or normalised       *)
(* differently it predicts something unknown (Garbled); fed a feature     *)
(* vector of another length, x @ w1.T raises ValueError.  Pixel           *)
(* statistics are whole numbers of 1e-6.                                   *)
(***************************************************************************)
EXTENDS LabelCodec

CONSTANTS
  LabelSet, MaxSamples,   \* LabelPrep's
  Widths, Heights,  \* cfg.image_width and cfg.image_height (already clamped)
  StdMicros,        \* float(x_train.std())
  MeanMicros,       \* float(x_train.mean())
  Garbled,          \* model value: a prediction nothing can be said about
  None              \* model value: nothing yet

VARIABLES
  train_labels, val_labels, max_label_len, vocab, y_train, y_val, prepared,  \* LabelPrep's
  width, height, std_raw, mean,   \* the training run's inputs
  stage,     \* "labels", "train", "save", "load", "predict", "done"
  norm,      \* <<mean, std>> run_training normalised x_train and x_val with
  model,     \* the TrainedModel _train_mlp returns (shapes and config)
  archive,   \* model.npz as _save_model_npz wrote it
  loaded,    \* what _load_model_npz returned
  preds,     \* the evaluation's prediction for each training image
  outcome    \* "ok" or the exception the evaluation's prediction raised

handoff_vars == <<width, height, std_raw, mean, stage, norm, model, archive,
                  loaded, preds, outcome>>

Prep == INSTANCE LabelPrep

prep_vars == <<train_labels, val_labels, max_label_len, vocab, y_train, y_val, prepared>>

vars == <<prep_vars, handoff_vars>>

OneMicro == 1000000

(* Bug variant: the std < 1e-6 guard dropped. *)
TrainingStdUnfloored(s) == s

(* std = float(x_train.std()); if std < 1e-6: std = 1.0 *)
TrainingStd(s) == IF s < 1 THEN OneMicro ELSE s

(* Bug variant: the image size left out of the model config. *)
ModelConfigNoSize(w, h, seq_len, voc) ==
  ("schema" :> "schema") @@ ("hidden_size" :> 16) @@ ("max_label_len" :> seq_len)
  @@ ("pad_token" :> Pad) @@ ("vocab" :> voc) @@ ("seed" :> 17)

(* model_cfg of _train_mlp. *)
ModelConfig(w, h, seq_len, voc) ==
  ("schema" :> "schema") @@ ("image_width" :> w) @@ ("image_height" :> h)
  @@ ("hidden_size" :> 16) @@ ("max_label_len" :> seq_len)
  @@ ("pad_token" :> Pad) @@ ("vocab" :> voc) @@ ("seed" :> 17)

(* The shape of _load_features(paths, width=w, height=h): one row per     *)
(* image, each the w x h grayscale image flattened.                        *)
LoadFeaturesShape(n, w, h) == <<n, w * h>>

(* json.dumps of a dict: a JSON object, the set of its members (sort_keys *)
(* only fixes the order they are written in).                              *)
Dumps(cfg) == {<<k, cfg[k]>> : k \in DOMAIN cfg}

(* json.loads of such an object: ints, strings, lists of strings and      *)
(* finite floats read back as the values they were written from.           *)
Loads(doc) == [k \in {m[1] : m \in doc} |-> (CHOOSE m \in doc : m[1] = k)[2]]

(* cfg.get(key, default) *)
GetOr(cfg, k, default) == IF k \in DOMAIN cfg THEN cfg[k] ELSE default

(* _save_model_npz: the config with pixel_mean and pixel_std set, as JSON, *)
(* and the four tensors (their shapes).                                    *)
SaveModelNpz(m, mean_, std_) ==
  [config_json |-> Dumps(("pixel_mean" :> mean_) @@ ("pixel_std" :> std_) @@ m.config),
   w1 |-> <<m.hidden, m.feat_dim>>, w2 |-> <<m.heads, m.outputs, m.hidden>>]

(* _load_model_npz: the parsed config, pixel_mean (0.0 if absent),         *)
(* pixel_std (1.0 if absent), and the tensors.                             *)
LoadModelNpz(a) ==
  LET cfg == Loads(a.config_json)
  IN [config |-> cfg, mean |-> GetOr(cfg, "pixel_mean", 0),
      std |-> GetOr(cfg, "pixel_std", OneMicro), w1 |-> a.w1, w2 |-> a.w2]

(* Bug variant: the evaluation clamps the width from 32. *)
EvalWidthFrom32(cfg) == ClampInt(GetOr(cfg, "image_width", 96), 32, 512)

(* _clamp_int(_as_int(model_cfg.get("image_width"), 96), lo=16, hi=512);   *)
(* the stored value is an int, which _as_int returns as it is.             *)
EvalWidth(cfg) == ClampInt(GetOr(cfg, "image_width", 96), 16, 512)

EvalHeight(cfg) == ClampInt(GetOr(cfg, "image_height", 24), 8, 256)

(* x = (x - float(mean)) / max(1e-6, float(std)) *)
EvalNorm(l) == <<l.mean, IF l.std > 1 THEN l.std ELSE 1>>

-----------------------------------------------------------------------------
Init ==
  /\ Prep!Init
  /\ width \in Widths /\ height \in Heights
  /\ std_raw \in StdMicros /\ mean \in MeanMicros
  /\ stage = "labels"
  /\ norm = None /\ model = None /\ archive = None /\ loaded = None
  /\ preds = <<>>
  /\ outcome = None

(* Width, vocabulary and targets (LabelPrep). *)
Labels ==
  /\ stage = "labels"
  /\ Prep!PrepareLabels
  /\ stage' = "train"
  /\ UNCHANGED <<width, height, std_raw, mean, norm, model, archive, loaded,
                 preds, outcome>>

(* Features at cfg's image size, the statistics and the normalisation,    *)
(* then _train_mlp: w1 is (hidden, width * height), w2 is (seq_len,        *)
(* len(vocab), hidden), and the config records the size and vocabulary.   *)
Train ==
  /\ stage = "train"
  /\ norm' = <<mean, TrainingStd(std_raw)>>
  /\ model' = [config |-> ModelConfig(width, height, max_label_len, vocab),
               hidden |-> 16,
               feat_dim |-> LoadFeaturesShape(Len(train_labels), width, height)[2],
               heads |-> max_label_len, outputs |-> Len(vocab)]
  /\ stage' = "save"
  /\ UNCHANGED <<prep_vars, width, height, std_raw, mean, archive, loaded, preds, outcome>>

(* _save_model_npz(model_path, model, mean=mean, std=std) *)
Save ==
  /\ stage = "save"
  /\ archive' = SaveModelNpz(model, norm[1], norm[2])
  /\ stage' = "load"
  /\ UNCHANGED <<prep_vars, width, height, std_raw, mean, norm, model, loaded, preds, outcome>>

(* The evaluation downloads model.npz and loads it. *)
Load ==
  /\ stage = "load"
  /\ loaded' = LoadModelNpz(archive)
  /\ stage' = "predict"
  /\ UNCHANGED <<prep_vars, width, height, std_raw, mean, norm, model, archive, preds, outcome>>

(* The evaluation's loop body for each image with the trained model:      *)
(* _load_features at the size read from the config, then _predict_text:    *)
(* the vocabulary check, the normalisation, x @ w1.T (which needs          *)
(* width * height columns), the clamped argmax of each head looked up in   *)
(* the stored vocabulary, and trailing pad tokens popped.                  *)
Predict ==
  /\ stage = "predict"
  /\ LET cfg == loaded.config
         w == EvalWidth(cfg)
         h == EvalHeight(cfg)
         voc == GetOr(cfg, "vocab", None)
         pad == IF GetOr(cfg, "pad_token", "") \in {"", None} THEN Pad ELSE cfg["pad_token"]
         exact == <<w, h>> = <<width, height>> /\ EvalNorm(loaded) = norm
         idx(i) == [p \in 1..loaded.w2[1] |-> ClampInt(y_train[i][p], 0, loaded.w2[2] - 1)]
     IN CASE voc \in {None, <<>>} -> outcome' = "model_invalid_vocab" /\ UNCHANGED preds
          [] w * h # loaded.w1[2] -> outcome' = "ValueError" /\ UNCHANGED preds
          [] exact /\ \E i \in DOMAIN y_train, p \in 1..loaded.w2[1] : idx(i)[p] >= Len(voc) ->
               outcome' = "IndexError" /\ UNCHANGED preds
          [] OTHER -> /\ outcome' = "ok"
                      /\ preds' = [i \in DOMAIN train_labels |->
                                     IF exact THEN Decode(idx(i), voc, pad) ELSE Garbled]
  /\ stage' = "done"
  /\ UNCHANGED <<prep_vars, width, height, std_raw, mean, norm, model, archive, loaded>>

Next == Labels \/ Train \/ Save \/ Load \/ Predict

Spec == Init /\ [][Next]_vars

-----------------------------------------------------------------------------

TypeOK ==
  /\ Prep!TypeOK
  /\ stage \in {"labels", "train", "save", "load", "predict", "done"}
  /\ norm \in {None} \cup (MeanMicros \X Nat)
  /\ outcome \in {None, "ok", "model_invalid_vocab", "ValueError", "IndexError"}
  /\ preds \in Seq(Seq(Nat) \cup {Garbled})

(* Spec 4.5/4.6: the normalisation statistics and the config travel with  *)
(* the model.  Evaluated on the images it was trained on, a model that     *)
(* fits its targets is fed features of the size and normalisation it was   *)
(* trained with, and _predict_text reads back each image's label cut to    *)
(* max_label_len: the saved vocabulary, pad token, image size, pixel_mean  *)
(* and the floored pixel_std all survive save and load.                    *)
PredictsTrainedLabels ==
  stage = "done" =>
    /\ outcome = "ok"
    /\ \A i \in DOMAIN train_labels : preds[i] = Truncate(train_labels[i], max_label_len)

=============================================================================
