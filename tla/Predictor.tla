------------------------------ MODULE Predictor ------------------------------
(***************************************************************************)
(* _predict_text of src/open/demo/learn/main.py applied to one image with *)
(* a model loaded from an artifact.  The forward pass is abstracted to    *)
(* what the decoding reads from it: for each of the seq_len heads, the    *)
(* argmax index over the head's vocab_size outputs and the probability at *)
(* that index (an abstract positive level of Probs).  The artifact's      *)
(* config vocabulary, pad_token and pixel_std are whatever JSON the file  *)
(* carries, and _load_model_npz checks none of them.  A std is abstracted *)
(* to its sign class; _load_model_npz reads a missing one as 1.0.         *)
(***************************************************************************)
EXTENDS LabelCodec

CONSTANTS
  Vocabs,      \* config "vocab" lists an artifact can carry
  VocabSizes,  \* w2.shape[1] values
  SeqLen,      \* w2.shape[0]
  Probs,       \* abstract probability levels, ordered by <, all > 0
  Missing,     \* model value: key absent from the config
  NaN          \* model value: a head whose softmax overflowed (inf - inf)

ASSUME Probs \ {NaN} \subseteq Nat \ {0}

VARIABLES
  cfg_vocab,    \* model.config.get("vocab")
  cfg_pad,      \* model.config.get("pad_token")
  std,          \* the std _load_model_npz returned: "pos", "zero", "neg", "nan"
  divisor,      \* what x is divided by: "std", "floor" (1e-6) or "none" yet
  vocab_size,   \* w2.shape[1]
  argmax,       \* argmax index of each head
  prob,         \* probability of that index
  outcome,      \* "pending", "ok", "model_invalid_vocab" or "IndexError"
  text,         \* decoded tokens
  confidence

vars == <<cfg_vocab, cfg_pad, std, divisor, vocab_size, argmax, prob, outcome, text, confidence>>

Positions == 1..SeqLen

(* float < as Python evaluates it: false whenever one side is NaN. *)
PyLt(a, b) == a # NaN /\ b # NaN /\ a < b

(* min() of a non-empty sequence as Python scans it: it starts from the   *)
(* first item and takes an item only when it is < the current minimum.    *)
MinOfSeq(s) == FoldLeft(LAMBDA acc, y : IF PyLt(y, acc) THEN y ELSE acc, Head(s), Tail(s))

StdClasses == {"pos", "zero", "neg", "nan"}

(* Bug variant: x divided by the stored std as it is. *)
DivisorUnfloored(std_) == IF std_ = "pos" THEN "std" ELSE std_

(* max(1e-6, float(std)): Python's max keeps 1e-6 unless std > 1e-6,      *)
(* which is false for zero, negative and NaN.  A positive std below 1e-6  *)
(* is not written by run_training, which replaces it by 1.0.              *)
Divisor(std_) == IF std_ = "pos" THEN "std" ELSE "floor"

(* Bug variant: confs not popped along with the padding tokens. *)
ConfidenceAllPositions(tokens, confs, pad) ==
  IF StripTrailingPad(tokens, pad) # <<>> THEN MinOfSeq(confs) ELSE 0

(* confidence = min(confs) over the positions kept after popping trailing *)
(* pad tokens (confs is popped in step with tokens), or 0.0 if none.      *)
Confidence(tokens, confs, pad) ==
  LET kept == Len(StripTrailingPad(tokens, pad))
  IN IF kept > 0 THEN MinOfSeq(SubSeq(confs, 1, kept)) ELSE 0

-----------------------------------------------------------------------------

Init ==
  /\ cfg_vocab \in Vocabs \cup {Missing}
  /\ cfg_pad \in {Pad, "", Missing}
  /\ std \in StdClasses
  /\ divisor = "none"
  /\ vocab_size \in VocabSizes
  /\ argmax \in [Positions -> 0..(vocab_size - 1)]
  /\ prob \in [Positions -> Probs]
  /\ outcome = "pending"
  /\ text = <<>>
  /\ confidence = 0

(* The vocabulary is missing or empty: RuntimeError("model_invalid_vocab"). *)
RejectVocab ==
  /\ outcome = "pending"
  /\ cfg_vocab \in {Missing, <<>>}
  /\ outcome' = "model_invalid_vocab"
  /\ UNCHANGED <<cfg_vocab, cfg_pad, std, divisor, vocab_size, argmax, prob,
                 text, confidence>>

(* Normalise, forward, and for each head take the argmax clamped to       *)
(* 0..vocab_size - 1 and look it up in the config vocabulary; an index    *)
(* past the end of that list raises IndexError.  Otherwise pop trailing   *)
(* pad tokens, join, and take the confidence.                              *)
Predict ==
  /\ outcome = "pending"
  /\ cfg_vocab \notin {Missing, <<>>}
  /\ divisor' = Divisor(std)
  /\ LET pad == IF cfg_pad \in {"", Missing} THEN Pad ELSE cfg_pad
         idx == [p \in Positions |-> ClampInt(argmax[p], 0, vocab_size - 1)]
     IN IF \E p \in Positions : idx[p] >= Len(cfg_vocab)
          THEN /\ outcome' = "IndexError"
               /\ UNCHANGED <<text, confidence>>
          ELSE LET tokens == [p \in Positions |-> cfg_vocab[idx[p] + 1]]
               IN /\ outcome' = "ok"
                  /\ text' = StripTrailingPad(tokens, pad)
                  /\ confidence' = Confidence(tokens, prob, pad)
  /\ UNCHANGED <<cfg_vocab, cfg_pad, std, vocab_size, argmax, prob>>

Next == RejectVocab \/ Predict

Spec == Init /\ [][Next]_vars

-----------------------------------------------------------------------------

TypeOK ==
  /\ cfg_vocab \in Vocabs \cup {Missing}
  /\ cfg_pad \in {Pad, "", Missing}
  /\ std \in StdClasses
  /\ divisor \in {"none", "std", "floor"}   \* never zero, negative or NaN
  /\ vocab_size \in VocabSizes
  /\ argmax \in [Positions -> Nat]
  /\ prob \in [Positions -> Probs]
  /\ outcome \in {"pending", "ok", "model_invalid_vocab", "IndexError"}
  /\ text \in Seq(Nat \cup {Pad})
  /\ confidence \in Probs \cup {0}

(* The confidence _predict_text reports is 0.0 exactly when the decoded   *)
(* text is empty, and otherwise the smallest probability among the        *)
(* positions that survive the popping of trailing padding, never the      *)
(* probability of a popped position.                                       *)
ConfidenceOfKeptPositions ==
  outcome = "ok" =>
    /\ (text = <<>>) = (confidence = 0)
    /\ text # <<>> =>
         /\ \A p \in 1..Len(text) : confidence <= prob[p]
         /\ \E p \in 1..Len(text) : confidence = prob[p]

(* Spec 4.6: the confidence is "the minimum per-position probability     *)
(* across all kept positions".  A kept head whose probabilities are NaN   *)
(* (its logits overflowed in _softmax) has no minimum to compare, and a   *)
(* prediction with such a head is not reported with the confidence of the *)
(* other heads: NaN at any kept position makes the confidence NaN.         *)
NaNConfidenceNotHidden ==
  (outcome = "ok" /\ \E p \in 1..Len(text) : prob[p] = NaN) => confidence = NaN

(* Spec 4.6: the argmax index is "clamped into valid vocabulary range as a *)
(* defensive bound", so a model that loads never makes the vocabulary      *)
(* lookup of _predict_text fail.                                           *)
LookupStaysInVocabulary == outcome # "IndexError"

=============================================================================
