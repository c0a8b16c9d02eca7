------------------------------ MODULE LabelPrep ------------------------------
(***************************************************************************)
(* The label-preparation block of run_training (src/open/demo/learn/main.py):*)
(* the labels of the scanned splits give the label width, the vocabulary  *)
(* and the encoded targets that the trainer fits.                          *)
(***************************************************************************)
EXTENDS LabelCodec

CONSTANTS
  LabelSet,    \* the labels a file stem can carry, as code-point sequences
  MaxSamples   \* bound on the number of images of a split

ASSUME MaxSamples \in Nat \ {0}

VARIABLES
  train_labels,   \* labels of the training images, in scan order
  val_labels,     \* labels of the validation images
  max_label_len,
  vocab,
  y_train,        \* encoded labels: sequences of 0-based vocabulary indices
  y_val,
  prepared

vars == <<train_labels, val_labels, max_label_len, vocab, y_train, y_val,
          prepared>>

-----------------------------------------------------------------------------

(* Every split run_training can scan: 1..MaxSamples images per split (an   *)
(* empty split is rejected or replaced before labels are read).            *)
Splits == UNION {[1..n -> LabelSet] : n \in 1..MaxSamples}

Init ==
  /\ train_labels \in Splits
  /\ val_labels \in Splits
  /\ max_label_len = 0
  /\ vocab = <<>>
  /\ y_train = <<>>
  /\ y_val = <<>>
  /\ prepared = FALSE

(* Width, vocabulary and targets from the labels of both splits. *)
PrepareLabels ==
  /\ ~prepared
  /\ LET all == train_labels \o val_labels
         len == MaxLabelLen(all)
         voc == BuildVocab(all)
     IN /\ max_label_len' = len
        /\ vocab' = voc
        /\ y_train' = EncodeLabels(train_labels, voc, len)
        /\ y_val' = EncodeLabels(val_labels, voc, len)
  /\ prepared' = TRUE
  /\ UNCHANGED <<train_labels, val_labels>>

Next == PrepareLabels

Spec == Init /\ [][Next]_vars

-----------------------------------------------------------------------------

TypeOK ==
  /\ train_labels \in Splits
  /\ val_labels \in Splits
  /\ max_label_len \in {0} \cup 4..16
  /\ vocab \in Seq(Nat \cup {Pad})
  /\ y_train \in Seq(Seq(Nat))
  /\ y_val \in Seq(Seq(Nat))
  /\ prepared \in BOOLEAN

(* A model that predicts the encoded target of an image exactly is read   *)
(* back by _predict_text as the image's label cut to max_label_len: the    *)
(* vocabulary covers every character of both splits, encoding keeps the   *)
(* first max_label_len of them, and padding is stripped only at the end.  *)
DecodeInvertsEncode ==
  prepared =>
    /\ \A i \in DOMAIN train_labels :
          Decode(y_train[i], vocab, Pad) = Truncate(train_labels[i], max_label_len)
    /\ \A i \in DOMAIN val_labels :
          Decode(y_val[i], vocab, Pad) = Truncate(val_labels[i], max_label_len)

=============================================================================
