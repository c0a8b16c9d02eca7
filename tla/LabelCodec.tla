----------------------------- MODULE LabelCodec -----------------------------
(***************************************************************************)
(* The label codec of src/open/demo/learn/main.py: the vocabulary         *)
(* (_build_vocab), the fixed-width integer encoding of labels             *)
(* (_encode_labels), the clamped label width computed in run_training,   *)
(* and the decoding that _predict_text applies to the per-position argmax  *)
(* indices (vocabulary lookup, then popping trailing padding tokens).      *)
(*                                                                         *)
(* A character is its code point (a natural number), so Python's sort of  *)
(* one-character strings is < on naturals; a label is a sequence of code  *)
(* points.  PAD_TOKEN "<pad>" is the model value Pad: it is five          *)
(* characters long, so it is never one of the characters of a label.      *)
(***************************************************************************)
EXTENDS Naturals, Sequences, SequencesExt

CONSTANT Pad   \* model value: PAD_TOKEN

(* A vocabulary is a sequence of tokens; the code of vocab[i + 1] is i.   *)

ClampInt(v, lo, hi) == IF v < lo THEN lo ELSE IF v > hi THEN hi ELSE v

Truncate(label, n) == SubSeq(label, 1, IF Len(label) < n THEN Len(label) ELSE n)

LongestLen(labels) ==
  LET lens == {Len(labels[i]) : i \in DOMAIN labels}
  IN CHOOSE m \in lens : \A l \in lens : l <= m

(* Bug variant: the longest label taken without clamping. *)
MaxLabelLenUnclamped(labels) == LongestLen(labels)

(* max_label_len = _clamp_int(max(len(s) for s in labels), lo=4, hi=16)   *)
MaxLabelLen(labels) == ClampInt(LongestLen(labels), 4, 16)

(* _build_vocab: the distinct characters, sorted, then PAD_TOKEN appended  *)
(* unless it is already one of them.                                      *)
BuildVocab(labels) ==
  LET chars == SetToSortSeq(UNION {ToSet(labels[i]) : i \in DOMAIN labels}, <)
  IN IF Contains(chars, Pad) THEN chars ELSE Append(chars, Pad)

(* tok_to_idx[t], 0-based *)
IndexOf(vocab_, t) == CHOOSE i \in 0..(Len(vocab_) - 1) : vocab_[i + 1] = t

(* tok_to_idx.get(ch, pad_idx) *)
Lookup(vocab_, ch) ==
  IF Contains(vocab_, ch) THEN IndexOf(vocab_, ch) ELSE IndexOf(vocab_, Pad)

(* Bug variant: the label is cut one character short. *)
EncodeLabelShort(label, vocab_, max_len) ==
  LET kept == Truncate(label, max_len - 1)
  IN [j \in 1..max_len |-> IF j <= Len(kept) THEN Lookup(vocab_, kept[j])
                                             ELSE IndexOf(vocab_, Pad)]

(* One row of _encode_labels: a row of pad_idx of width max_len, whose    *)
(* first cells are overwritten by the indices of label[:max_len].         *)
EncodeLabel(label, vocab_, max_len) ==
  LET kept == Truncate(label, max_len)
  IN [j \in 1..max_len |-> IF j <= Len(kept) THEN Lookup(vocab_, kept[j])
                                             ELSE IndexOf(vocab_, Pad)]

EncodeLabels(labels, vocab_, max_len) ==
  [i \in DOMAIN labels |-> EncodeLabel(labels[i], vocab_, max_len)]

(* `while tokens and tokens[-1] == pad_token: tokens.pop()` *)
RECURSIVE StripTrailingPad(_, _)
StripTrailingPad(tokens, pad) ==
  IF tokens # <<>> /\ Last(tokens) = pad
    THEN StripTrailingPad(Front(tokens), pad)
    ELSE tokens

(* The text _predict_text builds from per-position indices: str(vocab[idx]) *)
(* for each position, trailing pad tokens popped, the rest joined.         *)
Decode(indices, vocab_, pad) ==
  StripTrailingPad([j \in DOMAIN indices |-> vocab_[indices[j] + 1]], pad)

=============================================================================
