------------------------- MODULE CheckpointSelection -------------------------
(***************************************************************************)
(* What the training loop promises its caller, without minibatches or     *)
(* tensors (spec 4.4): a run of Epochs epochs, each ending with one        *)
(* evaluated model and its validation loss, and one result returned once   *)
(* all epochs are evaluated.  The result is the model of the first epoch   *)
(* with the smallest non-NaN loss, with that loss; when no epoch had a     *)
(* non-NaN loss it is the model of the last epoch, with loss 0.0.          *)
(***************************************************************************)
EXTENDS Naturals, Sequences

CONSTANTS
  Epochs,
  Losses,     \* ordered non-NaN losses
  NaN,
  NoResult    \* model value: nothing returned yet

VARIABLES
  evals,      \* the (loss, params) of each evaluated epoch, in order
  result      \* NoResult, then [params, loss]

vars == <<evals, result>>

FiniteEpochs(h) == {k \in DOMAIN h : h[k].loss # NaN}

(* The first epoch whose loss is the minimum of the non-NaN losses. *)
FirstBest(h) ==
  CHOOSE k \in FiniteEpochs(h) :
    \A j \in FiniteEpochs(h) : h[k].loss < h[j].loss \/ (h[k].loss = h[j].loss /\ k <= j)

Selected(h) ==
  IF FiniteEpochs(h) = {}
    THEN [params |-> h[Len(h)].params, loss |-> 0]
    ELSE [params |-> h[FirstBest(h)].params, loss |-> h[FirstBest(h)].loss]

Init ==
  /\ evals = <<>>
  /\ result = NoResult

(* One more epoch is evaluated; its model is whatever training produced. *)
Evaluate ==
  /\ result = NoResult
  /\ Len(evals) < Epochs
  /\ Len(evals') = Len(evals) + 1
  /\ SubSeq(evals', 1, Len(evals)) = evals
  /\ evals'[Len(evals')].loss \in Losses \cup {NaN}
  /\ UNCHANGED result

(* After the last epoch the selected model is returned. *)
Return ==
  /\ result = NoResult
  /\ Len(evals) = Epochs
  /\ result' = Selected(evals)
  /\ UNCHANGED evals

Next == Evaluate \/ Return

Spec == Init /\ [][Next]_vars

=============================================================================
