------------------------------ MODULE MCJobMain ------------------------------
(* The inputs of MCEvaluationJob's and MCTrainingJob's bounds, and job     *)
(* kinds that are unset, "evaluation" in other case with blanks, or        *)
(* "training".                                                             *)
EXTENDS JobMain

MCListings ==
  {Null} \cup
  {[artifact_id |-> "", filename |-> [ext |-> "npz", upper |-> FALSE]]} \cup
  {[artifact_id |-> "a", filename |-> [ext |-> e, upper |-> u]] :
     e \in {"npz", "bin"}, u \in BOOLEAN}

(* A bad archive; split directories train/validation, the misspelled     *)
(* evaluate directory alone or beside the correct one, test beside a      *)
(* custom "dev", or "dev" alone, at the top, under one wrapper folder, or  *)
(* under one beside a stray file; evaluate under two wrappers; an          *)
(* evaluate split with 0, 1 or 3 images.                                   *)
MCDatasets ==
  {[zip_ok |-> FALSE, depth |-> 0, stray |-> FALSE, dirs |-> {"evaluate"}, images |-> 1]} \cup
  [zip_ok : {TRUE}, depth : {0, 1}, stray : BOOLEAN, images : {1},
   dirs : {{"train", "validation"}, {"evalute"}, {"evalute", "evaluate"}, {"test", "dev"}, {"dev"}}] \cup
  [zip_ok : {TRUE}, depth : {0}, stray : {FALSE}, dirs : {{"evaluate"}}, images : {0, 3}] \cup
  [zip_ok : {TRUE}, depth : {2}, stray : {FALSE}, dirs : {{"evaluate"}}, images : {1}]

(* ANIMUS_EVAL_SPLIT unset, and the aliases of each split of spec section  *)
(* 3 (after strip().lower()), with the split each one names.               *)
MCSplitRequests ==
  {[word |-> "", means |-> "evaluate"], [word |-> "evalute", means |-> "evaluate"],
   [word |-> "val", means |-> "validation"], [word |-> "valid", means |-> "validation"],
   [word |-> "test", means |-> "test"], [word |-> "dev", means |-> "dev"]}

MCJobKinds ==
  {[text |-> "training", padded |-> FALSE, upper |-> FALSE],
   [text |-> "evaluation", padded |-> TRUE, upper |-> TRUE],
   [text |-> "eval", padded |-> FALSE, upper |-> FALSE]}

MCFileCounts == {0, 1, 11}
=============================================================================
