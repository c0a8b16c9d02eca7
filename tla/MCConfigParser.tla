--------------------------- MODULE MCConfigParser ---------------------------
(* Model-checking instance of ConfigParser: the epoch and pacing keys with *)
(* their legacy fallbacks and the learning rate, each absent-as-null or    *)
(* holding a bool, an int at or past a clamp bound or too large for a      *)
(* float, a fractional, negative                                           *)
(* NaN or infinite float, or a string that int() accepts ("12"), only      *)
(* float() accepts ("1.5", "nan"), or neither ("abc").                     *)
EXTENDS ConfigParser

MCKeys == {"train_epochs", "train_steps", "train_min_epoch_seconds",
           "min_epoch_seconds", "train_lr"}

MCValues ==
  {NoneV, [kind |-> "bool", v |-> TRUE],
   [kind |-> "int", v |-> 0], [kind |-> "int", v |-> 9000], [kind |-> "int", v |-> HugeInt],
   [kind |-> "float", v |-> 25000], [kind |-> "float", v |-> -5000],
   [kind |-> "float", v |-> NaN], [kind |-> "float", v |-> PosInf],
   [kind |-> "str", int |-> 12, float |-> 120000],
   [kind |-> "str", int |-> Fail, float |-> 15000],
   [kind |-> "str", int |-> Fail, float |-> NaN],
   [kind |-> "str", int |-> Fail, float |-> Fail]}
=============================================================================
