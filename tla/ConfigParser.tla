---------------------------- MODULE ConfigParser ----------------------------
(***************************************************************************)
(* _parse_train_config of src/open/demo/learn/main.py with its helpers    *)
(* _as_int, _as_float, _clamp_int and _clamp_float: how the run's         *)
(* parameter dictionary (JSON from the experiments service) becomes a     *)
(* TrainConfig.                                                            *)
(*                                                                         *)
(* A parameter value is what json.loads can produce for it, tagged with   *)
(* its Python type: NoneV (null or a missing key), a bool, an int, a      *)
(* float, or a string.  An int is a whole number or HugeInt, an integer    *)
(* literal of 1024 bits or more that json.loads reads exactly and float()  *)
(* cannot represent.  A float                                              *)
(* is a whole number of 1/Scale units, or one of the model values NaN,    *)
(* PosInf and NegInf (Python's json accepts NaN and Infinity).  A string  *)
(* is abstracted to what int(s.strip()) and float(s.strip()) make of it:  *)
(* a number, or Fail when the conversion raises.                          *)
(***************************************************************************)
EXTENDS Integers, Sequences

CONSTANTS
  Keys,        \* the parameter names present in the dictionary
  Values,      \* the JSON values a parameter can hold
  NaN, PosInf, NegInf, Fail,
  HugeInt,     \* model value: an int of 1024 bits or more
  ValueError, OverflowError,  \* model values: the exception raised
  Pending                     \* model value: not parsed yet

Scale == 10000

(* A float compared with < as Python does: false whenever one side is NaN. *)
FLt(a, b) ==
  /\ a # NaN /\ b # NaN /\ a # b
  /\ \/ a = NegInf
     \/ b = PosInf
     \/ a \notin {PosInf, NegInf} /\ b \notin {PosInf, NegInf} /\ a < b

(* Python's < on ints, HugeInt above every other. *)
IntLt(a, b) == a # HugeInt /\ (b = HugeInt \/ a < b)

NoneV == [kind |-> "none"]

Kind(v) == v.kind

Errors == {ValueError, OverflowError}

(* int(f) of a float: truncation toward zero; NaN and infinities raise. *)
IntOfFloat(f) ==
  IF f = NaN THEN ValueError
  ELSE IF f \in {PosInf, NegInf} THEN OverflowError
  ELSE IF f >= 0 THEN f \div Scale ELSE -((-f) \div Scale)

(* Bug variant: the string conversion not guarded by try/except. *)
AsIntUnguarded(v, default) ==
  CASE Kind(v) = "int"   -> v.v
    [] Kind(v) = "float" -> IntOfFloat(v.v)
    [] Kind(v) = "str"   -> IF v.int = Fail THEN ValueError ELSE v.int
    [] OTHER             -> default

(* _as_int: bools and unknown types give the default; floats are          *)
(* truncated by int(), unguarded; strings that int() rejects give the      *)
(* default.                                                                *)
AsInt(v, default) ==
  CASE Kind(v) = "int"   -> v.v
    [] Kind(v) = "float" -> IntOfFloat(v.v)
    [] Kind(v) = "str"   -> IF v.int = Fail THEN default ELSE v.int
    [] OTHER             -> default

(* Bug variant: float() of a number guarded like the string conversion. *)
AsFloatGuarded(v, default) ==
  CASE Kind(v) = "int"   -> IF v.v = HugeInt THEN default ELSE v.v * Scale
    [] Kind(v) = "float" -> v.v
    [] Kind(v) = "str"   -> IF v.float = Fail THEN default ELSE v.float
    [] OTHER             -> default

(* _as_float: the same shape; float() of an int raises OverflowError when *)
(* the int is too large for a float, float() of a float never raises, and *)
(* float("nan") and float("inf") succeed.                                  *)
AsFloat(v, default) ==
  CASE Kind(v) = "int"   -> IF v.v = HugeInt THEN OverflowError ELSE v.v * Scale
    [] Kind(v) = "float" -> v.v
    [] Kind(v) = "str"   -> IF v.float = Fail THEN default ELSE v.float
    [] OTHER             -> default

(* Bug variant: min(hi, ...) dropped. *)
ClampIntNoUpper(v, lo, hi) == IF IntLt(v, lo) THEN lo ELSE v

(* max(lo, min(hi, int(value))) on ints *)
ClampInt(v, lo, hi) == IF IntLt(hi, v) THEN hi ELSE IF IntLt(v, lo) THEN lo ELSE v

(* Bug variant: the clamp written with comparisons that let NaN through. *)
ClampFloatChained(v, lo, hi) ==
  IF FLt(v, lo) THEN lo ELSE IF FLt(hi, v) THEN hi ELSE v

(* max(lo, min(hi, float(value))): min(hi, v) keeps hi unless v < hi, and *)
(* max(lo, m) keeps lo unless m > lo, so NaN comes out as hi.             *)
ClampFloat(v, lo, hi) ==
  LET m == IF FLt(v, hi) THEN v ELSE hi
  IN IF FLt(lo, m) THEN m ELSE lo

Get(params, k) == IF k \in DOMAIN params THEN params[k] ELSE NoneV

(* min_epoch_seconds before clamping: the new key, or the legacy key when *)
(* the new one is below 0 (a NaN is not).  An exception ends it.          *)
MinEpochSeconds(params) ==
  LET m == AsFloat(Get(params, "train_min_epoch_seconds"), -Scale)
  IN IF m \in Errors THEN m
     ELSE IF FLt(m, 0) THEN AsFloat(Get(params, "min_epoch_seconds"), Scale \div 2) ELSE m

(* epochs before clamping: train_epochs, or the legacy train_steps when   *)
(* train_epochs is not positive.  An exception ends the evaluation.        *)
EpochsParam(params) ==
  LET e == AsInt(Get(params, "train_epochs"), 0)
  IN IF e \in Errors THEN e
     ELSE IF ~IntLt(0, e) THEN AsInt(Get(params, "train_steps"), 40) ELSE e

(* The integer fields in the order the TrainConfig arguments are          *)
(* evaluated, with default and clamp range.                                *)
IntFields ==
  <<[name |-> "batch_size", key |-> "train_batch_size", default |-> 32, lo |-> 4, hi |-> 512],
    [name |-> "hidden_size", key |-> "train_hidden_size", default |-> 128, lo |-> 16, hi |-> 2048],
    [name |-> "image_width", key |-> "image_width", default |-> 96, lo |-> 16, hi |-> 512],
    [name |-> "image_height", key |-> "image_height", default |-> 24, lo |-> 8, hi |-> 256],
    [name |-> "max_train_samples", key |-> "max_train_samples", default |-> 200, lo |-> 10, hi |-> 50000],
    [name |-> "max_validation_samples", key |-> "max_validation_samples", default |-> 64, lo |-> 10, hi |-> 50000],
    [name |-> "seed", key |-> "seed", default |-> 17, lo |-> 0, hi |-> 2147483647]>>

(* _parse_train_config: the TrainConfig as a record, or the exception the *)
(* first failing conversion raises, in the order the code evaluates them: *)
(* epochs, min_epoch_seconds, then the TrainConfig arguments (the         *)
(* learning rate between batch_size and hidden_size).                      *)
ParseTrainConfig(params) ==
  LET int(i) == AsInt(Get(params, IntFields[i].key), IntFields[i].default)
      lr == AsFloat(Get(params, "train_lr"), (2 * Scale) \div 10)
      raw == <<EpochsParam(params), MinEpochSeconds(params), int(1), lr>> \o
             [i \in 1..(Len(IntFields) - 1) |-> int(i + 1)]
      failing == {i \in 1..Len(raw) : raw[i] \in Errors}
      \* IntFields[1] is raw[3]; IntFields[i] for i >= 2 is raw[i + 3]
      Field(i) == ClampInt(raw[IF i = 1 THEN 3 ELSE i + 3], IntFields[i].lo, IntFields[i].hi)
  IN IF failing # {}
       THEN raw[CHOOSE i \in failing : \A j \in failing : i <= j]
       ELSE [epochs |-> ClampInt(raw[1], 1, 5000),
             batch_size |-> Field(1),
             learning_rate |-> ClampFloat(raw[4], 1, 5 * Scale),
             hidden_size |-> Field(2),
             min_epoch_seconds |-> ClampFloat(raw[2], 0, 60 * Scale),
             image_width |-> Field(3),
             image_height |-> Field(4),
             max_train_samples |-> Field(5),
             max_validation_samples |-> Field(6),
             seed |-> Field(7)]

-----------------------------------------------------------------------------

VARIABLES
  params,   \* run["params"] as the job read it
  result    \* Pending, the parsed TrainConfig, or the exception raised

vars == <<params, result>>

Init ==
  /\ params \in [Keys -> Values]
  /\ result = Pending

(* cfg = _parse_train_config(params) in run_training *)
Parse ==
  /\ result = Pending
  /\ result' = ParseTrainConfig(params)
  /\ UNCHANGED params

Next == Parse

Spec == Init /\ [][Next]_vars

-----------------------------------------------------------------------------

Floats == Int \cup {NaN, PosInf, NegInf}

TypeOK ==
  /\ params \in [Keys -> Values]
  /\ result \in {Pending} \cup Errors \cup
       [epochs : 1..5000, batch_size : 4..512, learning_rate : Floats,
        hidden_size : 16..2048, min_epoch_seconds : Floats, image_width : 16..512,
        image_height : 8..256, max_train_samples : 10..50000,
        max_validation_samples : 10..50000, seed : 0..2147483647]

IsFinite(f) == f \notin {NaN, PosInf, NegInf}

(* The two float fields of every TrainConfig _parse_train_config returns  *)
(* are finite and within their clamp ranges, whatever strings, bools, NaN  *)
(* or infinities the parameters hold: the job never trains with a NaN      *)
(* learning rate or sleeps a NaN or infinite number of seconds.            *)
FloatsFiniteAndBounded ==
  result \notin {Pending} \cup Errors =>
    /\ IsFinite(result.learning_rate) /\ result.learning_rate \in 1..(5 * Scale)
    /\ IsFinite(result.min_epoch_seconds) /\ result.min_epoch_seconds \in 0..(60 * Scale)

IntKeys == {"train_epochs", "train_steps"} \cup {IntFields[i].key : i \in 1..Len(IntFields)}

NonFiniteFloat(v) == Kind(v) = "float" /\ ~IsFinite(v.v)

FloatKeys == {"train_min_epoch_seconds", "min_epoch_seconds", "train_lr"}

TooLargeForFloat(v) == Kind(v) = "int" /\ v.v = HugeInt

(* The parse raises only when an integer parameter holds a NaN or an       *)
(* infinite float (int() of it) or a float parameter holds an int too     *)
(* large for a float (float() of it); and always when train_epochs or     *)
(* train_lr, which are always converted, does: no string, bool or other   *)
(* number, however far out of range, stops run_training here.             *)
ParseFailsOnlyOnUnconvertibleNumber ==
  result # Pending =>
    /\ result \in Errors =>
         \E k \in Keys :
           \/ k \in IntKeys /\ NonFiniteFloat(params[k])
           \/ k \in FloatKeys /\ TooLargeForFloat(params[k])
    /\ "train_epochs" \in Keys /\ NonFiniteFloat(params["train_epochs"]) => result \in Errors
    /\ "train_lr" \in Keys /\ TooLargeForFloat(params["train_lr"]) => result \in Errors

(* Spec, section 6: the legacy key is used when the new one is "absent or  *)
(* invalid".  When train_min_epoch_seconds holds no usable non-negative    *)
(* number, min_epoch_seconds decides the pacing.                           *)
LegacyPacingReplacesInvalid ==
  LET new == AsFloat(Get(params, "train_min_epoch_seconds"), NaN)
  IN (result \notin {Pending} \cup Errors /\ (new = NaN \/ FLt(new, 0))) =>
       result.min_epoch_seconds =
         ClampFloat(AsFloat(Get(params, "min_epoch_seconds"), Scale \div 2), 0, 60 * Scale)

=============================================================================
