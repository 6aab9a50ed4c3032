---------------------------- MODULE ModelTraining ----------------------------
(***************************************************************************)
(* How the EyeTrax adapter comes by a model of a gaze (adapters/eyetrax.py): *)
(* the face model it is given a file of, and calibrate, which learns from    *)
(* the frames shown at the training points and judges itself by those of    *)
(* the validation points.  A frame is known by what the estimator makes of  *)
(* it, an error by how far the prediction was from the target, in parts of  *)
(* the diagonal.  The filter that runs along for comparison changes nothing *)
(* (_observe_validation_valid and _invalid) and is left out.                *)
(***************************************************************************)
EXTENDS Naturals, Sequences, FiniteSets

CONSTANTS
  TrainingPoints, ValidationPoints,  \* how many there are
  EnoughSamples, EnoughFrames,       \* of each training and validation point
  Alphas,                  \* of the ridge
  Errors, MedianGate, TailGate,  \* errors, and the gates of p50 and p95
  MaxShown                 \* bound: frames of a point

VARIABLES
  file, temporary,  \* the face model and its download: "absent", "partial", "wrong" or "right"
  phase,    \* "file", "training", "validation" or "over"
  point,    \* shown now
  shown,    \* frames of this point
  counted,  \* of each point: samples in training, frames in validation
  learned,  \* the samples, each by the point it was taken at and its number
  usable,   \* validation frames with a prediction
  missed,   \* of each error, how often
  model,    \* the estimator's model: alpha and what it learned
  result    \* "none", "valid", or the reason

trainingVars == <<file, temporary, phase, point, shown, counted, learned, usable, missed, model, result>>

Untrained == [alpha |-> 1, learned |-> {}]
Nothing(points) == [i \in 1..points |-> 0]

TrainingInit ==
  /\ file \in {"absent", "right"} /\ temporary = "absent" /\ phase = "file"
  /\ point = 1 /\ shown = 0 /\ counted = Nothing(TrainingPoints) /\ learned = {}
  /\ usable = 0 /\ missed = [e \in Errors |-> 0] /\ model = Untrained /\ result = "none"

calibration == <<phase, point, shown, counted, learned, usable, missed, model, result>>

-----------------------------------------------------------------------------
(* The face model's file (prepare_face_model).                              *)

Download ==
  /\ phase = "file" /\ file = "absent" /\ temporary = "absent" /\ temporary' = "partial"
  /\ UNCHANGED <<file, calibration>>

\* Mutant: the file is taken as it came.
ReplaceUnseen == file' = temporary

\* verify_face_model, then os.replace
Replace == file' = IF temporary = "right" THEN "right" ELSE file

Downloaded ==
  /\ phase = "file" /\ temporary = "partial" /\ temporary' \in {"wrong", "right"}
  /\ UNCHANGED <<file, calibration>>

\* What was written is removed in any case, and the file is only replaced by
\* one that was verified.
Adopt ==
  /\ phase = "file" /\ temporary # "absent" /\ Replace /\ temporary' = "absent"
  /\ UNCHANGED calibration

\* The process dies; a next one finds the file, and a new temporary name.
Die ==
  /\ phase = "file" /\ temporary # "absent" /\ temporary' = "absent"
  /\ UNCHANGED <<file, calibration>>

\* initialize, and calibrate
Begin ==
  /\ phase = "file" /\ file = "right" /\ temporary = "absent" /\ phase' = "training"
  /\ UNCHANGED <<file, temporary, point, shown, counted, learned, usable, missed, model, result>>

-----------------------------------------------------------------------------
(* calibrate.                                                               *)

files == <<file, temporary>>

\* Mutant: what was learned stays.
KeepModel(reason) == model' = model

\* A calibration that did not succeed leaves a model that learned nothing.
LeaveModel(reason) == model' = IF reason = "valid" THEN model ELSE Untrained

Over(reason) ==
  /\ phase' = "over" /\ result' = reason /\ LeaveModel(reason)
  /\ UNCHANGED <<files, point, shown, counted, learned, usable, missed>>

Showing == phase \in {"training", "validation"} /\ shown < MaxShown

\* The source gives up, or a frame cannot be used at all.
Interrupted(reason) == Showing /\ Over(reason)

Advance(p) == phase = p /\ shown' = shown + 1 /\ UNCHANGED <<files, phase, point, model, result>>

\* A frame of a training point: a sample, or no face or a blink.
Sample ==
  /\ Showing /\ Advance("training")
  /\ counted' = [counted EXCEPT ![point] = @ + 1]
  /\ learned' = learned \cup {<<point, counted[point] + 1>>}
  /\ UNCHANGED <<usable, missed>>

NoSample == Showing /\ Advance("training") /\ UNCHANGED <<counted, learned, usable, missed>>

\* A frame of a validation point: a prediction with its error, or none.
Predicted(e) ==
  /\ Showing /\ Advance("validation")
  /\ counted' = [counted EXCEPT ![point] = @ + 1]
  /\ usable' = usable + 1 /\ missed' = [missed EXCEPT ![e] = @ + 1] /\ UNCHANGED learned

NotPredicted ==
  /\ Showing /\ Advance("validation")
  /\ counted' = [counted EXCEPT ![point] = @ + 1] /\ UNCHANGED <<learned, usable, missed>>

\* The source has no more frames of this point.
NextPoint ==
  /\ \/ phase = "training" /\ point < TrainingPoints
     \/ phase = "validation" /\ point < ValidationPoints
  /\ point' = point + 1 /\ shown' = 0
  /\ UNCHANGED <<files, phase, counted, learned, usable, missed, model, result>>

\* _select_ridge_alpha: the one whose models predicted best the points they had
\* not learned; with one point there is nothing to compare.
Selected == IF Cardinality({i \in DOMAIN counted : counted[i] > 0}) < 2 THEN {1} ELSE Alphas

\* Mutant: the points may make up for each other.
EnoughInAll == Cardinality(learned) >= TrainingPoints * EnoughSamples

EnoughOfEach == \A i \in DOMAIN counted : counted[i] >= EnoughSamples

\* _train_once
Train ==
  /\ phase = "training" /\ point = TrainingPoints
  /\ IF EnoughOfEach
       THEN /\ \E alpha \in Selected : model' = [alpha |-> alpha, learned |-> learned]
            /\ phase' = "validation" /\ point' = 1 /\ shown' = 0
            /\ counted' = Nothing(ValidationPoints)
            /\ UNCHANGED <<files, learned, usable, missed, result>>
       ELSE Over("no_face")

\* The k-th smallest error.
Kth(k) ==
  CHOOSE e \in Errors :
    /\ Cardinality({m \in Errors \X (1..usable) : m[1] <= e /\ m[2] <= missed[m[1]]}) >= k
    /\ Cardinality({m \in Errors \X (1..usable) : m[1] < e /\ m[2] <= missed[m[1]]}) < k

\* The percentile of q twentieths, times twenty, with a linear interpolation.
Percentile(q) ==
  LET k == ((usable - 1) * q) \div 20  r == ((usable - 1) * q) % 20
  IN 20 * Kth(k + 1) + IF r = 0 THEN 0 ELSE r * (Kth(k + 2) - Kth(k + 1))

Total == Cardinality({m \in (DOMAIN counted) \X (1..MaxShown) : m[2] <= counted[m[1]]})

\* passed: the share of 0.9 is of all frames.
Passed ==
  /\ \A i \in DOMAIN counted : counted[i] >= EnoughFrames
  /\ Total > 0 /\ usable * 10 >= Total * 9
  /\ Percentile(10) <= 20 * MedianGate /\ Percentile(19) <= 20 * TailGate

\* _validate_once
Validate ==
  /\ phase = "validation" /\ point = ValidationPoints
  /\ Over(IF Passed THEN "valid" ELSE "quality_gate_failed")

TrainingNext ==
  \/ Download \/ Downloaded \/ Adopt \/ Die \/ Begin
  \/ \E reason \in {"calibration_cancelled", "calibration_error"} : Interrupted(reason)
  \/ Sample \/ NoSample \/ (\E e \in Errors : Predicted(e)) \/ NotPredicted
  \/ NextPoint \/ Train \/ Validate

-----------------------------------------------------------------------------
(* Properties.                                                              *)

\* A model that has learned anything did so from every training point, enough
\* of each, and is kept only if it was judged at every validation point
\* (_train_once, passed, and the finally of calibrate).
ModelIsEarned ==
  /\ phase = "over" => (result = "valid" <=> model # Untrained)
  /\ model # Untrained =>
       \A i \in 1..TrainingPoints, k \in 1..EnoughSamples : <<i, k>> \in model.learned
  /\ result = "valid" =>
       /\ Len(counted) = ValidationPoints /\ \A i \in DOMAIN counted : counted[i] >= EnoughFrames
       /\ 2 * Cardinality({m \in Errors \X (1..usable) : m[1] <= MedianGate /\ m[2] <= missed[m[1]]})
            >= usable

\* The face model's file is the pinned one if there is any, wherever the
\* process died (prepare_face_model).
FileIsPinned == file \in {"absent", "right"}

TrainingIsSound == ModelIsEarned /\ FileIsPinned

=============================================================================
