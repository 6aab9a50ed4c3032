------------------------- MODULE SessionCalibration -------------------------
(***************************************************************************)
(* One run of a session's calibration (calibration.py): find the face, take  *)
(* samples at every training point, repair the few that are missing, fit,    *)
(* validate, and once more train where validation was off and verify on      *)
(* other points.                                                            *)
(*                                                                         *)
(* A capture gives a share of the samples it needs or raises, on a cancel    *)
(* or a timeout; so do the checks between captures.  What a frame looks like  *)
(* in a capture is TargetCapture's.  The n-th capture is n.                  *)
(***************************************************************************)
EXTENDS Integers, FiniteSets, Sequences

CONSTANTS
  Points, Checks, Finals,   \* how many training, validation, verification points
  MaxRepair                 \* MAX_REPAIR_POINTS

VARIABLES
  pc,         \* what is captured or done next
  left,       \* the points of this phase that are still to do
  training,   \* per training sample: the capture and how much it gave
  judged,     \* the samples of _validate, each with what evaluate says of it
  repairs,    \* repairs
  targets,    \* source.total_targets
  taken,      \* history: the phase of each capture that ended
  fitted,     \* history: the captures the model has learned from
  chosen,     \* history: the captures that chose the repair
  result,     \* "none", "valid", "failed"
  final       \* history: the captures the result rests on

vars == <<pc, left, training, judged, repairs, targets, taken, fitted, chosen, result, final>>

Init ==
  /\ pc = "positioning" /\ left = 1
  /\ training = <<>> /\ judged = <<>> /\ repairs = 0
  /\ targets = 1 + Points + Checks
  /\ taken = <<>> /\ fitted = {} /\ chosen = {} /\ result = "none" /\ final = {}

Amounts == {"none", "few", "enough"}        \* of MIN_SAMPLES
Short(s) == s.gave # "enough"
Missing == {i \in 1..Len(training) : Short(training[i])}

\* CalibrationFailure; the finally clauses clear every sample.
Fail ==
  /\ pc' = "ended" /\ result' = "failed" /\ left' = 0
  /\ training' = <<>> /\ judged' = <<>>

\* The capture at hand ends.
This == Len(taken) + 1
Captured == taken' = Append(taken, pc)

\* _check, or the capture itself, raises: nothing of this capture is kept.
Raise ==
  /\ pc # "ended"
  /\ Fail
  /\ UNCHANGED <<repairs, targets, taken, fitted, chosen, final>>

Positioning(gave) ==
  /\ pc = "positioning" /\ Captured
  /\ IF gave = "enough"
     THEN pc' = "training" /\ left' = Points /\ UNCHANGED <<training, judged, result>>
     ELSE Fail
  /\ UNCHANGED <<repairs, targets, fitted, chosen, final>>

\* Too many points without enough samples, or two in a row without any.
Hopeless(t) ==
  \/ Cardinality({i \in 1..Len(t) : Short(t[i])}) > MaxRepair
  \/ Len(t) > 1 /\ t[Len(t)].gave = "none" /\ t[Len(t) - 1].gave = "none"

Training(gave) ==
  /\ pc = "training" /\ Captured
  /\ LET t == Append(training, [by |-> This, gave |-> gave]) IN
       IF Hopeless(t) THEN Fail /\ UNCHANGED targets
       ELSE /\ training' = t
            /\ IF left > 1
               THEN left' = left - 1 /\ UNCHANGED <<pc, targets>>
               ELSE LET missing == Cardinality({i \in 1..Len(t) : Short(t[i])}) IN
                    /\ pc' = (IF missing = 0 THEN "fit" ELSE "repair")
                    /\ left' = missing
                    /\ targets' = targets + missing
            /\ UNCHANGED <<judged, result>>
  /\ UNCHANGED <<repairs, fitted, chosen, final>>

\* The first point that is missing is captured again, instead of what it gave.
Repair(gave) ==
  /\ pc = "repair" /\ Captured
  /\ repairs' = repairs + 1
  /\ IF gave # "enough" THEN Fail
     ELSE LET i == CHOOSE i \in Missing : \A j \in Missing : i <= j IN
          /\ training' = [training EXCEPT ![i] = [by |-> This, gave |-> gave]]
          /\ left' = left - 1
          /\ pc' = IF left > 1 THEN "repair" ELSE "fit"
          /\ UNCHANGED <<judged, result>>
  /\ UNCHANGED <<targets, fitted, chosen, final>>

\* _fit, which forgets the model it had: on all training samples.
Fit ==
  /\ pc \in {"fit", "fit again"}
  /\ fitted' = {training[i].by : i \in 1..Len(training)}
  /\ IF pc = "fit" THEN pc' = "validation" /\ left' = Checks
                   ELSE pc' = "verification" /\ left' = Finals
  /\ UNCHANGED <<training, judged, repairs, targets, taken, chosen, result, final>>

\* One point of _validate: good, too far off, too few valid, or too few at all.
Verdicts == {"good", "off", "blind", "short"}

Validate(verdict) ==
  /\ pc \in {"validation", "verification"} /\ left > 0 /\ Captured
  /\ judged' = Append(judged, [by |-> This, verdict |-> verdict])
  /\ left' = left - 1
  /\ UNCHANGED <<pc, training, repairs, targets, fitted, chosen, result, final>>

Bad == {i \in 1..Len(judged) : judged[i].verdict # "good"}
Verdict(v) == \E i \in 1..Len(judged) : judged[i].verdict = v

\* Quality.passed; overall is what the limits of the session say.
Passed(overall) == overall = "good" /\ Bad = {}

\* Mutant: what earlier repairs used up is forgotten.
RepairableAfresh(overall) ==
  /\ ~Verdict("short") /\ ~Verdict("blind") /\ overall # "blind"
  /\ Bad # {} /\ Cardinality(Bad) <= MaxRepair

\* More training helps only where reliable samples show an error.
Repairable(overall) ==
  /\ ~Verdict("short") /\ ~Verdict("blind") /\ overall # "blind"
  /\ Bad # {} /\ Cardinality(Bad) <= MaxRepair - repairs

Captures(s) == {s[i].by : i \in 1..Len(s)}

\* The samples that judged are cleared first.
Judge(overall) ==
  /\ pc \in {"validation", "verification"} /\ left = 0
  /\ IF Passed(overall)
     THEN /\ pc' = "ended" /\ result' = "valid" /\ final' = Captures(judged)
          /\ training' = <<>> /\ judged' = <<>>
          /\ UNCHANGED <<left, targets, chosen>>
     ELSE IF pc = "validation" /\ Repairable(overall)
     THEN /\ pc' = "extra" /\ left' = Cardinality(Bad)
          /\ targets' = targets + Cardinality(Bad) + Finals
          /\ chosen' = Captures(judged)
          /\ judged' = <<>>
          /\ UNCHANGED <<training, result, final>>
     ELSE Fail /\ UNCHANGED <<targets, chosen, final>>
  /\ UNCHANGED <<repairs, taken, fitted>>

\* A point near one that was off.
Extra(gave) ==
  /\ pc = "extra" /\ Captured
  /\ repairs' = repairs + 1
  /\ IF gave # "enough" THEN Fail
     ELSE /\ training' = Append(training, [by |-> This, gave |-> gave])
          /\ left' = left - 1
          /\ pc' = IF left > 1 THEN "extra" ELSE "fit again"
          /\ UNCHANGED <<judged, result>>
  /\ UNCHANGED <<targets, fitted, chosen, final>>

Next ==
  \/ \E gave \in Amounts : Positioning(gave) \/ Training(gave) \/ Repair(gave) \/ Extra(gave)
  \/ Fit
  \/ \E v \in Verdicts : Validate(v)
  \/ \E overall \in {"good", "off", "blind"} : Judge(overall)
  \/ Raise

-----------------------------------------------------------------------------
(* Properties.                                                              *)

Of(phases) == {n \in 1..Len(taken) : taken[n] \in phases}

\* A valid result rests on samples that were taken after the model was fitted,
\* at points that neither trained it nor chose what to train; the model has
\* learned from every training point, with enough samples at each, and from
\* nothing else; and repairs stay within their limit (run, _fit, _validate).
JudgedFairly ==
  /\ fitted \subseteq Of({"training", "repair", "extra"})
  /\ repairs <= MaxRepair
  /\ result = "valid" =>
       /\ Cardinality(fitted) = Points + Cardinality(Of({"extra"}))
       /\ Of({"repair", "extra"}) \subseteq fitted
       /\ final \cap (fitted \cup chosen) = {}
       /\ \A f \in final, g \in fitted : f > g
       /\ final = Of({IF Of({"extra"}) = {} THEN "validation" ELSE "verification"})

\* No sample outlives the run, however it ends, and the page is told the
\* right number of targets: as many as a run that gets through captures.
RunLeavesNothing ==
  /\ pc = "ended" => training = <<>> /\ judged = <<>> /\ result # "none"
  /\ Len(taken) <= targets
  /\ result = "valid" => Len(taken) = targets

CalibrationIsFair == JudgedFairly /\ RunLeavesNothing
=============================================================================
