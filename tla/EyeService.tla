------------------------------ MODULE EyeService ------------------------------
(* The eye worker with its threads, and what they call: the adapter, one run *)
(* of a calibration, the capture of one target, the training of a model and  *)
(* the filter of live gaze.  A behaviour is of one part, track, chosen at    *)
(* the start; the other parts stay as they begin.                            *)
EXTENDS EyeWorker

CONSTANTS
  Points, Checks, Finals, MaxRepair,                                 \* of one run
  Settle, Still, Enough, Span, Hold, FrameGap, MaxSeen,              \* of one capture
  CalibrationIds, Streams, CacheLimit, MaxOrder, MaxAnswers,         \* of the adapter
  Width, JumpDistance, JumpSpeed, NearBy, ConfirmWindow, ResetGap, MaxTime, MaxLooks,  \* of the filter
  TrainingPoints, ValidationPoints, EnoughSamples, EnoughFrames, Alphas, Errors,  \* of the training
  MedianGate, TailGate, MaxShown

ASSUME RunAssumption ==
  Points \in Nat \ {0} /\ Checks \in Nat /\ Finals \in Nat /\ MaxRepair \in Nat

ASSUME CaptureAssumption ==
  /\ Settle \in Nat /\ Still \in Nat /\ Enough \in Nat /\ Span \in Nat
  /\ Hold \in Nat \ {0} /\ FrameGap \in Nat

ASSUME TrainingAssumption ==
  /\ TrainingPoints \in Nat \ {0} /\ ValidationPoints \in Nat \ {0}
  /\ EnoughSamples \in Nat \ {0} /\ EnoughFrames \in Nat
  /\ MedianGate \in Nat /\ TailGate \in Nat /\ MaxShown \in Nat
  /\ Errors \subseteq Nat /\ \E largest \in Errors : \A e \in Errors : e <= largest

ASSUME AdapterAssumption ==
  /\ "none" \notin CalibrationIds /\ "default" \notin CalibrationIds /\ "none" \notin Streams
  /\ CacheLimit \in Nat /\ MaxOrder \in Nat

ASSUME StabilizerAssumption ==
  /\ Width \in Nat /\ JumpDistance \in Nat /\ JumpSpeed \in Nat /\ NearBy \in Nat
  /\ ConfirmWindow \in Nat /\ ResetGap \in Nat /\ MaxTime \in Nat

VARIABLES
  track,
  pc, left, training, judged, repairs, targets, taken, fitted, chosen, result, final,
  phase, seen, features, total, invalid, anchor, since, first, required, extended, stable, over,
  life, fit, calibratedId, calibrated, revision, current, order, cache, filter, used, answers,
  smoother, pending, confirmed, lastInput, looks,
  file, temporary, trainingPhase, point, shown, counted, learned, usable, missed, trainedModel, reason

Run == INSTANCE SessionCalibration
Target == INSTANCE TargetCapture
Adapter == INSTANCE EyeTraxAdapter
Stabilizer == INSTANCE GazeStabilizer
Training == INSTANCE ModelTraining WITH
  phase <- trainingPhase, model <- trainedModel, result <- reason

runVars == <<pc, left, training, judged, repairs, targets, taken, fitted, chosen, result, final>>
targetVars == <<phase, seen, features, total, invalid, anchor, since, first, required, extended,
                stable, over>>
adapterVars == <<life, fit, calibratedId, calibrated, revision, current, order, cache, filter,
                 used, answers>>
stabilizerVars == <<smoother, pending, confirmed, lastInput, looks>>
trainingVars == <<file, temporary, trainingPhase, point, shown, counted, learned, usable, missed,
                  trainedModel, reason>>

EyeServiceInit ==
  /\ track \in {"worker", "run", "target", "adapter", "stabilizer", "training"}
  /\ Init /\ Run!Init /\ Adapter!Init /\ Stabilizer!Init
  /\ Target!Init /\ (track # "target" => phase = "training")
  /\ Training!TrainingInit /\ (track # "training" => file = "right")

EyeServiceNext ==
  /\ UNCHANGED track
  /\ \/ track = "worker" /\ Next
        /\ UNCHANGED <<runVars, targetVars, adapterVars, stabilizerVars, trainingVars>>
     \/ track = "run" /\ Run!Next
        /\ UNCHANGED <<vars, targetVars, adapterVars, stabilizerVars, trainingVars>>
     \/ track = "target" /\ Target!Next
        /\ UNCHANGED <<vars, runVars, adapterVars, stabilizerVars, trainingVars>>
     \/ track = "adapter" /\ Adapter!Next
        /\ UNCHANGED <<vars, runVars, targetVars, stabilizerVars, trainingVars>>
     \/ track = "stabilizer" /\ Stabilizer!Next
        /\ UNCHANGED <<vars, runVars, targetVars, adapterVars, trainingVars>>
     \/ track = "training" /\ Training!TrainingNext
        /\ UNCHANGED <<vars, runVars, targetVars, adapterVars, stabilizerVars>>

everything == <<track, vars, runVars, targetVars, adapterVars, stabilizerVars, trainingVars>>

EyeServiceSpec == EyeServiceInit /\ [][EyeServiceNext]_everything

\* Stated at the ends of SessionCalibration, TargetCapture and ModelTraining:
\* what a calibration learns from and is judged by.
CalibrationIsFair ==
  /\ track = "run" => Run!CalibrationIsFair
  /\ track = "target" => Target!CaptureIsSound
  /\ track = "training" => Training!TrainingIsSound

\* Stated at the end of EyeTraxAdapter and GazeStabilizer: what a live gaze
\* says.
SamplesAreTrue ==
  /\ track = "adapter" => Adapter!GazeIsTold
  /\ track = "stabilizer" => Stabilizer!GazeIsSteady
=============================================================================
