--------------------------- MODULE EyeTraxAdapter ---------------------------
(***************************************************************************)
(* The adapter around the gaze model (adapters/eyetrax.py): its life, whose  *)
(* calibration it has, the answers it remembers and the stream its filter     *)
(* follows.  The worker calls it one call at a time, so a call is a step; a   *)
(* calibration only shows how it ended.                                       *)
(***************************************************************************)
EXTENDS Integers, FiniteSets, Sequences

CONSTANTS
  CalibrationIds,
  Streams,        \* pairs of a session with its video and playback epoch
  CacheLimit,     \* _SAMPLE_CACHE_LIMIT
  MaxOrder, MaxAnswers   \* bounds: sequence of a frame, answers

No == "none"

VARIABLES
  life,        \* "off", "loaded", "warm"
  fit,         \* estimator.model: No estimator, "default", or the calibration it is of
  calibratedId,\* _calibration_id
  calibrated,  \* _calibrated
  revision,    \* what _model_revision names: the calibration of the viewport, or No
  current,     \* _stream_identity
  order,       \* _last_order
  cache,       \* _sample_cache, oldest first
  filter,      \* what the stabilizer has been fed with since its last reset
  used,        \* history: the calibrations begun; each has an identifier of its own
  answers      \* history: the answers of infer

adapterVars == <<life, fit, calibratedId, calibrated, revision, current, order, cache, filter,
                 used, answers>>

Init ==
  /\ life = "off" /\ fit = No /\ calibratedId = No /\ calibrated = FALSE /\ revision = No
  /\ current = No /\ order = -1 /\ cache = <<>> /\ filter = {} /\ used = {} /\ answers = <<>>

\* _reset_runtime_state
RuntimeReset == current' = No /\ order' = -1 /\ cache' = <<>> /\ filter' = {}

\* initialize, also again; a model that cannot be loaded leaves nothing.
Initialize ==
  /\ life = "off"
  /\ life' = "loaded" /\ fit' = "default" /\ calibrated' = FALSE /\ calibratedId' = No
  /\ RuntimeReset
  /\ UNCHANGED <<revision, used, answers>>

\* dispose, or a warm-up that fails.
Dispose ==
  /\ life # "off"
  /\ life' = "off" /\ fit' = No /\ calibrated' = FALSE /\ calibratedId' = No
  /\ RuntimeReset
  /\ UNCHANGED <<revision, used, answers>>

Warmup ==
  /\ life = "loaded"
  /\ life' = "warm"
  /\ UNCHANGED <<fit, calibratedId, calibrated, revision, current, order, cache, filter, used,
                answers>>

\* calibrate_synchronized: the model is fitted, or the default comes back; the
\* filter is made for the viewport it was fitted for.
CalibrateSynchronized(c, ok) ==
  /\ life = "warm" /\ c \notin used /\ used' = used \cup {c}
  /\ RuntimeReset
  /\ calibrated' = ok
  /\ calibratedId' = (IF ok THEN c ELSE No)
  /\ fit' = (IF ok THEN c ELSE "default")
  /\ revision' = (IF ok THEN c ELSE revision)
  /\ UNCHANGED <<life, answers>>

\* calibrate, with the fixed points: a failure keeps the identifier, and
\* frames are then answered as unavailable.
Calibrate(c, ok) ==
  /\ life = "warm" /\ c \notin used /\ used' = used \cup {c}
  /\ RuntimeReset
  /\ calibrated' = ok
  /\ calibratedId' = c
  /\ fit' = (IF ok THEN c ELSE "default")
  /\ UNCHANGED <<life, revision, answers>>

DiscardCalibration ==
  /\ life # "off"
  /\ RuntimeReset
  /\ calibrated' = FALSE /\ calibratedId' = No /\ fit' = "default"
  /\ UNCHANGED <<life, revision, used, answers>>

-----------------------------------------------------------------------------
(* infer.                                                                   *)

\* _event_id: everything but the image.
Event(f) == [stream |-> f.stream, n |-> f.n, id |-> calibratedId, revision |-> revision]
Cached(e) == {i \in 1..Len(cache) : cache[i].event = e}

\* What an answer says; by is the model that predicted it, fed what the filter
\* had seen.
Answer(f, why, by, fed) ==
  [event |-> Event(f), why |-> why, by |-> by, fed |-> fed]

\* _cache_sample
Shortened(c) == IF Len(c) > CacheLimit THEN Tail(c) ELSE c

\* Mutant: a frame of another stream keeps the filter and the order.
FollowsAny(f) == [order |-> order, cache |-> cache, filter |-> filter]

\* A frame of another stream starts over.
Follows(f) ==
  IF current = f.stream
  THEN [order |-> order, cache |-> cache, filter |-> filter]
  ELSE [order |-> -1, cache |-> <<>>, filter |-> {}]

Infer(f, look) ==
  /\ life = "warm" /\ calibratedId # No /\ Len(answers) < MaxAnswers
  /\ IF Cached(Event(f)) # {}
     THEN /\ answers' = Append(answers, cache[CHOOSE i \in Cached(Event(f)) : TRUE])
          /\ UNCHANGED <<current, order, cache, filter>>
     ELSE LET now == Follows(f)
              late == f.n < now.order
              why == IF late THEN "out_of_order"
                     ELSE IF ~calibrated THEN "gaze_unavailable" ELSE look
              fed == IF why = "gaze" THEN now.filter \cup {<<calibratedId, f.stream>>} ELSE now.filter
              a == Answer(f, why, IF why = "gaze" THEN fit ELSE No, fed)
          IN /\ current' = f.stream
             /\ order' = (IF late THEN now.order ELSE f.n)
             /\ filter' = fed
             /\ cache' = Shortened(Append(now.cache, a))
             /\ answers' = Append(answers, a)
  /\ UNCHANGED <<life, fit, calibratedId, calibrated, revision, used>>

\* The stabilizer raises: it is reset, and this frame has no gaze.
FilterFails(f) ==
  /\ life = "warm" /\ calibratedId # No /\ calibrated /\ Len(answers) < MaxAnswers
  /\ Cached(Event(f)) = {} /\ f.n >= Follows(f).order
  /\ LET a == Answer(f, "gaze_unavailable", No, {}) IN
       /\ current' = f.stream /\ order' = f.n /\ filter' = {}
       /\ cache' = Shortened(Append(Follows(f).cache, a))
       /\ answers' = Append(answers, a)
  /\ UNCHANGED <<life, fit, calibratedId, calibrated, revision, used>>

Next ==
  \/ Initialize \/ Dispose \/ Warmup \/ DiscardCalibration
  \/ \E c \in CalibrationIds, ok \in BOOLEAN : CalibrateSynchronized(c, ok) \/ Calibrate(c, ok)
  \/ \E f \in [stream : Streams, n : 0..MaxOrder] :
       FilterFails(f) \/ \E look \in {"gaze", "no_face"} : Infer(f, look)

-----------------------------------------------------------------------------
(* Properties.                                                              *)

\* A gaze is of the model that the calibration on its label fitted, smoothed
\* with points of that calibration and stream only (infer,
\* calibrate_synchronized, discard_calibration).
GazeIsOfItsLabel ==
  /\ \A i \in 1..Len(answers) :
       answers[i].why = "gaze" =>
         /\ answers[i].by = answers[i].event.id
         /\ answers[i].fed = {<<answers[i].event.id, answers[i].event.stream>>}
  /\ \A i \in 1..Len(cache) : cache[i].event.id = calibratedId /\ cache[i].event.stream = current
  /\ calibrated <=> fit \in CalibrationIds
  /\ life # "warm" => ~calibrated

\* As long as one stream is followed under one calibration, its gazes come in
\* the order of its frames (infer).
GazesInOrder ==
  \A i, j \in 1..Len(answers) :
    /\ i < j /\ answers[i].why = "gaze" /\ answers[j].why = "gaze"
    /\ \A k \in i..j : answers[k].event.stream = answers[i].event.stream
                       /\ answers[k].event.id = answers[i].event.id
    /\ \A k \in 1..(j - 1) : answers[k].event # answers[j].event
    => answers[i].event.n <= answers[j].event.n

GazeIsTold == GazeIsOfItsLabel /\ GazesInOrder
=============================================================================
