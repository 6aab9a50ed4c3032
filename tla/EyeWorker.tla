------------------------------ MODULE EyeWorker ------------------------------
(***************************************************************************)
(* EyeWorkerRuntime (services/eye/src/mcm_eye/worker.py): calibration,      *)
(* inference, cancellation, end of session and shutdown of the process that *)
(* owns the gaze model.  Every request runs in a thread of its own.  The    *)
(* sections under _state_lock are single steps; _adapter_call_lock is held  *)
(* across steps by a calibration, for as long as it captures.               *)
(*                                                                         *)
(* A session stands for the pair of session and video a request is bound    *)
(* to, and an inference request for its frame, whose sequence it is.  The   *)
(* calibrations are those of the synchronized profiles, the only ones the   *)
(* kiosk asks for.  The model is external: a capture may fail or succeed at *)
(* any time once it has samples.                                            *)
(***************************************************************************)
EXTENDS Integers, FiniteSets, SequencesExt

CONSTANTS
  Sessions,
  Calibrations,  \* run_calibration requests; each has its calibration_id
  Enders,        \* end_session requests
  None,
  MaxFrames,     \* bound: inference requests
  QueueSize      \* CALIBRATION_QUEUE_SIZE

ASSUME EyeAssumption ==
  /\ None \notin Sessions \cup Calibrations
  /\ MaxFrames \in Nat /\ QueueSize \in Nat \ {0}

Frames == 1..MaxFrames

VARIABLES
  runtime,    \* the attributes guarded by _state_lock
  cancel,     \* _calibration_cancel
  adapter,    \* the EyeTraxAdapter: disposed of or not, and whose model it has
  holder,     \* the calibration that holds _adapter_call_lock
  queue,      \* the frames in the queue of each calibration
  cal,        \* run_calibration threads
  inf,        \* infer threads
  ending,     \* end_session threads
  closing,    \* close
  trained,    \* history: the frames a calibration took samples from
  cancelled,  \* history: calibrations and the sessions that cancelled them
  model       \* history: the model a frame's gaze came from

threads == <<cal, inf, ending, closing>>
history == <<trained, cancelled, model>>
vars == <<runtime, cancel, adapter, holder, queue, threads, history>>

Init ==
  /\ runtime = [open |-> TRUE, usable |-> FALSE, id |-> None, queue |-> None,
                binding |-> None, calibrated |-> None, summary |-> None, last |-> 0]
  /\ cancel = FALSE
  /\ adapter = [disposed |-> FALSE, model |-> None]
  /\ holder = None
  /\ queue = [c \in Calibrations |-> <<>>]
  /\ cal = [c \in Calibrations |-> [pc |-> "none", session |-> None, valid |-> FALSE]]
  /\ inf = [f \in Frames |-> [pc |-> "none", session |-> None, mark |-> None,
                              queue |-> None, binding |-> None]]
  /\ ending = [e \in Enders |-> [pc |-> "none", session |-> None, before |-> {}]]
  /\ closing = "none"
  /\ trained = [c \in Calibrations |-> {}]
  /\ cancelled = {}
  /\ model = [f \in Frames |-> None]

\* The event is set for the calibration in progress, if there is one.
CancelBy(s) ==
  /\ cancel' = TRUE
  /\ cancelled' = IF runtime.queue = None THEN cancelled ELSE cancelled \cup {<<runtime.queue, s>>}

-----------------------------------------------------------------------------
(* run_calibration.                                                         *)

CalibrationBegins(c) ==
  /\ cal[c].pc = "none" /\ runtime.open /\ runtime.queue = None
  /\ \E s \in Sessions :
       /\ runtime' = [runtime EXCEPT !.usable = FALSE, !.id = c, !.queue = c, !.binding = s,
                                     !.calibrated = None, !.summary = s, !.last = 0]
       /\ cal' = [cal EXCEPT ![c].pc = "locking", ![c].session = s]
  /\ cancel' = FALSE
  /\ UNCHANGED <<adapter, holder, queue, inf, ending, closing, history>>

\* calibration_in_progress, or the worker is closed.
CalibrationRefused(c) ==
  /\ cal[c].pc = "none" /\ (runtime.queue # None \/ ~runtime.open)
  /\ cal' = [cal EXCEPT ![c].pc = "done"]
  /\ UNCHANGED <<runtime, cancel, adapter, holder, queue, inf, ending, closing, history>>

\* calibrate_synchronized starts from no model; a disposed adapter raises.
CaptureBegins(c) ==
  /\ cal[c].pc = "locking" /\ holder = None
  /\ IF adapter.disposed
     THEN cal' = [cal EXCEPT ![c].pc = "deciding"] /\ UNCHANGED <<adapter, holder>>
     ELSE /\ cal' = [cal EXCEPT ![c].pc = "capturing"]
          /\ holder' = c
          /\ adapter' = [adapter EXCEPT !.model = None]
  /\ UNCHANGED <<runtime, cancel, queue, inf, ending, closing, history>>

\* SynchronizedCapture takes a frame: too old, of another target or without
\* a marker it is dropped, otherwise it gives a sample.
Capture(c) ==
  /\ cal[c].pc = "capturing" /\ ~cancel /\ queue[c] # <<>>
  /\ queue' = [queue EXCEPT ![c] = Tail(@)]
  /\ \/ inf[Head(queue[c])].mark = c
        /\ trained' = [trained EXCEPT ![c] = @ \cup {Head(queue[c])}]
     \/ UNCHANGED trained
  /\ UNCHANGED <<runtime, cancel, adapter, holder, threads, cancelled, model>>

\* A cancellation may come after the last look at the event: late success.
CaptureEnds(c) ==
  /\ cal[c].pc = "capturing"
  /\ \E ok \in BOOLEAN :
       /\ ok => trained[c] # {}
       /\ cal' = [cal EXCEPT ![c].pc = "deciding", ![c].valid = ok]
       /\ adapter' = [adapter EXCEPT !.model = IF ok THEN c ELSE None]
  /\ queue' = [queue EXCEPT ![c] = <<>>]
  /\ holder' = None
  /\ UNCHANGED <<runtime, cancel, inf, ending, closing, history>>

\* Mutant: the flag is not looked at again after the capture.
DecideCapture(c) ==
  LET valid == cal[c].valid IN
  /\ cal[c].pc = "deciding" /\ holder = None
  /\ cal' = [cal EXCEPT ![c].pc = IF runtime.queue = c THEN "draining" ELSE "done"]
  /\ adapter' = IF valid THEN adapter ELSE [adapter EXCEPT !.model = None]
  /\ runtime' = [runtime EXCEPT !.usable = valid, !.id = IF valid THEN c ELSE None,
                                !.calibrated = IF valid THEN runtime.binding ELSE None,
                                !.queue = None, !.binding = None]
  /\ UNCHANGED <<cancel, holder, queue, inf, ending, closing, history>>

\* The finally block, under both locks.  Discarding on a disposed adapter
\* raises, before any attribute is set.
Decide(c) ==
  LET valid == cal[c].valid /\ ~cancel IN
  /\ cal[c].pc = "deciding" /\ holder = None
  /\ IF ~valid /\ adapter.disposed
     THEN /\ cal' = [cal EXCEPT ![c].pc = "done", ![c].valid = FALSE]
          /\ UNCHANGED <<runtime, adapter>>
     ELSE /\ cal' = [cal EXCEPT ![c].pc = IF runtime.queue = c THEN "draining" ELSE "done",
                                ![c].valid = valid]
          /\ adapter' = IF valid THEN adapter ELSE [adapter EXCEPT !.model = None]
          /\ runtime' = [runtime EXCEPT !.usable = valid, !.id = IF valid THEN c ELSE None,
                                        !.calibrated = IF valid THEN runtime.binding ELSE None,
                                        !.queue = None, !.binding = None]
  /\ UNCHANGED <<cancel, holder, queue, inf, ending, closing, history>>

\* _drain_calibration_queue, after the locks.
Drain(c) ==
  /\ cal[c].pc = "draining"
  /\ queue' = [queue EXCEPT ![c] = <<>>]
  /\ cal' = [cal EXCEPT ![c].pc = "done"]
  /\ UNCHANGED <<runtime, cancel, adapter, holder, inf, ending, closing, history>>

-----------------------------------------------------------------------------
(* infer.                                                                   *)

Answered(f) == [inf EXCEPT ![f].pc = "done"]

\* The attributes are copied once; the frame is decoded afterwards.
Arrive(f) ==
  /\ inf[f].pc = "none"
  /\ \E s \in Sessions, m \in Calibrations \cup {None} :
       inf' = [inf EXCEPT ![f] =
         [session |-> s, mark |-> m, queue |-> runtime.queue, binding |-> runtime.binding,
          pc |-> CASE ~runtime.open -> "done"
                   [] runtime.open /\ runtime.queue # None -> "accept"
                   [] OTHER -> IF runtime.usable /\ runtime.calibrated = s THEN "gaze" ELSE "done"]]
  /\ UNCHANGED <<runtime, cancel, adapter, holder, queue, cal, ending, closing, history>>

\* Mutant: only the order of the frames is looked at, not their session.
AcceptAnySession(f) ==
  /\ inf[f].pc = "accept"
  /\ IF runtime.queue = inf[f].queue /\ f > runtime.last
     THEN inf' = [inf EXCEPT ![f].pc = "put"] /\ runtime' = [runtime EXCEPT !.last = f]
     ELSE inf' = Answered(f) /\ UNCHANGED runtime
  /\ UNCHANGED <<cancel, adapter, holder, queue, cal, ending, closing, history>>

Accept(f) ==
  /\ inf[f].pc = "accept"
  /\ IF runtime.queue = inf[f].queue /\ inf[f].session = inf[f].binding /\ f > runtime.last
     THEN /\ inf' = [inf EXCEPT ![f].pc = "put"]
          /\ runtime' = [runtime EXCEPT !.last = f]
     ELSE inf' = Answered(f) /\ UNCHANGED runtime
  /\ UNCHANGED <<cancel, adapter, holder, queue, cal, ending, closing, history>>

\* Mutant: a queue without a limit.
PushedAlways(q, f) == Append(q, f)

\* A full queue drops its oldest frame.
Pushed(q, f) == Append(IF Len(q) = QueueSize THEN Tail(q) ELSE q, f)

\* Mutant: the queue copied at the start is used without a second look.
PutStale(f) ==
  /\ inf[f].pc = "put"
  /\ inf' = Answered(f)
  /\ queue' = [queue EXCEPT ![inf[f].queue] = Pushed(@, f)]
  /\ UNCHANGED <<runtime, cancel, adapter, holder, cal, ending, closing, history>>

Put(f) ==
  /\ inf[f].pc = "put"
  /\ inf' = Answered(f)
  /\ IF runtime.queue = inf[f].queue
     THEN queue' = [queue EXCEPT ![inf[f].queue] = Pushed(@, f)]
     ELSE UNCHANGED queue
  /\ UNCHANGED <<runtime, cancel, adapter, holder, cal, ending, closing, history>>

\* adapter.infer raises when there is no calibration any more.
Gaze(f) ==
  /\ inf[f].pc = "gaze" /\ holder = None
  /\ inf' = Answered(f)
  /\ model' = [model EXCEPT ![f] = adapter.model]
  /\ UNCHANGED <<runtime, cancel, adapter, holder, queue, cal, ending, closing, trained, cancelled>>

-----------------------------------------------------------------------------
(* cancel_matching_calibration, end_session and close.                      *)

\* A cancellation that matches nothing changes nothing.
CancelMatching(c) ==
  /\ runtime.id = c /\ runtime.binding # None /\ runtime.binding = cal[c].session
  /\ CancelBy(cal[c].session)
  /\ UNCHANGED <<runtime, adapter, holder, queue, threads, trained, model>>

BoundTo(s) == s \in {runtime.binding, runtime.calibrated, runtime.summary}

\* Mutant: the running calibration is not cancelled.
EndArrivesQuietly(e) ==
  /\ ending[e].pc = "none"
  /\ \E s \in Sessions :
       ending' = [ending EXCEPT ![e] =
         [pc |-> IF BoundTo(s) THEN "locking" ELSE "done", session |-> s,
          before |-> {c \in Calibrations : cal[c].session = s}]]
  /\ UNCHANGED <<runtime, cancel, adapter, holder, queue, cal, inf, closing, history>>

\* Mutant: any end of session sets the flag.
EndArrivesAnyone(e) ==
  /\ ending[e].pc = "none"
  /\ \E s \in Sessions :
       /\ ending' = [ending EXCEPT ![e] =
            [pc |-> "locking", session |-> s,
             before |-> {c \in Calibrations : cal[c].session = s}]]
       /\ CancelBy(s)
  /\ UNCHANGED <<runtime, adapter, holder, queue, cal, inf, closing, trained, model>>

EndArrives(e) ==
  /\ ending[e].pc = "none"
  /\ \E s \in Sessions :
       /\ ending' = [ending EXCEPT ![e] =
            [pc |-> IF BoundTo(s) THEN "locking" ELSE "done", session |-> s,
             before |-> {c \in Calibrations : cal[c].session = s}]]
       /\ IF BoundTo(s) THEN CancelBy(s) ELSE UNCHANGED <<cancel, cancelled>>
  /\ UNCHANGED <<runtime, adapter, holder, queue, cal, inf, closing, trained, model>>

\* Mutant: the model is discarded whoever it belongs to by now.
EndDiscardsAlways(e) ==
  /\ ending[e].pc = "locking" /\ holder = None
  /\ ending' = [ending EXCEPT ![e].pc = "done"]
  /\ adapter' = IF runtime.open THEN [adapter EXCEPT !.model = None] ELSE adapter
  /\ UNCHANGED <<runtime, cancel, holder, queue, cal, inf, closing, history>>

EndDiscards(e) ==
  LET s == ending[e].session IN
  /\ ending[e].pc = "locking" /\ holder = None
  /\ ending' = [ending EXCEPT ![e].pc = "done"]
  /\ IF BoundTo(s) /\ runtime.binding \in {s, None}
     THEN /\ runtime' = [runtime EXCEPT !.usable = FALSE, !.id = None,
                                        !.calibrated = None, !.summary = None]
          /\ adapter' = IF runtime.open THEN [adapter EXCEPT !.model = None] ELSE adapter
     ELSE UNCHANGED <<runtime, adapter>>
  /\ UNCHANGED <<cancel, holder, queue, cal, inf, closing, history>>

CloseBegins ==
  /\ closing = "none" /\ closing' = "locking"
  /\ cancel' = TRUE
  /\ UNCHANGED <<runtime, adapter, holder, queue, cal, inf, ending, history>>

CloseEnds ==
  /\ closing = "locking" /\ holder = None /\ closing' = "done"
  /\ queue' = IF runtime.queue = None THEN queue ELSE [queue EXCEPT ![runtime.queue] = <<>>]
  /\ runtime' = [runtime EXCEPT !.open = FALSE, !.usable = FALSE, !.queue = None,
                                !.binding = None, !.calibrated = None, !.summary = None]
  /\ adapter' = [disposed |-> TRUE, model |-> None]
  /\ UNCHANGED <<cancel, holder, cal, inf, ending, history>>

Next ==
  \/ \E c \in Calibrations :
       \/ CalibrationBegins(c) \/ CalibrationRefused(c) \/ CaptureBegins(c) \/ Capture(c)
       \/ CaptureEnds(c) \/ Decide(c) \/ Drain(c) \/ CancelMatching(c)
  \/ \E f \in Frames : Arrive(f) \/ Accept(f) \/ Put(f) \/ Gaze(f)
  \/ \E e \in Enders : EndArrives(e) \/ EndDiscards(e)
  \/ CloseBegins \/ CloseEnds

Spec == Init /\ [][Next]_vars

-----------------------------------------------------------------------------
(* Properties.                                                              *)

SessionOrNone == Sessions \cup {None}
CalibrationOrNone == Calibrations \cup {None}

\* The variables have their types.
TypeOK ==
  /\ runtime \in [open : BOOLEAN, usable : BOOLEAN, id : CalibrationOrNone,
                  queue : CalibrationOrNone, binding : SessionOrNone,
                  calibrated : SessionOrNone, summary : SessionOrNone, last : Nat]
  /\ cancel \in BOOLEAN
  /\ adapter \in [disposed : BOOLEAN, model : CalibrationOrNone]
  /\ holder \in CalibrationOrNone
  /\ \A c \in Calibrations : queue[c] \in Seq(Frames) /\ Len(queue[c]) <= QueueSize
  /\ cal \in [Calibrations ->
       [pc : {"none", "locking", "capturing", "deciding", "draining", "done"},
        session : SessionOrNone, valid : BOOLEAN]]
  /\ inf \in [Frames -> [pc : {"none", "accept", "put", "gaze", "done"}, session : SessionOrNone,
                         mark : CalibrationOrNone, queue : CalibrationOrNone,
                         binding : SessionOrNone]]
  /\ ending \in [Enders -> [pc : {"none", "locking", "done"}, session : SessionOrNone,
                            before : SUBSET Calibrations]]
  /\ closing \in {"none", "locking", "done"}
  /\ trained \in [Calibrations -> SUBSET Frames]
  /\ cancelled \subseteq Calibrations \X Sessions
  /\ model \in [Frames -> CalibrationOrNone]

\* A calibration that was cancelled while it ran is not reported valid and
\* its model is not used, however late the cancellation came and whatever the
\* capture answered (finally block of run_calibration).
CancelWins ==
  \A c \in Calibrations : (\E s \in Sessions : <<c, s>> \in cancelled) =>
    /\ cal[c].pc \in {"draining", "done"} => ~cal[c].valid
    /\ ~(runtime.usable /\ runtime.id = c)

\* Ending one session does not cancel the calibration of another, which may
\* have begun since (end_session).
NobodyElseCancels == \A x \in cancelled : cal[x[1]].session = x[2]

\* Two locks guard two halves of one fact: while the worker is open and says
\* it can infer, the adapter has the model of the session it says it has.  An
\* end of that same session that takes the adapter between the capture and the
\* verdict of a newer calibration leaves none, never another session's.
ModelOfSession ==
  runtime.open /\ runtime.usable =>
    /\ runtime.id # None /\ cal[runtime.id].session = runtime.calibrated
    /\ \/ adapter.model = runtime.id
       \/ /\ adapter.model = None
          /\ \E e \in Enders : ending[e].pc = "done" /\ ending[e].session = runtime.calibrated

\* A calibration takes samples only from frames of its own session, although
\* infer decodes the frame between the two looks at the queue.
TrainedOnOwn ==
  \A c \in Calibrations : \A f \in trained[c] : inf[f].session = cal[c].session

\* No decoded frame stays behind when a calibration has returned, and none
\* after the worker is closed.
FramesReleased ==
  \A c \in Calibrations :
    cal[c].pc = "done" \/ (closing = "done" /\ cal[c].pc \in {"locking", "deciding"})
      => queue[c] = <<>>

\* When end_session has returned, no calibration of that session that had
\* begun before is in use, whether it was running, deciding or finished.
EndedSessionForgotten ==
  \A e \in Enders : \A c \in ending[e].before :
    ending[e].pc = "done" /\ cal[c].pc \in {"draining", "done"} =>
      ~(runtime.open /\ runtime.usable /\ runtime.id = c)

\* Who cancels what, when two sessions and their ends overlap.
CancelsExact == CancelWins /\ NobodyElseCancels

\* The model in use, and what it was trained on, are of the session in use.
ModelIsOwn == TypeOK /\ ModelOfSession /\ TrainedOnOwn

\* Neither a frame nor a calibration outlives the session it was for.
NothingStays == FramesReleased /\ EndedSessionForgotten
=============================================================================
