---------------------------- MODULE VisionStream ----------------------------
(***************************************************************************)
(* One connection of the vision gateway (apps/vision_gateway/server.py) and *)
(* its FaceWorker (services/face/src/mcm_face/worker.py).                   *)
(*                                                                         *)
(* On the gateway's event loop: the connection's handler (`_handle`), the   *)
(* task that processes the accepted frame (`proc`), the calibration task    *)
(* and the callbacks of work whose deadline has passed (`pending`).         *)
(* Beside it: the decode thread and the thread in FaceWorker.process of     *)
(* each frame, the worker's one-thread executor, and the requests to the    *)
(* Eye worker, which is external here and may never answer.                 *)
(*                                                                         *)
(* A frame is the number of its arrival.  Which frames are refused as       *)
(* duplicate, stale, out of order or too fast is left open: each refusal is *)
(* the same drop.  Whether the face worker answers about the frame it was    *)
(* given is left open too: the gateway compares the contexts.               *)
(***************************************************************************)
EXTENDS Naturals, FiniteSets

CONSTANT MaxFrames  \* bound: frames the client sends on the connection

ASSUME StreamAssumption == MaxFrames \in Nat \ {0}

Frames == 1..MaxFrames
NoFrame == 0

VARIABLES
  handler,      \* where _handle is
  received,     \* frames received so far
  inference,    \* _StreamState.inference_started
  calibrating,  \* _StreamState.calibration_started
  calibration,  \* calibration_task
  closing,      \* close_requested is set
  proc,         \* process_task: its step, its frame
  call,         \* work started for a frame, by kind; an Eye request that is still out
                \* and that nobody knows of any more is "untracked"
  pending,      \* _StreamState.pending_tasks
  buffer,       \* the decoded frame
  toClose,      \* frames the executor closes when the adapter ends
  worker,       \* the FaceWorker
  awaited,      \* the tasks _cleanup_worker took its snapshot of
  answer        \* history: what was sent about a frame

connection == <<handler, received, inference, calibrating, calibration, closing>>
frame == <<call, pending, buffer, toClose>>
shutdown == <<worker, awaited>>
vars == <<connection, proc, frame, shutdown, answer>>

\* frame.close(); a second call would find the frame closed.
Closed(b) == IF b = "open" THEN "closed" ELSE "twice"

Kinds == {"decode", "face", "adapter", "eye"}
NoTask == [pc |-> "none", frame |-> NoFrame, outcome |-> "none"]

Init ==
  /\ handler = "hello" /\ received = 0
  /\ inference = FALSE /\ calibrating = FALSE
  /\ calibration = "none" /\ closing = FALSE
  /\ proc = NoTask
  /\ call = [k \in Kinds |-> [f \in Frames |-> "none"]]
  /\ pending = {} /\ toClose = {}
  /\ buffer = [f \in Frames |-> "none"]
  /\ worker = "none" /\ awaited = {}
  /\ answer = [f \in Frames |-> "none"]

-----------------------------------------------------------------------------
(* The handler: hello, frames and control messages.                         *)

\* The token is accepted, and the worker started (its start may fail) if a
\* face_worker_factory is configured; the client may be gone by then.
Hello ==
  /\ handler = "hello"
  /\ \/ handler' = "receiving"
     \/ handler' = "leaving"
  /\ worker' \in {"started", "stopped", "none"}
  /\ UNCHANGED <<received, inference, calibrating, calibration, closing,
                 proc, frame, awaited, answer>>

Refused ==
  /\ handler = "hello"
  /\ handler' = "gone"
  /\ UNCHANGED <<received, inference, calibrating, calibration, closing,
                 proc, frame, shutdown, answer>>

Arrives ==
  /\ handler = "receiving" /\ received < MaxFrames
  /\ received' = received + 1

Busy == proc # NoTask \/ pending # {}

\* A drop of the receive loop.
DropFrame ==
  /\ Arrives
  /\ answer' = [answer EXCEPT ![received'] = "drop"]
  /\ UNCHANGED <<handler, inference, calibrating, calibration, closing,
                 proc, frame, shutdown>>

\* The process task starts at the loop's next turn.
AcceptFrame ==
  /\ ~Busy
  /\ inference \/ calibrating
  /\ Arrives
  /\ proc' = [NoTask EXCEPT
                !.frame = received',
                !.pc = IF calibrating /\ ~inference THEN "calibrationFrame"
                       ELSE IF worker = "none" THEN "gazeFrame" ELSE "frame"]
  /\ UNCHANGED <<handler, inference, calibrating, calibration, closing,
                 frame, shutdown, answer>>

Control == handler = "receiving"

\* start_inference, refused while a calibration runs, and stop_inference.
SetInference ==
  /\ Control
  /\ inference' \in IF calibrating THEN {inference, FALSE} ELSE BOOLEAN
  /\ UNCHANGED <<handler, received, calibrating, calibration, closing,
                 proc, frame, shutdown, answer>>

StartCalibration ==
  /\ Control /\ calibration = "none"
  /\ calibration' = "running" /\ calibrating' = TRUE
  /\ UNCHANGED <<handler, received, inference, closing,
                 proc, frame, shutdown, answer>>

\* Mutant: calibration_started is left set.
StopSessionKeepsFlag ==
  /\ Control
  /\ calibration' = "none"
  /\ IF proc = NoTask
       THEN handler' = "leaving" /\ UNCHANGED closing
       ELSE closing' = TRUE /\ UNCHANGED handler
  /\ UNCHANGED <<received, inference, calibrating, proc, frame, shutdown, answer>>

\* stop_session cancels a calibration; the frame in flight is waited for.
StopSession ==
  /\ Control
  /\ calibration' = "none" /\ calibrating' = FALSE
  /\ IF proc = NoTask
       THEN handler' = "leaving" /\ UNCHANGED closing
       ELSE closing' = TRUE /\ UNCHANGED handler
  /\ UNCHANGED <<received, inference, proc, frame, shutdown, answer>>

\* The calibration task has ended and its control_result is sent.
CalibrationEnds ==
  /\ handler = "receiving" /\ calibration = "done"
  /\ calibration' = "none" /\ calibrating' = FALSE
  /\ handler' = IF closing /\ proc = NoTask THEN "leaving" ELSE handler
  /\ UNCHANGED <<received, inference, closing, proc, frame, shutdown, answer>>

\* Mutant: the close request is forgotten.
FrameEndsStays ==
  /\ handler = "receiving" /\ proc.pc = "ended"
  /\ answer' = [answer EXCEPT ![proc.frame] = proc.outcome]
  /\ proc' = NoTask
  /\ UNCHANGED <<connection, frame, shutdown>>

\* The process task has ended: its outcome is sent, and a requested close
\* after it.
FrameEnds ==
  /\ handler = "receiving" /\ proc.pc = "ended"
  /\ answer' = [answer EXCEPT ![proc.frame] = proc.outcome]
  /\ proc' = NoTask
  /\ handler' = IF closing THEN "leaving" ELSE handler
  /\ UNCHANGED <<received, inference, calibrating, calibration, closing,
                 frame, shutdown>>

\* A malformed or oversized message, a disconnect, or a send that fails.
Leave ==
  /\ handler = "receiving"
  /\ handler' = "leaving"
  /\ UNCHANGED <<received, inference, calibrating, calibration, closing,
                 proc, frame, shutdown, answer>>

-----------------------------------------------------------------------------
(* The handler's `finally`.                                                 *)

\* The process task is awaited (its outcome is sent to nobody), and the
\* calibration is cancelled.
JoinTasks ==
  /\ handler = "leaving"
  /\ proc.pc \in {"none", "ended"}
  /\ proc' = NoTask
  /\ calibration' = "none"
  /\ handler' = IF worker = "none" THEN "gone" ELSE "cleaning"
  /\ awaited' = IF worker = "none" THEN {} ELSE pending
  /\ UNCHANGED <<received, inference, calibrating, closing,
                 frame, worker, answer>>

\* _cleanup_worker ends at its deadline, or earlier with the worker closed;
\* end_session follows.  The worker is closed by whoever waits for the tasks.
CleanupEnds ==
  /\ handler = "cleaning"
  /\ handler' = "gone"
  /\ UNCHANGED <<received, inference, calibrating, calibration, closing,
                 proc, frame, shutdown, answer>>

\* Mutant: only a handler that is still there closes the worker.
CloseWorkerInTime ==
  /\ handler = "cleaning"
  /\ worker \in {"started", "stopped"}
  /\ awaited \cap pending = {}
  /\ worker' = "closing"
  /\ UNCHANGED <<connection, proc, frame, awaited, answer>>

\* FaceWorker.close in its thread: no new work is taken, queued work is
\* cancelled.
CloseWorker ==
  /\ handler \in {"cleaning", "gone"}
  /\ worker \in {"started", "stopped"}
  /\ awaited \cap pending = {}
  /\ worker' = "closing"
  /\ call' = [call EXCEPT !["adapter"] =
                [f \in Frames |-> IF @[f] = "queued" THEN "cancelled" ELSE @[f]]]
  /\ UNCHANGED <<connection, proc, pending, buffer, toClose, awaited, answer>>

Reading(f) == call["adapter"][f] = "running"

\* Mutant: shutdown(wait=False).
DisposeAtOnce ==
  /\ worker = "closing"
  /\ worker' = "disposed"
  /\ UNCHANGED <<connection, proc, frame, awaited, answer>>

\* executor.shutdown(wait=True) returns and the adapter is disposed.
DisposeAdapter ==
  /\ worker = "closing"
  /\ \A f \in Frames : ~Reading(f)
  /\ worker' = "disposed"
  /\ UNCHANGED <<connection, proc, frame, awaited, answer>>

-----------------------------------------------------------------------------
(* The process task.                                                        *)

this == proc.frame

Started(kinds) ==
  call' = [k \in Kinds |-> IF k \in kinds THEN [call[k] EXCEPT ![this] = "running"]
                           ELSE call[k]]

\* defer_cleanup: the work goes on without the task.
Defer(kinds) == pending' = pending \cup (kinds \X {this})

\* defer_eye_cleanup: only a request that is still out.
EyeIfOut == IF call["eye"][this] = "running" THEN {"eye"} ELSE {}

End(outcome) == proc' = [proc EXCEPT !.pc = "ended", !.outcome = outcome]

\* The `finally` of _process_frame.
CloseBuffer == buffer' = [buffer EXCEPT ![this] = Closed(@)]

Begin ==
  /\ proc.pc \in {"frame", "gazeFrame", "calibrationFrame"}
  /\ IF proc.pc # "calibrationFrame" /\ ~inference
       THEN End("drop") /\ UNCHANGED call
       ELSE /\ proc' = [proc EXCEPT !.pc = CASE @ = "frame" -> "decoding"
                                             [] @ = "gazeFrame" -> "gazing"
                                             [] OTHER -> "capturing"]
            /\ Started(IF proc.pc = "frame" THEN {"decode"} ELSE {"eye"})
  /\ UNCHANGED <<connection, pending, buffer, toClose, shutdown, answer>>

\* The frame is decoded and goes to both workers, or it cannot be decoded.
Decoded ==
  /\ proc.pc = "decoding"
  /\ \/ /\ call["decode"][this] = "done"
        /\ proc' = [proc EXCEPT !.pc = "inferring"]
        /\ Started({"eye", "face"})
     \/ /\ call["decode"][this] = "raised"
        /\ End("error") /\ UNCHANGED call
  /\ UNCHANGED <<connection, pending, buffer, toClose, shutdown, answer>>

DecodeTimeout ==
  /\ proc.pc = "decoding"
  /\ Defer({"decode"}) /\ End("drop")
  /\ UNCHANGED <<connection, call, buffer, toClose, shutdown, answer>>

\* FaceWorker.process has returned a sample of this frame: the Eye answer is
\* next.
FaceSample ==
  /\ proc.pc = "inferring" /\ call["face"][this] = "done"
  /\ proc' = [proc EXCEPT !.pc = "fusing"]
  /\ UNCHANGED <<connection, frame, shutdown, answer>>

\* What is tracked of an adapter that process gave up on.
AdapterIfDeferred(face) == IF face = "deferred" THEN {"adapter"} ELSE {}

\* It has raised, or has given up on the adapter: the frame is closed here
\* unless the adapter still reads it.
FaceFails ==
  LET face == call["face"][this]
  IN /\ proc.pc = "inferring" /\ face \in {"raised", "timeout", "deferred"}
     /\ Defer(EyeIfOut \cup AdapterIfDeferred(face))
     /\ IF face = "deferred" THEN UNCHANGED buffer ELSE CloseBuffer
     /\ End(IF face = "raised" THEN "error" ELSE "drop")
     /\ UNCHANGED <<connection, call, toClose, shutdown, answer>>

\* The sample has another frame's context (_same_frame_context): an error.
\* The Eye request is left to itself.
FaceMismatch ==
  LET face == call["face"][this]
  IN /\ proc.pc = "inferring" /\ face \in {"done", "timeout", "deferred"}
     /\ Defer(AdapterIfDeferred(face))
     /\ IF face = "deferred" THEN UNCHANGED buffer ELSE CloseBuffer
     /\ call' = IF EyeIfOut = {} THEN call ELSE [call EXCEPT !["eye"][this] = "untracked"]
     /\ End("error")
     /\ UNCHANGED <<connection, toClose, shutdown, answer>>

\* Mutant: the frame is closed with the task.
FaceTimeoutCloses ==
  /\ proc.pc = "inferring"
  /\ Defer({"face"} \cup EyeIfOut) /\ End("drop") /\ CloseBuffer
  /\ UNCHANGED <<connection, call, toClose, shutdown, answer>>

\* Mutant: no deadline around the worker.
FaceTimeoutNever == FALSE

FaceTimeout ==
  /\ proc.pc = "inferring"
  /\ Defer({"face"} \cup EyeIfOut) /\ End("drop")
  /\ UNCHANGED <<connection, call, buffer, toClose, shutdown, answer>>

\* The Eye answer is fused, or its deadline passes: a result either way.
Fused ==
  /\ proc.pc = "fusing"
  /\ \/ call["eye"][this] = "done" /\ UNCHANGED pending
     \/ Defer({"eye"})
  /\ End("sample") /\ CloseBuffer
  /\ UNCHANGED <<connection, call, toClose, shutdown, answer>>

\* Without a face worker: a result with or without a gaze sample.
Gazed ==
  /\ proc.pc = "gazing"
  /\ \/ call["eye"][this] = "done" /\ UNCHANGED pending
        /\ \/ End("sample") \/ End("empty")
     \/ Defer({"eye"}) /\ End("empty")
  /\ UNCHANGED <<connection, call, buffer, toClose, shutdown, answer>>

\* A calibration frame: a result without samples, or a drop.
Captured ==
  /\ proc.pc = "capturing"
  /\ \/ call["eye"][this] = "done" /\ UNCHANGED pending /\ End("empty")
     \/ Defer({"eye"}) /\ End("drop")
  /\ UNCHANGED <<connection, call, buffer, toClose, shutdown, answer>>

ProcessStep ==
  \/ Begin \/ Decoded \/ DecodeTimeout \/ FaceSample \/ FaceFails \/ FaceMismatch
  \/ FaceTimeout \/ Fused \/ Gazed \/ Captured

-----------------------------------------------------------------------------
(* Callbacks of deferred work.                                              *)

\* Mutant: nobody closes it.
DecodeLateLeaks(f) ==
  /\ <<"decode", f>> \in pending /\ call["decode"][f] \in {"done", "raised"}
  /\ pending' = pending \ {<<"decode", f>>}
  /\ UNCHANGED <<connection, proc, call, buffer, toClose, shutdown, answer>>

\* The late decoder's frame is closed.
DecodeLate(f) ==
  /\ <<"decode", f>> \in pending /\ call["decode"][f] \in {"done", "raised"}
  /\ pending' = pending \ {<<"decode", f>>}
  /\ buffer' = IF call["decode"][f] = "done" THEN [buffer EXCEPT ![f] = Closed(@)] ELSE buffer
  /\ UNCHANGED <<connection, proc, call, toClose, shutdown, answer>>

\* Mutant: the adapter's work is not tracked.
FaceLateUntracked(f) ==
  /\ <<"face", f>> \in pending /\ call["face"][f] \in {"done", "raised", "timeout", "deferred"}
  /\ pending' = pending \ {<<"face", f>>}
  /\ buffer' = IF call["face"][f] = "deferred" THEN buffer
               ELSE [buffer EXCEPT ![f] = Closed(@)]
  /\ UNCHANGED <<connection, proc, call, toClose, shutdown, answer>>

\* _finish_worker_frame
FaceLate(f) ==
  /\ <<"face", f>> \in pending /\ call["face"][f] \in {"done", "raised", "timeout", "deferred"}
  /\ IF call["face"][f] = "deferred"
       THEN /\ pending' = (pending \ {<<"face", f>>}) \cup {<<"adapter", f>>}
            /\ UNCHANGED buffer
       ELSE /\ pending' = pending \ {<<"face", f>>}
            /\ buffer' = [buffer EXCEPT ![f] = Closed(@)]
  /\ UNCHANGED <<connection, proc, call, toClose, shutdown, answer>>

\* The adapter or the Eye request has ended.
Settled(k, f) ==
  /\ <<k, f>> \in pending /\ k \in {"adapter", "eye"}
  /\ call[k][f] \in {"done", "raised"}
  /\ pending' = pending \ {<<k, f>>}
  /\ UNCHANGED <<connection, proc, call, buffer, toClose, shutdown, answer>>

Callback(f) ==
  DecodeLate(f) \/ FaceLate(f) \/ \E k \in {"adapter", "eye"} : Settled(k, f)

-----------------------------------------------------------------------------
(* Threads.                                                                 *)

Return(k, f, result) == call' = [call EXCEPT ![k][f] = result]

\* The decoder produces a frame or raises.
Decode(f) ==
  /\ call["decode"][f] = "running"
  /\ \/ Return("decode", f, "done") /\ buffer' = [buffer EXCEPT ![f] = "open"]
     \/ Return("decode", f, "raised") /\ UNCHANGED buffer
  /\ UNCHANGED <<connection, proc, pending, toClose, shutdown, answer>>

\* FaceWorker.process: infer is queued, or the worker is not running.
FaceSubmit(f) ==
  /\ call["face"][f] = "running"
  /\ IF worker = "started"
       THEN call' = [call EXCEPT !["face"][f] = "waiting", !["adapter"][f] = "queued"]
       ELSE Return("face", f, "done")
  /\ UNCHANGED <<connection, proc, pending, buffer, toClose, shutdown, answer>>

\* The executor's one thread takes the work.
AdapterStart(f) ==
  /\ call["adapter"][f] = "queued" /\ \A g \in Frames : ~Reading(g)
  /\ Return("adapter", f, "running")
  /\ UNCHANGED <<connection, proc, pending, buffer, toClose, shutdown, answer>>

\* infer ends; process closes the frame here if it has given it up.
AdapterEnds(f) ==
  /\ Reading(f)
  /\ Return("adapter", f, "done")
  /\ buffer' = IF f \in toClose THEN [buffer EXCEPT ![f] = Closed(@)] ELSE buffer
  /\ toClose' = toClose \ {f}
  /\ UNCHANGED <<connection, proc, pending, shutdown, answer>>

\* future.result: a sample, which is an invalid one if infer raised or was
\* cancelled; process itself may raise.
FaceReturns(f) ==
  /\ call["face"][f] = "waiting" /\ call["adapter"][f] \in {"done", "cancelled"}
  /\ \E result \in {"done", "raised"} : Return("face", f, result)
  /\ UNCHANGED <<connection, proc, pending, buffer, toClose, shutdown, answer>>

\* The worker's own deadline: infer is cancelled if it has not begun, and
\* otherwise takes the frame with it.
FaceDeadline(f) ==
  /\ call["face"][f] = "waiting"
  /\ \/ /\ call["adapter"][f] = "queued"
        /\ call' = [call EXCEPT !["face"][f] = "timeout", !["adapter"][f] = "cancelled"]
        /\ UNCHANGED <<buffer, toClose>>
     \/ /\ Reading(f)
        /\ Return("face", f, "deferred")
        /\ toClose' = toClose \cup {f}
        /\ UNCHANGED buffer
     \/ /\ call["adapter"][f] = "done"
        /\ Return("face", f, "deferred")
        /\ buffer' = [buffer EXCEPT ![f] = Closed(@)]
        /\ UNCHANGED toClose
  /\ UNCHANGED <<connection, proc, pending, shutdown, answer>>

\* The Eye worker answers, or the client gives up on it.
EyeAnswers(f) ==
  /\ call["eye"][f] \in {"running", "untracked"}
  /\ Return("eye", f, "done")
  /\ UNCHANGED <<connection, proc, pending, buffer, toClose, shutdown, answer>>

CalibrationAnswers ==
  /\ calibration = "running"
  /\ calibration' = "done"
  /\ UNCHANGED <<handler, received, inference, calibrating, closing,
                 proc, frame, shutdown, answer>>

Client ==
  \/ DropFrame \/ AcceptFrame \/ SetInference \/ StartCalibration \/ StopSession \/ Leave

HandlerStep ==
  \/ Hello \/ Refused \/ CalibrationEnds \/ FrameEnds \/ JoinTasks \/ CleanupEnds

ThreadStep(f) ==
  Decode(f) \/ FaceSubmit(f) \/ AdapterStart(f) \/ AdapterEnds(f) \/ FaceReturns(f)

ShutdownStep == CloseWorker \/ DisposeAdapter

Next ==
  \/ Client \/ HandlerStep \/ ProcessStep \/ ShutdownStep \/ CalibrationAnswers
  \/ \E f \in Frames : \/ Callback(f) \/ ThreadStep(f)
                       \/ FaceDeadline(f) \/ EyeAnswers(f)

Spec == Init /\ [][Next]_vars

\* The event loop runs every ready step, deadlines included, and one turn of
\* the handler takes up each task that has ended.  Neither the client nor a
\* thread nor the Eye worker is obliged to do anything.
LoopFairness ==
  /\ WF_vars(FrameEnds) /\ WF_vars(JoinTasks) /\ WF_vars(CleanupEnds)
  /\ WF_vars(ProcessStep)
  /\ \A f \in Frames : WF_vars(Callback(f))

LoopSpec == Spec /\ LoopFairness

\* Threads and requests come to an end: decoding and inference are bounded
\* computations, and the Eye client has a timeout of its own.
ThreadFairness ==
  /\ WF_vars(ShutdownStep)
  /\ \A f \in Frames : /\ WF_vars(ThreadStep(f)) /\ WF_vars(FaceDeadline(f))
                       /\ WF_vars(EyeAnswers(f))

-----------------------------------------------------------------------------
(* Properties.                                                              *)

\* Every variable has its type, work is deferred only for frames that came,
\* and the flag of the calibration follows its task.
TypeOK ==
  /\ handler \in {"hello", "receiving", "leaving", "cleaning", "gone"}
  /\ received \in 0..MaxFrames
  /\ inference \in BOOLEAN /\ closing \in BOOLEAN
  /\ calibration \in {"none", "running", "done"}
  /\ calibrating \in BOOLEAN
  /\ handler = "receiving" => (calibrating <=> calibration # "none")
  /\ proc \in [pc : {"none", "frame", "gazeFrame", "calibrationFrame", "decoding",
                     "inferring", "fusing", "gazing", "capturing", "ended"},
               frame : 0..received,
               outcome : {"none", "sample", "empty", "drop", "error"}]
  /\ call \in [Kinds -> [Frames -> {"none", "running", "waiting", "queued", "done",
                                    "raised", "timeout", "deferred", "cancelled",
                                    "untracked"}]]
  /\ pending \subseteq Kinds \X (1..received) /\ awaited \subseteq Kinds \X (1..received)
  /\ buffer \in [Frames -> {"none", "open", "closed", "twice"}]
  /\ toClose \subseteq Frames
  /\ worker \in {"none", "started", "stopped", "closing", "disposed"}
  /\ answer \in [Frames -> {"none", "sample", "empty", "drop", "error"}]

\* Something of the gateway's still works on frame f or holds it.  An untracked
\* Eye request does not count: the gateway does not know of it.
AtWork(f) ==
  \/ proc.frame = f
  \/ buffer[f] = "open"
  \/ \E k \in Kinds : call[k][f] \in {"running", "waiting", "queued"}

\* "Exactly one frame is in flight per session" (contracts/vision-stream-v1):
\* a frame is taken in only when the threads and requests of the one before,
\* given up on or not, have ended (has_pending_work, defer_cleanup).  The one
\* exception is an Eye request that FaceMismatch left: the next frame may be
\* taken in, and its own request sent, beside it.
OneFrameAtWork ==
  \A f, g \in Frames : AtWork(f) /\ AtWork(g) => f = g

\* A frame is closed once, and not while FaceWorker's adapter may still read
\* it, whichever of the two deadlines fires first (frame_cleanup_deferred).
ClosedOnceAfterUse ==
  \A f \in Frames :
    /\ buffer[f] # "twice"
    /\ call["adapter"][f] \in {"queued", "running"} => buffer[f] = "open"

\* The adapter is disposed of only when it reads no frame, although cleanup
\* waits only for the work it took its snapshot of (FaceWorker.close).
DisposedAfterUse ==
  worker = "disposed" => \A f \in Frames : ~Reading(f)

\* One frame is at work, but for an Eye request left to itself, and neither it
\* nor the worker is given back while a thread may still read it.
FrameInUse == TypeOK /\ OneFrameAtWork /\ ClosedOnceAfterUse /\ DisposedAfterUse

\* A stop_session closes the connection, even if decoder, adapter and Eye
\* worker never answer.
StopEnds == closing ~> handler = "gone"

\* An accepted frame is answered, or the connection ends, under the same
\* circumstances ("every frame the Gateway received gets exactly one result or
\* drop"; an error about the frame counts as its answer here).
AcceptedFrameEnds ==
  \A f \in Frames : proc.frame = f ~> answer[f] # "none" \/ handler = "gone"

\* The client is told how its frame or its session ended, whoever stalls.
ClientIsAnswered == StopEnds /\ AcceptedFrameEnds

\* "Whether decoding or inference succeeds or fails, the image buffer is
\* released", also after a deadline, a failure or a disconnect: as soon as the
\* threads end, however late.
BuffersReleased ==
  ThreadFairness => \A f \in Frames : buffer[f] = "open" ~> buffer[f] = "closed"

\* The face worker of a connection that ended is closed when the threads end.
WorkerDisposed ==
  ThreadFairness =>
    (handler = "gone" /\ worker \in {"started", "stopped"} ~> worker = "disposed")

\* Whatever a connection held is given back in the end.
AllGivenBack == BuffersReleased /\ WorkerDisposed
=============================================================================
