------------------------- MODULE VisionStream_proofs -------------------------
(***************************************************************************)
(* One connection of the gateway, for any number of frames: one frame is at *)
(* work, its buffer is closed once and after its last reader, and the face  *)
(* worker is disposed of unused.                                            *)
(***************************************************************************)
EXTENDS VisionStream, TLAPS

-----------------------------------------------------------------------------
(* The inductive invariant.                                                 *)

CallState == {"none", "running", "waiting", "queued", "done",
              "raised", "timeout", "deferred", "cancelled", "untracked"}
BufferState == {"none", "open", "closed", "twice"}
Task(n) == [pc : {"none", "frame", "gazeFrame", "calibrationFrame", "decoding",
                  "inferring", "fusing", "gazing", "capturing", "ended"},
            frame : 0..n, outcome : {"none", "sample", "empty", "drop", "error"}]

\* Nothing was begun for frame f.
Untouched(f) ==
  /\ \A k \in Kinds : call[k][f] = "none"
  /\ buffer[f] = "none" /\ f \notin toClose

\* The connection before its hello, and the process task between frames.
TaskInv ==
  /\ handler = "hello" =>
       /\ ~calibrating /\ calibration = "none" /\ proc = NoTask
       /\ worker = "none" /\ received = 0
  /\ proc.pc = "none" => proc = NoTask
  /\ proc.pc # "none" => proc.frame # NoFrame
  /\ proc.pc # "ended" => proc.outcome = "none"
  /\ \A f \in Frames : f > received => Untouched(f)

\* What FaceWorker.process and the executor have come to with a frame: the
\* frame is the executor's exactly when process has given the adapter up.
FaceInv(f) ==
  LET face == call["face"][f]  adapter == call["adapter"][f] IN
  /\ face \in {"none", "running"} => adapter = "none"
  /\ face = "waiting" => adapter \in {"queued", "running", "done", "cancelled"}
  /\ face \in {"done", "raised"} => adapter \in {"none", "done", "cancelled"}
  /\ face = "timeout" => adapter = "cancelled"
  /\ face = "deferred" => \/ adapter = "running" /\ buffer[f] = "open"
                          \/ adapter = "done" /\ buffer[f] = "closed"
  /\ f \in toClose <=> face = "deferred" /\ adapter = "running"
  /\ face \notin {"queued", "cancelled", "untracked"} /\ adapter # "untracked"

\* What the decoder has made of it.
DecodeInv(f) ==
  /\ call["decode"][f] \in {"none", "running", "done", "raised"}
  /\ call["eye"][f] \in {"none", "running", "done", "untracked"}
  /\ buffer[f] # "twice"
  /\ buffer[f] = "none" <=> call["decode"][f] # "done"
  /\ call["face"][f] # "none" => call["decode"][f] = "done"

\* The frame is open for its readers.
OpenToReaders(f) == call["face"][f] # "none" /\ (call["face"][f] # "deferred" => buffer[f] = "open")

\* The frame that the process task works on.
ProcInv(f) ==
  /\ proc.pc \in {"frame", "gazeFrame", "calibrationFrame"} => Untouched(f)
  /\ proc.pc = "decoding" => /\ call["decode"][f] # "none" /\ call["face"][f] = "none"
                             /\ buffer[f] # "closed" /\ call["eye"][f] = "none"
  /\ proc.pc = "inferring" => OpenToReaders(f)
  /\ proc.pc = "fusing" => call["face"][f] = "done" /\ buffer[f] = "open"
  /\ proc.pc \in {"gazing", "capturing"} =>
       call["decode"][f] = "none" /\ call["face"][f] = "none"

\* The process task has nothing to do with frame f any more, or not yet.
Left(f) == proc.frame # f \/ proc.pc = "ended"

\* What it left behind has a callback that waits for it.
LeftInv(f) ==
  Left(f) =>
    /\ call["decode"][f] = "running" => <<"decode", f>> \in pending
    /\ call["face"][f] \in {"running", "waiting"} => <<"face", f>> \in pending
    /\ call["adapter"][f] \in {"queued", "running"} =>
         <<"face", f>> \in pending \/ <<"adapter", f>> \in pending
    /\ call["eye"][f] = "running" => <<"eye", f>> \in pending
    /\ buffer[f] = "open" => \/ <<"decode", f>> \in pending \/ <<"face", f>> \in pending
                             \/ <<"adapter", f>> \in pending

\* A callback finds the frame as the task left it.
PendingInv(f) ==
  /\ \A k \in Kinds : <<k, f>> \in pending => Left(f)
  /\ <<"decode", f>> \in pending => /\ call["decode"][f] # "none" /\ call["face"][f] = "none"
                                    /\ buffer[f] # "closed"
  /\ <<"face", f>> \in pending => OpenToReaders(f)
  /\ <<"adapter", f>> \in pending => call["face"][f] = "deferred"

\* Deferred work is of one frame, and the task's frame is that one.
OneOwner ==
  /\ \A f, g \in Frames : \A k, l \in Kinds :
       <<k, f>> \in pending /\ <<l, g>> \in pending => f = g
  /\ \A f \in Frames : \A k \in Kinds : <<k, f>> \in pending => proc.frame \in {NoFrame, f}

\* A worker that is closing takes no work.
WorkerInv ==
  /\ worker \in {"closing", "disposed"} => \A f \in Frames : call["adapter"][f] # "queued"
  /\ DisposedAfterUse

FrameInv(f) ==
  /\ FaceInv(f) /\ DecodeInv(f) /\ LeftInv(f) /\ PendingInv(f)
  /\ proc.frame = f => ProcInv(f)

StreamInv ==
  /\ TypeOK /\ TaskInv /\ OneOwner /\ WorkerInv
  /\ \A f \in Frames : FrameInv(f)
-----------------------------------------------------------------------------
(* Lemmas about frames.                                                     *)

\* What the invariant says of a frame depends on that frame's state alone.
LEMMA Elsewhere ==
  ASSUME NEW f \in Frames, FrameInv(f),
         \A k \in Kinds : call'[k][f] = call[k][f] /\ (<<k, f>> \in pending' <=> <<k, f>> \in pending),
         buffer'[f] = buffer[f], f \in toClose' <=> f \in toClose,
         proc' = proc \/ (proc.frame # f /\ proc'.frame # f)
  PROVE  FrameInv(f)'
<1>1. FaceInv(f)' /\ DecodeInv(f)'
  BY DEF FrameInv, FaceInv, DecodeInv, Kinds
<1>2. LeftInv(f)' /\ PendingInv(f)'
  BY DEF FrameInv, LeftInv, PendingInv, OpenToReaders, Left, Kinds
<1>3. proc'.frame = f => ProcInv(f)'
  BY DEF FrameInv, ProcInv, Untouched, OpenToReaders, Kinds
<1>4. QED
  BY <1>1, <1>2, <1>3 DEF FrameInv

\* A frame that is at work is the task's, or deferred work is of it.
LEMMA WorkIsKnown ==
  ASSUME StreamInv, NEW f \in Frames, AtWork(f)
  PROVE  proc.frame = f \/ \E k \in Kinds : <<k, f>> \in pending
<1>1. FaceInv(f) /\ DecodeInv(f) /\ LeftInv(f) /\ call \in [Kinds -> [Frames -> {"none", "running", "waiting", "queued", "done",
                                    "raised", "timeout", "deferred", "cancelled", "untracked"}]]
  BY DEF StreamInv, FrameInv, TypeOK
<1>2. QED
  BY <1>1 DEF AtWork, FaceInv, DecodeInv, LeftInv, Left, Kinds

\* Who reads a frame finds it open.
LEMMA ReadersOpen ==
  ASSUME StreamInv, NEW f \in Frames, call["face"][f] \in {"running", "waiting"}
  PROVE  OpenToReaders(f)
<1>1. FrameInv(f) /\ "face" \in Kinds
  BY DEF StreamInv, Kinds
<1>2. CASE Left(f)
  BY <1>1, <1>2 DEF FrameInv, LeftInv, PendingInv
<1>3. CASE ~Left(f)
  <2>1. proc.frame = f /\ proc.pc # "none" /\ proc.pc # "ended"
    BY <1>3 DEF Left, StreamInv, TaskInv, NoTask, NoFrame, Frames
  <2>2. proc.pc \in {"frame", "gazeFrame", "calibrationFrame", "decoding", "inferring", "fusing",
                     "gazing", "capturing"}
    BY <2>1 DEF StreamInv, TypeOK
  <2>3. QED
    BY <1>1, <2>1, <2>2 DEF FrameInv, ProcInv, Untouched
<1>4. QED
  BY <1>2, <1>3

\* The safety property follows.
LEMMA StreamInvSafe == StreamInv => FrameInUse
<1> SUFFICES ASSUME StreamInv PROVE FrameInUse
  OBVIOUS
<1>1. OneFrameAtWork
  <2> SUFFICES ASSUME NEW f \in Frames, NEW g \in Frames, AtWork(f), AtWork(g)
               PROVE  f = g
    BY DEF OneFrameAtWork
  <2>1. /\ proc.frame = f \/ \E k \in Kinds : <<k, f>> \in pending
        /\ proc.frame = g \/ \E k \in Kinds : <<k, g>> \in pending
    BY WorkIsKnown
  <2>2. f # NoFrame /\ g # NoFrame
    BY DEF Frames, NoFrame
  <2>3. QED
    BY <2>1, <2>2 DEF StreamInv, OneOwner
<1>2. ClosedOnceAfterUse
  <2> SUFFICES ASSUME NEW f \in Frames, call["adapter"][f] \in {"queued", "running"}
               PROVE  buffer[f] = "open"
    BY DEF ClosedOnceAfterUse, StreamInv, FrameInv, DecodeInv
  <2>1. FaceInv(f) /\ LeftInv(f) /\ PendingInv(f) /\ DecodeInv(f)
    BY DEF StreamInv, FrameInv
  <2>2. call["face"][f] \in {"waiting", "deferred"}
    BY <2>1 DEF FaceInv, StreamInv, TypeOK, Kinds
  <2>3. QED
    BY <2>1, <2>2, ReadersOpen DEF FaceInv, OpenToReaders
<1>3. QED
  BY <1>1, <1>2 DEF FrameInUse, StreamInv, WorkerInv

\* A connection that was just accepted satisfies the invariant.
LEMMA InitStream == Init => StreamInv
<1> SUFFICES ASSUME Init PROVE StreamInv
  OBVIOUS
<1> USE StreamAssumption
<1>1. TypeOK
  <2>1. proc \in [pc : {"none"}, frame : 0..0, outcome : {"none"}]
    BY DEF Init, NoTask, NoFrame
  <2>2. call \in [Kinds -> [Frames -> {"none"}]] /\ buffer \in [Frames -> {"none"}]
        /\ answer \in [Frames -> {"none"}]
    BY DEF Init
  <2>3. proc \in [pc : {"none", "frame", "gazeFrame", "calibrationFrame", "decoding",
                      "inferring", "fusing", "gazing", "capturing", "ended"},
                 frame : 0..received, outcome : {"none", "sample", "empty", "drop", "error"}]
    BY <2>1 DEF Init
  <2>4. /\ call \in [Kinds -> [Frames -> {"none", "running", "waiting", "queued", "done",
                                        "raised", "timeout", "deferred", "cancelled", "untracked"}]]
        /\ buffer \in [Frames -> {"none", "open", "closed", "twice"}]
        /\ answer \in [Frames -> {"none", "sample", "empty", "drop", "error"}]
    BY <2>2
  <2>5. inference \in BOOLEAN /\ closing \in BOOLEAN /\ calibrating \in BOOLEAN
        /\ (calibrating <=> calibration # "none")
    BY DEF Init
  <2>6. QED
    BY <2>3, <2>4, <2>5 DEF Init, TypeOK
<1>2. TaskInv /\ OneOwner /\ WorkerInv
  BY DEF Init, TaskInv, OneOwner, WorkerInv, DisposedAfterUse, Reading, NoTask, NoFrame, Untouched, Kinds
<1>3. ASSUME NEW f \in Frames PROVE FrameInv(f)
  BY DEF Init, FrameInv, FaceInv, DecodeInv, LeftInv, PendingInv, ProcInv, Untouched, NoTask, Kinds
<1>4. QED
  BY <1>1, <1>2, <1>3 DEF StreamInv

-----------------------------------------------------------------------------
(* The handler and the client: the frames stay as they are.                 *)

\* A step of the handler that leaves the frames alone.
LEMMA HandlerKeeps ==
  ASSUME StreamInv, UNCHANGED <<proc, frame>>, TypeOK', TaskInv', WorkerInv'
  PROVE  StreamInv'
<1>1. OneOwner'
  BY DEF StreamInv, OneOwner, frame
<1>2. ASSUME NEW f \in Frames PROVE FrameInv(f)'
  <2>1. FrameInv(f)
    BY DEF StreamInv
  <2>2. /\ \A k \in Kinds : call'[k][f] = call[k][f] /\ (<<k, f>> \in pending' <=> <<k, f>> \in pending)
        /\ buffer'[f] = buffer[f] /\ (f \in toClose' <=> f \in toClose)
        /\ proc' = proc
    BY DEF frame
  <2>3. QED
    BY <2>1, <2>2, Elsewhere, Zenon
<1>3. QED
  BY <1>1, <1>2 DEF StreamInv

\* The two flags and the calibration are the receive loop's own: as long as it
\* goes on from a connection that is there, nothing else is touched.
LEMMA LoopKeeps ==
  ASSUME StreamInv, handler = "receiving",
         handler' \in {"receiving", "leaving"}, inference' \in BOOLEAN, closing' \in BOOLEAN,
         calibration' \in {"none", "running", "done"}, calibrating' \in BOOLEAN,
         handler' = "receiving" => (calibrating' <=> calibration' # "none"),
         UNCHANGED <<received, proc, frame, shutdown, answer>>
  PROVE  TypeOK' /\ TaskInv' /\ WorkerInv'
<1>1. /\ received' = received /\ proc' = proc /\ call' = call /\ pending' = pending
      /\ buffer' = buffer /\ toClose' = toClose /\ worker' = worker /\ awaited' = awaited
      /\ answer' = answer
  BY DEF frame, shutdown
<1>2. TypeOK'
  BY <1>1 DEF StreamInv, TypeOK
<1>3. TaskInv'
  BY <1>1 DEF StreamInv, TaskInv, Untouched
<1>4. WorkerInv'
  BY <1>1 DEF StreamInv, WorkerInv, DisposedAfterUse, Reading
<1>5. QED
  BY <1>2, <1>3, <1>4

\* Messages that are no frame, and how a connection is left.
LEMMA HandlerSteps ==
  ASSUME StreamInv,
         Hello \/ Refused \/ DropFrame \/ SetInference \/ StartCalibration \/ StopSession
           \/ CalibrationEnds \/ Leave \/ CleanupEnds \/ CalibrationAnswers
  PROVE  StreamInv'
<1> USE StreamAssumption DEF StreamInv, frame, shutdown
<1>1. CASE Refused
  <2>1. TypeOK'
    BY <1>1 DEF Refused, TypeOK, Frames
  <2>2. TaskInv' /\ WorkerInv'
    BY <1>1 DEF Refused, TypeOK, TaskInv, WorkerInv, DisposedAfterUse, Reading, Untouched, Frames
  <2>3. QED
    BY <1>1, <2>1, <2>2, HandlerKeeps DEF Refused
<1>2. CASE DropFrame
  <2>1. TypeOK'
    <3>1. received' \in 0..MaxFrames /\ 0..received \subseteq 0..received' /\ 1..received \subseteq 1..received'
      BY <1>2 DEF DropFrame, Arrives, TypeOK
    <3>2. answer' \in [Frames -> {"none", "sample", "empty", "drop", "error"}]
      BY <1>2 DEF DropFrame, TypeOK
    <3>3. proc \in
            [pc : {"none", "frame", "gazeFrame", "calibrationFrame", "decoding",
                   "inferring", "fusing", "gazing", "capturing", "ended"},
             frame : 0..received', outcome : {"none", "sample", "empty", "drop", "error"}]
      BY <3>1 DEF TypeOK
    <3>4. pending \subseteq Kinds \X (1..received') /\ awaited \subseteq Kinds \X (1..received')
      BY <3>1 DEF TypeOK
    <3>5. QED
      BY <1>2, <3>1, <3>2, <3>3, <3>4 DEF DropFrame, TypeOK
  <2>2. TaskInv' /\ WorkerInv'
    <3>1. received \in Nat /\ received' = received + 1 /\ handler' = "receiving"
          /\ UNCHANGED <<handler, calibrating, calibration, proc, frame, shutdown>>
      BY <1>2 DEF DropFrame, Arrives, TypeOK
    <3>2. \A f \in Frames : f > received' => f > received
      BY <3>1 DEF Frames
    <3>3. TaskInv'
      BY <3>1, <3>2 DEF TaskInv, Untouched
    <3>4. WorkerInv'
      BY <3>1 DEF WorkerInv, DisposedAfterUse, Reading
    <3>5. QED
      BY <3>3, <3>4
  <2>3. QED
    BY <1>2, <2>1, <2>2, HandlerKeeps DEF DropFrame, Arrives
<1>3. CASE SetInference
  <2>1. TypeOK' /\ TaskInv' /\ WorkerInv'
    <3>1. /\ handler = "receiving" /\ handler' \in {"receiving", "leaving"}
          /\ inference' \in BOOLEAN /\ closing' \in BOOLEAN
          /\ calibration' \in {"none", "running", "done"} /\ calibrating' \in BOOLEAN
          /\ handler' = "receiving" => (calibrating' <=> calibration' # "none")
          /\ UNCHANGED <<received, proc, frame, shutdown, answer>>
      BY <1>3 DEF SetInference, Control, TypeOK
    <3>2. QED
      BY <3>1, LoopKeeps
  <2>2. QED
    BY <1>3, <2>1, HandlerKeeps DEF SetInference, Control
<1>4. CASE StartCalibration
  <2>1. TypeOK' /\ TaskInv' /\ WorkerInv'
    <3>1. /\ handler = "receiving" /\ handler' \in {"receiving", "leaving"}
          /\ inference' \in BOOLEAN /\ closing' \in BOOLEAN
          /\ calibration' \in {"none", "running", "done"} /\ calibrating' \in BOOLEAN
          /\ handler' = "receiving" => (calibrating' <=> calibration' # "none")
          /\ UNCHANGED <<received, proc, frame, shutdown, answer>>
      BY <1>4 DEF StartCalibration, Control, TypeOK
    <3>2. QED
      BY <3>1, LoopKeeps
  <2>2. QED
    BY <1>4, <2>1, HandlerKeeps DEF StartCalibration, Control
<1>5. CASE StopSession
  <2>1. TypeOK' /\ TaskInv' /\ WorkerInv'
    <3>1. /\ handler = "receiving" /\ handler' \in {"receiving", "leaving"}
          /\ inference' \in BOOLEAN /\ closing' \in BOOLEAN
          /\ calibration' \in {"none", "running", "done"} /\ calibrating' \in BOOLEAN
          /\ handler' = "receiving" => (calibrating' <=> calibration' # "none")
          /\ UNCHANGED <<received, proc, frame, shutdown, answer>>
      BY <1>5 DEF StopSession, Control, TypeOK
    <3>2. QED
      BY <3>1, LoopKeeps
  <2>2. QED
    BY <1>5, <2>1, HandlerKeeps DEF StopSession, Control
<1>6. CASE CalibrationEnds
  <2>1. TypeOK' /\ TaskInv' /\ WorkerInv'
    <3>1. /\ handler = "receiving" /\ handler' \in {"receiving", "leaving"}
          /\ inference' \in BOOLEAN /\ closing' \in BOOLEAN
          /\ calibration' \in {"none", "running", "done"} /\ calibrating' \in BOOLEAN
          /\ handler' = "receiving" => (calibrating' <=> calibration' # "none")
          /\ UNCHANGED <<received, proc, frame, shutdown, answer>>
      BY <1>6 DEF CalibrationEnds, TypeOK
    <3>2. QED
      BY <3>1, LoopKeeps
  <2>2. QED
    BY <1>6, <2>1, HandlerKeeps DEF CalibrationEnds
<1>7. CASE Leave
  <2>1. TypeOK'
    BY <1>7 DEF Leave, TypeOK, Frames
  <2>2. TaskInv' /\ WorkerInv'
    BY <1>7 DEF Leave, TypeOK, TaskInv, WorkerInv, DisposedAfterUse, Reading, Untouched, Frames
  <2>3. QED
    BY <1>7, <2>1, <2>2, HandlerKeeps DEF Leave
<1>8. CASE CleanupEnds
  <2>1. TypeOK'
    BY <1>8 DEF CleanupEnds, TypeOK, Frames
  <2>2. TaskInv' /\ WorkerInv'
    BY <1>8 DEF CleanupEnds, TypeOK, TaskInv, WorkerInv, DisposedAfterUse, Reading, Untouched, Frames
  <2>3. QED
    BY <1>8, <2>1, <2>2, HandlerKeeps DEF CleanupEnds
<1>9. CASE CalibrationAnswers
  <2>1. TypeOK'
    BY <1>9 DEF CalibrationAnswers, TypeOK, Frames
  <2>2. TaskInv' /\ WorkerInv'
    BY <1>9 DEF CalibrationAnswers, TypeOK, TaskInv, WorkerInv, DisposedAfterUse, Reading, Untouched, Frames
  <2>3. QED
    BY <1>9, <2>1, <2>2, HandlerKeeps DEF CalibrationAnswers
<1>10. CASE Hello
  <2>1. TypeOK'
    BY <1>10 DEF Hello, TypeOK, TaskInv
  <2>2. TaskInv' /\ WorkerInv'
    BY <1>10 DEF Hello, TypeOK, TaskInv, WorkerInv, DisposedAfterUse, Reading, Untouched, Frames
  <2>3. QED
    BY <1>10, <2>1, <2>2, HandlerKeeps DEF Hello
<1>11. QED
  BY <1>1, <1>2, <1>3, <1>4, <1>5, <1>6, <1>7, <1>8, <1>9, <1>10

-----------------------------------------------------------------------------
(* The process task, the callbacks and the threads: a step is about one     *)
(* frame.                                                                   *)

\* A step of one frame: what the others hold is untouched.
LEMMA OneFrameStep ==
  ASSUME StreamInv, NEW f \in Frames, f <= received,
         UNCHANGED <<connection, shutdown, answer>>,
         \/ proc' = proc
         \/ /\ proc.frame = f /\ proc'.frame = f /\ proc' \in Task(received)
            /\ proc'.pc # "none" /\ (proc'.pc # "ended" => proc'.outcome = "none"),
         call' \in [Kinds -> [Frames -> CallState]],
         buffer' \in [Frames -> BufferState], toClose' \subseteq Frames,
         pending' \subseteq Kinds \X (1..received),
         \A g \in Frames : g # f =>
           /\ \A k \in Kinds : call'[k][g] = call[k][g] /\ (<<k, g>> \in pending' <=> <<k, g>> \in pending)
           /\ buffer'[g] = buffer[g] /\ (g \in toClose' <=> g \in toClose),
         \A k \in Kinds : <<k, f>> \in pending' =>
           proc.frame = f \/ \E l \in Kinds : <<l, f>> \in pending,
         worker \in {"closing", "disposed"} => call'["adapter"][f] # "queued",
         worker = "disposed" => call'["adapter"][f] # "running",
         FrameInv(f)'
  PROVE  StreamInv'
<1>1. TypeOK'
  <2>1. proc' \in Task(received)
    BY DEF StreamInv, TypeOK, Task
  <2>2. QED
    BY <2>1 DEF StreamInv, TypeOK, Task, CallState, BufferState, connection, shutdown
<1>2. TaskInv'
  <2>1. proc'.pc = "none" => proc' = NoTask
    BY DEF StreamInv, TaskInv
  <2>2. proc'.pc # "none" => proc'.frame # NoFrame
    BY DEF StreamInv, TaskInv, NoFrame, Frames
  <2>3. proc'.pc # "ended" => proc'.outcome = "none"
    BY DEF StreamInv, TaskInv
  <2>4. ASSUME NEW g \in Frames, g > received PROVE Untouched(g)'
    <3>1. g # f
      BY <2>4 DEF StreamInv, TypeOK, Frames
    <3>2. QED
      BY <2>4, <3>1 DEF StreamInv, TaskInv, Untouched
  <2>5. handler = "hello" => proc' = NoTask
    BY DEF StreamInv, TaskInv, NoTask, NoFrame, Frames
  <2>6. QED
    BY <2>1, <2>2, <2>3, <2>4, <2>5 DEF StreamInv, TaskInv, connection, shutdown
<1>3. OneOwner'
  <2>1. ASSUME NEW g \in Frames, NEW h \in Frames, NEW k \in Kinds, NEW l \in Kinds,
               <<k, g>> \in pending', <<l, h>> \in pending'
        PROVE  g = h
    <3>1. CASE g = f /\ h = f
      BY <3>1
    <3>2. CASE g # f /\ h # f
      BY <2>1, <3>2 DEF StreamInv, OneOwner
    <3>3. ASSUME NEW i \in Frames, NEW m \in Kinds, NEW n \in Kinds, i # f,
                 <<m, f>> \in pending', <<n, i>> \in pending'
          PROVE  FALSE
      <4>1. <<n, i>> \in pending
        BY <3>3
      <4>2. proc.frame # f
        BY <3>3, <4>1 DEF StreamInv, OneOwner, NoFrame, Frames
      <4>3. PICK l2 \in Kinds : <<l2, f>> \in pending
        BY <3>3, <4>2
      <4>4. QED
        BY <3>3, <4>1, <4>3 DEF StreamInv, OneOwner
    <3>4. QED
      BY <2>1, <3>1, <3>2, <3>3
  <2>2. ASSUME NEW g \in Frames, NEW k \in Kinds, <<k, g>> \in pending'
        PROVE  proc'.frame \in {NoFrame, g}
    <3>1. proc'.frame = proc.frame
      OBVIOUS
    <3>2. QED
      BY <2>2, <3>1 DEF StreamInv, OneOwner
  <2>3. QED
    BY <2>1, <2>2 DEF OneOwner
<1>4. ASSUME NEW g \in Frames PROVE FrameInv(g)'
  <2>1. CASE g = f
    BY <2>1
  <2>2. CASE g # f
    <3>1. FrameInv(g)
      BY DEF StreamInv
    <3>2. proc' = proc \/ (proc.frame # g /\ proc'.frame # g)
      BY <2>2
    <3>3. /\ \A k \in Kinds : call'[k][g] = call[k][g] /\ (<<k, g>> \in pending' <=> <<k, g>> \in pending)
          /\ buffer'[g] = buffer[g] /\ (g \in toClose' <=> g \in toClose)
      BY <2>2
    <3>4. QED
      BY <3>1, <3>2, <3>3, Elsewhere, Zenon
  <2>3. QED
    BY <2>1, <2>2
<1>5. WorkerInv'
  <2>1. \A g \in Frames : call'["adapter"][g] = call["adapter"][g] \/ g = f
    BY DEF Kinds
  <2>2. QED
    BY <2>1 DEF StreamInv, WorkerInv, DisposedAfterUse, Reading, shutdown
<1>6. QED
  BY <1>1, <1>2, <1>3, <1>4, <1>5 DEF StreamInv

\* A frame for which something was begun has arrived.
LEMMA TouchedArrived ==
  ASSUME StreamInv, NEW f \in Frames, NEW k \in Kinds, call[k][f] # "none"
  PROVE  f <= received
BY DEF StreamInv, TypeOK, TaskInv, Untouched, Frames

\* The types of the calls, the pictures and the tasks.
LEMMA CallTyped ==
  ASSUME StreamInv
  PROVE  /\ call \in [Kinds -> [Frames -> CallState]] /\ buffer \in [Frames -> BufferState]
         /\ toClose \subseteq Frames /\ pending \subseteq Kinds \X (1..received)
         /\ proc \in Task(received)
         /\ {"decode", "face", "adapter", "eye"} = Kinds
BY DEF StreamInv, TypeOK, CallState, BufferState, Task, Kinds

\* A call returns: only its own entry changes.
LEMMA ReturnTyped ==
  ASSUME StreamInv, NEW k \in Kinds, NEW f \in Frames, NEW r \in CallState, Return(k, f, r)
  PROVE  /\ call' \in [Kinds -> [Frames -> CallState]] /\ call'[k][f] = r
         /\ \A l \in Kinds, g \in Frames : l # k \/ g # f => call'[l][g] = call[l][g]
BY CallTyped DEF Return

\* A picture is closed: only its own entry changes.
LEMMA ClosedTyped ==
  ASSUME StreamInv, NEW f \in Frames, buffer[f] = "open", buffer' = [buffer EXCEPT ![f] = Closed(@)]
  PROVE  /\ buffer' \in [Frames -> BufferState] /\ buffer'[f] = "closed"
         /\ \A g \in Frames : g # f => buffer'[g] = buffer[g]
BY CallTyped DEF Closed, BufferState

-----------------------------------------------------------------------------
(* Threads.                                                                 *)

\* The Eye worker answers the adapter.
LEMMA EyeStep ==
  ASSUME StreamInv, NEW f \in Frames, EyeAnswers(f)
  PROVE  StreamInv'
<1>1. FrameInv(f) /\ f <= received
  BY TouchedArrived DEF StreamInv, EyeAnswers, Kinds
<1>2. /\ call' \in [Kinds -> [Frames -> CallState]] /\ call'["eye"][f] = "done"
      /\ \A l \in Kinds, g \in Frames : l # "eye" \/ g # f => call'[l][g] = call[l][g]
  BY ReturnTyped DEF EyeAnswers, CallState, Kinds
<1>3. FrameInv(f)'
  BY <1>1, <1>2 DEF EyeAnswers, FrameInv, FaceInv, DecodeInv, LeftInv, PendingInv, ProcInv, Untouched,
                    Left, OpenToReaders, Kinds
<1>4. worker \in {"closing", "disposed"} => call'["adapter"][f] # "queued"
  BY <1>2 DEF StreamInv, WorkerInv, Kinds
<1>5. worker = "disposed" => call'["adapter"][f] # "running"
  BY <1>2 DEF StreamInv, WorkerInv, DisposedAfterUse, Reading, Kinds
<1>6. QED
  BY <1>1, <1>2, <1>3, <1>4, <1>5, OneFrameStep, CallTyped DEF EyeAnswers

\* A frame's use of the worker is what it was, and so is the worker's state.
LEMMA AdapterKept ==
  ASSUME StreamInv, NEW f \in Frames, call'["adapter"][f] = call["adapter"][f]
  PROVE  /\ worker \in {"closing", "disposed"} => call'["adapter"][f] # "queued"
         /\ worker = "disposed" => call'["adapter"][f] # "running"
BY DEF StreamInv, WorkerInv, DisposedAfterUse, Reading

\* The decoder answers the task, or its callback.
LEMMA DecodeStep ==
  ASSUME StreamInv, NEW f \in Frames, Decode(f)
  PROVE  StreamInv'
<1>1. FrameInv(f) /\ f <= received
  BY TouchedArrived DEF StreamInv, Decode, Kinds
<1>2. PICK r \in {"done", "raised"} :
        /\ Return("decode", f, r)
        /\ buffer' = IF r = "done" THEN [buffer EXCEPT ![f] = "open"] ELSE buffer
  BY DEF Decode
<1>3. /\ call' \in [Kinds -> [Frames -> CallState]] /\ call'["decode"][f] = r
      /\ \A l \in Kinds, g \in Frames : l # "decode" \/ g # f => call'[l][g] = call[l][g]
  BY <1>2, ReturnTyped DEF CallState, Kinds
<1>4. /\ buffer' \in [Frames -> BufferState] /\ (\A g \in Frames : g # f => buffer'[g] = buffer[g])
      /\ buffer'[f] = IF r = "done" THEN "open" ELSE buffer[f]
  BY <1>2, CallTyped DEF BufferState
<1>5. FrameInv(f)'
  BY <1>1, <1>3, <1>4 DEF Decode, FrameInv, FaceInv, DecodeInv, LeftInv, PendingInv, ProcInv, Untouched,
                          Left, OpenToReaders, Kinds
<1>6. QED
  BY <1>1, <1>3, <1>4, <1>5, OneFrameStep, CallTyped, AdapterKept DEF Decode, Kinds

\* process queues the adapter's work, or the worker is not running.
LEMMA FaceSubmitStep ==
  ASSUME StreamInv, NEW f \in Frames, FaceSubmit(f)
  PROVE  StreamInv'
<1>1. FrameInv(f) /\ f <= received
  BY TouchedArrived DEF StreamInv, FaceSubmit, Kinds
<1>2. /\ call' \in [Kinds -> [Frames -> CallState]]
      /\ \/ worker = "started" /\ call'["face"][f] = "waiting" /\ call'["adapter"][f] = "queued"
         \/ call'["face"][f] = "done" /\ call'["adapter"][f] = call["adapter"][f]
      /\ \A l \in Kinds, g \in Frames : l \notin {"face", "adapter"} \/ g # f => call'[l][g] = call[l][g]
  BY CallTyped DEF FaceSubmit, Return, CallState, Kinds
<1>3. FrameInv(f)'
  BY <1>1, <1>2 DEF FaceSubmit, FrameInv, FaceInv, DecodeInv, LeftInv, PendingInv, ProcInv,
                          Untouched, Left, OpenToReaders, Kinds
<1>4. /\ worker \in {"closing", "disposed"} => call'["adapter"][f] # "queued"
      /\ worker = "disposed" => call'["adapter"][f] # "running"
  BY <1>2, AdapterKept
<1>5. QED
  BY <1>1, <1>2, <1>3, <1>4, OneFrameStep, CallTyped DEF FaceSubmit, Kinds

\* The executor takes up and ends the adapter's work.
LEMMA AdapterStep ==
  ASSUME StreamInv, NEW f \in Frames, AdapterStart(f) \/ AdapterEnds(f)
  PROVE  StreamInv'
<1>1. FrameInv(f) /\ f <= received
  BY TouchedArrived DEF StreamInv, AdapterStart, AdapterEnds, Reading, Kinds
<1>2. CASE AdapterStart(f)
  <2>1. /\ call' \in [Kinds -> [Frames -> CallState]] /\ call'["adapter"][f] = "running"
        /\ \A l \in Kinds, g \in Frames : l # "adapter" \/ g # f => call'[l][g] = call[l][g]
    BY <1>2, ReturnTyped DEF AdapterStart, CallState, Kinds
  <2>2. FrameInv(f)'
    BY <1>1, <1>2, <2>1 DEF AdapterStart, FrameInv, FaceInv, DecodeInv, LeftInv, PendingInv, ProcInv,
                          Untouched, Left, OpenToReaders, Kinds
  <2>3. worker \notin {"closing", "disposed"}
    BY <1>2 DEF AdapterStart, StreamInv, WorkerInv
  <2>4. QED
    BY <1>1, <1>2, <2>1, <2>2, <2>3, OneFrameStep, CallTyped DEF AdapterStart, Kinds
<1>3. CASE AdapterEnds(f)
  <2>1. /\ call' \in [Kinds -> [Frames -> CallState]] /\ call'["adapter"][f] = "done"
        /\ \A l \in Kinds, g \in Frames : l # "adapter" \/ g # f => call'[l][g] = call[l][g]
    BY <1>3, ReturnTyped DEF AdapterEnds, CallState, Kinds
  <2>2. /\ buffer' \in [Frames -> BufferState] /\ (\A g \in Frames : g # f => buffer'[g] = buffer[g])
        /\ buffer'[f] = IF f \in toClose THEN "closed" ELSE buffer[f]
    BY <1>1, <1>3, ClosedTyped, CallTyped DEF AdapterEnds, FrameInv, FaceInv
  <2>3. FrameInv(f)'
    BY <1>1, <1>3, <2>1, <2>2 DEF AdapterEnds, Reading, FrameInv, FaceInv, DecodeInv, LeftInv, PendingInv, ProcInv,
                          Untouched, Left, OpenToReaders, Kinds
  <2>4. QED
    BY <1>1, <1>3, <2>1, <2>2, <2>3, OneFrameStep, CallTyped DEF AdapterEnds, Kinds
<1>4. QED
  BY <1>2, <1>3

\* A thread's step is about its frame.
LEMMA OneThreadStep ==
  ASSUME StreamInv, NEW f \in Frames, f <= received,
         UNCHANGED <<connection, proc, pending, shutdown, answer>>,
         call' \in [Kinds -> [Frames -> CallState]],
         \A l \in Kinds, g \in Frames : g # f => call'[l][g] = call[l][g],
         buffer' \in [Frames -> BufferState], \A g \in Frames : g # f => buffer'[g] = buffer[g],
         toClose' \in {toClose, toClose \cup {f}},
         worker \in {"closing", "disposed"} => call'["adapter"][f] # "queued",
         worker = "disposed" => call'["adapter"][f] # "running",
         FrameInv(f)'
  PROVE  StreamInv'
<1>1. toClose' \subseteq Frames /\ pending' \subseteq Kinds \X (1..received)
  BY CallTyped
<1>2. \A g \in Frames : g # f =>
        /\ \A k \in Kinds : call'[k][g] = call[k][g] /\ (<<k, g>> \in pending' <=> <<k, g>> \in pending)
        /\ buffer'[g] = buffer[g] /\ (g \in toClose' <=> g \in toClose)
  OBVIOUS
<1>3. \A k \in Kinds : <<k, f>> \in pending' => proc.frame = f \/ \E l \in Kinds : <<l, f>> \in pending
  OBVIOUS
<1>4. UNCHANGED <<connection, shutdown, answer>> /\ proc' = proc
  OBVIOUS
<1>5. QED
  BY <1>1, <1>2, <1>3, <1>4, OneFrameStep, Zenon

\* process returns, with the adapter's answer or without it.
LEMMA FaceStep ==
  ASSUME StreamInv, NEW f \in Frames, FaceReturns(f) \/ FaceDeadline(f)
  PROVE  StreamInv'
<1>1. FrameInv(f) /\ f <= received
  BY TouchedArrived DEF StreamInv, FaceReturns, FaceDeadline, Kinds
<1>2. CASE FaceReturns(f)
  <2>1. PICK r \in {"done", "raised"} : Return("face", f, r)
    BY <1>2 DEF FaceReturns
  <2>2. /\ call' \in [Kinds -> [Frames -> CallState]] /\ call'["face"][f] = r
        /\ \A l \in Kinds, g \in Frames : l # "face" \/ g # f => call'[l][g] = call[l][g]
    BY <2>1, ReturnTyped DEF CallState, Kinds
  <2>3. FrameInv(f)'
    BY <1>1, <1>2, <2>2 DEF FaceReturns, FrameInv, FaceInv, DecodeInv, LeftInv, PendingInv, ProcInv,
                          Untouched, Left, OpenToReaders, Kinds
  <2>4. QED
    BY <1>1, <1>2, <2>2, <2>3, OneFrameStep, CallTyped, AdapterKept DEF FaceReturns, Kinds
<1>3. CASE FaceDeadline(f)
  <2>1. call["face"][f] = "waiting"
    BY <1>3 DEF FaceDeadline
  <2>2. buffer[f] = "open" /\ f \notin toClose
    BY <1>1, <2>1, ReadersOpen DEF OpenToReaders, FrameInv, FaceInv
  <2>3. CASE call["adapter"][f] = "queued"
    <3>1. /\ call' = [call EXCEPT !["face"][f] = "timeout", !["adapter"][f] = "cancelled"]
          /\ UNCHANGED <<buffer, toClose>>
      BY <1>3, <2>3 DEF FaceDeadline, Reading
    <3>2. /\ call' \in [Kinds -> [Frames -> CallState]]
          /\ call'["face"][f] = "timeout" /\ call'["adapter"][f] = "cancelled"
          /\ \A l \in Kinds, g \in Frames : l \notin {"face", "adapter"} \/ g # f => call'[l][g] = call[l][g]
      BY <3>1, CallTyped DEF CallState, Kinds
    <3>3. FrameInv(f)'
      BY <1>1, <1>3, <2>1, <2>2, <2>3, <3>1, <3>2 DEF FaceDeadline, FrameInv, FaceInv, DecodeInv, LeftInv, PendingInv, ProcInv,
                          Untouched, Left, OpenToReaders, Kinds
    <3>4. QED
      <4>1. call'["adapter"][f] = "cancelled" /\ \A l \in Kinds, g \in Frames : g # f => call'[l][g] = call[l][g]
        BY <3>2
      <4>2. UNCHANGED <<connection, proc, pending, shutdown, answer>>
        BY <1>3 DEF FaceDeadline
      <4>3. buffer' \in [Frames -> BufferState] /\ \A g \in Frames : buffer'[g] = buffer[g]
        BY <3>1, CallTyped
      <4>4. QED
        BY <1>1, <3>1, <3>2, <3>3, <4>1, <4>2, <4>3, OneThreadStep
  <2>4. CASE Reading(f)
    <3>1. Return("face", f, "deferred") /\ toClose' = toClose \cup {f} /\ UNCHANGED buffer
      BY <1>3, <2>4 DEF FaceDeadline, Reading
    <3>2. /\ call' \in [Kinds -> [Frames -> CallState]] /\ call'["face"][f] = "deferred"
          /\ \A l \in Kinds, g \in Frames : l # "face" \/ g # f => call'[l][g] = call[l][g]
      BY <3>1, ReturnTyped DEF CallState, Kinds
    <3>3. FrameInv(f)'
      BY <1>1, <1>3, <2>1, <2>2, <2>4, <3>1, <3>2 DEF FaceDeadline, Reading, FrameInv, FaceInv, DecodeInv, LeftInv, PendingInv, ProcInv,
                          Untouched, Left, OpenToReaders, Kinds
    <3>4. QED
      <4>1. call'["adapter"][f] = call["adapter"][f] /\ \A l \in Kinds, g \in Frames : g # f => call'[l][g] = call[l][g]
        BY <3>2 DEF Kinds
      <4>2. UNCHANGED <<connection, proc, pending, shutdown, answer>>
        BY <1>3 DEF FaceDeadline
      <4>3. buffer' \in [Frames -> BufferState] /\ \A g \in Frames : buffer'[g] = buffer[g]
        BY <3>1, CallTyped
      <4>4. QED
        BY <1>1, <3>1, <3>2, <3>3, <4>1, <4>2, <4>3, OneThreadStep, AdapterKept
  <2>5. CASE call["adapter"][f] = "done"
    <3>1. Return("face", f, "deferred") /\ buffer' = [buffer EXCEPT ![f] = Closed(@)] /\ UNCHANGED toClose
      BY <1>3, <2>5 DEF FaceDeadline, Reading
    <3>2. /\ call' \in [Kinds -> [Frames -> CallState]] /\ call'["face"][f] = "deferred"
          /\ \A l \in Kinds, g \in Frames : l # "face" \/ g # f => call'[l][g] = call[l][g]
      BY <3>1, ReturnTyped DEF CallState, Kinds
    <3>3. /\ buffer' \in [Frames -> BufferState] /\ buffer'[f] = "closed"
          /\ \A g \in Frames : g # f => buffer'[g] = buffer[g]
      BY <2>2, <3>1, ClosedTyped
    <3>4. FrameInv(f)'
      BY <1>1, <1>3, <2>1, <2>2, <2>5, <3>1, <3>2, <3>3 DEF FaceDeadline, FrameInv, FaceInv, DecodeInv, LeftInv, PendingInv, ProcInv,
                          Untouched, Left, OpenToReaders, Kinds
    <3>5. QED
      <4>1. call'["adapter"][f] = call["adapter"][f] /\ \A l \in Kinds, g \in Frames : g # f => call'[l][g] = call[l][g]
        BY <3>2 DEF Kinds
      <4>2. UNCHANGED <<connection, proc, pending, shutdown, answer>>
        BY <1>3 DEF FaceDeadline
      <4>3. QED
        BY <1>1, <3>1, <3>2, <3>3, <3>4, <4>1, <4>2, OneThreadStep, AdapterKept
  <2>6. QED
    BY <1>3, <2>3, <2>4, <2>5 DEF FaceDeadline
<1>4. QED
  BY <1>2, <1>3

-----------------------------------------------------------------------------
(* Callbacks of deferred work.                                              *)

\* The pending tasks of one frame change, and perhaps its buffer.
LEMMA PendingStep ==
  ASSUME StreamInv, NEW f \in Frames, NEW k \in Kinds, <<k, f>> \in pending,
         UNCHANGED <<connection, proc, call, toClose, shutdown, answer>>,
         buffer' \in [Frames -> BufferState], \A g \in Frames : g # f => buffer'[g] = buffer[g],
         pending' \subseteq pending \cup (Kinds \X {f}), pending \subseteq pending' \cup (Kinds \X {f}),
         FrameInv(f)'
  PROVE  StreamInv'
<1>1. f <= received /\ pending' \subseteq Kinds \X (1..received)
  BY CallTyped DEF Frames
<1>2. /\ call' \in [Kinds -> [Frames -> CallState]] /\ toClose' \subseteq Frames
      /\ \A l \in Kinds, g \in Frames : call'[l][g] = call[l][g]
      /\ \A g \in Frames : g \in toClose' <=> g \in toClose
  BY CallTyped
<1>3. \A g \in Frames : g # f => \A l \in Kinds : <<l, g>> \in pending' <=> <<l, g>> \in pending
  OBVIOUS
<1>4. \A g \in Frames : g # f =>
        /\ \A l \in Kinds : call'[l][g] = call[l][g] /\ (<<l, g>> \in pending' <=> <<l, g>> \in pending)
        /\ buffer'[g] = buffer[g] /\ (g \in toClose' <=> g \in toClose)
  BY <1>2, <1>3
<1>5. \A l \in Kinds : <<l, f>> \in pending' => proc.frame = f \/ \E m \in Kinds : <<m, f>> \in pending
  OBVIOUS
<1>6. /\ worker \in {"closing", "disposed"} => call'["adapter"][f] # "queued"
      /\ worker = "disposed" => call'["adapter"][f] # "running"
  BY AdapterKept
<1>7. UNCHANGED <<connection, shutdown, answer>> /\ proc' = proc
  OBVIOUS
<1>8. QED
  BY <1>1, <1>2, <1>4, <1>5, <1>6, <1>7, OneFrameStep, Zenon

\* The done callback of a call whose frame was left.
LEMMA CallbackStep ==
  ASSUME StreamInv, NEW f \in Frames, Callback(f)
  PROVE  StreamInv'
<1>1. PICK k \in Kinds : <<k, f>> \in pending
  BY DEF Callback, DecodeLate, FaceLate, Settled, Kinds
<1>2. FrameInv(f) /\ Left(f) /\ f <= received
  BY <1>1, CallTyped DEF StreamInv, FrameInv, PendingInv, Frames
<1>3. UNCHANGED <<connection, proc, call, toClose, shutdown, answer>>
  BY DEF Callback, DecodeLate, FaceLate, Settled, frame
<1>4. CASE DecodeLate(f)
  <2>1. pending' = pending \ {<<"decode", f>>} /\ call["decode"][f] \in {"done", "raised"}
    BY <1>4 DEF DecodeLate
  <2>2. call["decode"][f] = "done" => buffer[f] = "open"
    BY <1>2, <1>4 DEF DecodeLate, FrameInv, DecodeInv, PendingInv, StreamInv, TypeOK
  <2>3. /\ buffer' \in [Frames -> BufferState] /\ (\A g \in Frames : g # f => buffer'[g] = buffer[g])
        /\ buffer'[f] = IF call["decode"][f] = "done" THEN "closed" ELSE buffer[f]
    BY <1>4, <2>2, ClosedTyped, CallTyped DEF DecodeLate
  <2>4. FrameInv(f)'
    BY <1>2, <1>3, <1>4, <2>1, <2>3 DEF DecodeLate, FrameInv, FaceInv, DecodeInv, LeftInv, PendingInv, ProcInv,
                          Untouched, Left, OpenToReaders, Kinds
  <2>5. QED
    <3>1. pending' \subseteq pending \cup (Kinds \X {f}) /\ pending \subseteq pending' \cup (Kinds \X {f})
      BY <2>1 DEF Kinds
    <3>2. QED
      BY <1>1, <1>3, <2>3, <2>4, <3>1, PendingStep
<1>5. CASE FaceLate(f)
  <2>1. call["face"][f] # "deferred" => buffer[f] = "open"
    BY <1>2, <1>5 DEF FaceLate, FrameInv, PendingInv, OpenToReaders
  <2>2. /\ buffer' \in [Frames -> BufferState] /\ (\A g \in Frames : g # f => buffer'[g] = buffer[g])
        /\ buffer'[f] = IF call["face"][f] = "deferred" THEN buffer[f] ELSE "closed"
    BY <1>5, <2>1, ClosedTyped, CallTyped DEF FaceLate
  <2>3. pending' = (pending \ {<<"face", f>>})
                     \cup (IF call["face"][f] = "deferred" THEN {<<"adapter", f>>} ELSE {})
    BY <1>5 DEF FaceLate
  <2>4. FrameInv(f)'
    BY <1>2, <1>3, <1>5, <2>2, <2>3 DEF FaceLate, FrameInv, FaceInv, DecodeInv, LeftInv, PendingInv, ProcInv,
                          Untouched, Left, OpenToReaders, Kinds
  <2>5. pending' \subseteq pending \cup (Kinds \X {f}) /\ pending \subseteq pending' \cup (Kinds \X {f})
    BY <2>3 DEF Kinds
  <2>6. QED
    BY <1>1, <1>3, <2>2, <2>4, <2>5, PendingStep
<1>6. ASSUME NEW l \in {"adapter", "eye"}, Settled(l, f) PROVE StreamInv'
  <2>1. pending' = pending \ {<<l, f>>} /\ call[l][f] \in {"done", "raised"} /\ buffer' = buffer
    BY <1>6 DEF Settled
  <2>2. FrameInv(f)'
    BY <1>2, <1>3, <1>6, <2>1 DEF Settled, FrameInv, FaceInv, DecodeInv, LeftInv, PendingInv, ProcInv,
                          Untouched, Left, OpenToReaders, Kinds
  <2>3. QED
    <3>1. pending' \subseteq pending \cup (Kinds \X {f}) /\ pending \subseteq pending' \cup (Kinds \X {f})
      BY <2>1 DEF Kinds
    <3>2. buffer' \in [Frames -> BufferState] /\ \A g \in Frames : g # f => buffer'[g] = buffer[g]
      BY <2>1, CallTyped
    <3>3. QED
      BY <1>1, <1>3, <2>2, <3>1, <3>2, PendingStep
<1>7. QED
  BY <1>4, <1>5, <1>6 DEF Callback

-----------------------------------------------------------------------------
(* The process task.                                                        *)

\* The frame of a task that works has arrived, and has nothing deferred.
LEMMA TaskFrame ==
  ASSUME StreamInv, proc.pc # "none"
  PROVE  /\ this \in Frames /\ this <= received /\ FrameInv(this) /\ ProcInv(this)
         /\ proc.pc # "ended" => ~Left(this) /\ \A k \in Kinds : <<k, this>> \notin pending
<1>1. this \in Frames /\ this <= received
  BY StreamAssumption DEF StreamInv, TypeOK, TaskInv, NoFrame, Frames, this
<1>2. FrameInv(this) /\ ProcInv(this)
  BY <1>1 DEF StreamInv, FrameInv, this
<1>3. QED
  BY <1>1, <1>2 DEF FrameInv, PendingInv, Left, this

\* End and Started change the task and the work of its frame alone.
LEMMA EndTyped ==
  ASSUME StreamInv, proc.pc # "none", NEW o \in {"sample", "empty", "drop", "error"}, End(o)
  PROVE  /\ proc' \in Task(received) /\ proc'.frame = this /\ proc'.pc = "ended"
BY CallTyped DEF End, Task, this

\* The calls of a frame are started: only they change.
LEMMA StartedTyped ==
  ASSUME StreamInv, NEW S \in SUBSET Kinds, this \in Frames, Started(S)
  PROVE  /\ call' \in [Kinds -> [Frames -> CallState]]
         /\ \A k \in Kinds : call'[k][this] = IF k \in S THEN "running" ELSE call[k][this]
         /\ \A k \in Kinds, g \in Frames : g # this => call'[k][g] = call[k][g]
BY CallTyped DEF Started, CallState

\* A step of the task is about its frame, which it may defer work of.
LEMMA TaskStep ==
  ASSUME StreamInv, proc.pc # "none",
         UNCHANGED <<connection, toClose, shutdown, answer>>,
         proc' \in Task(received), proc'.frame = this, proc'.pc # "none",
         proc'.pc # "ended" => proc'.outcome = "none",
         call' \in [Kinds -> [Frames -> CallState]],
         \A k \in Kinds, g \in Frames : g # this => call'[k][g] = call[k][g],
         call'["adapter"][this] = call["adapter"][this],
         buffer' \in [Frames -> BufferState], \A g \in Frames : g # this => buffer'[g] = buffer[g],
         pending \subseteq pending', pending' \subseteq pending \cup (Kinds \X {this}),
         FrameInv(this)'
  PROVE  StreamInv'
<1>1. this \in Frames /\ this <= received
  BY TaskFrame
<1>2. proc.frame = this
  BY DEF this
<1>3. PICK f \in Frames : f = this
  BY <1>1
<1>4. FrameInv(f)'
  <2>1. this' = this
    BY <1>2 DEF this
  <2>2. QED
    BY <1>3, <2>1 DEF FrameInv, FaceInv, DecodeInv, LeftInv, PendingInv, ProcInv, Untouched, Left, OpenToReaders
<1>5. pending' \subseteq Kinds \X (1..received) /\ toClose' \subseteq Frames
  BY <1>1, CallTyped DEF Frames
<1>6. \A g \in Frames : g # f => \A l \in Kinds : <<l, g>> \in pending' <=> <<l, g>> \in pending
  BY <1>3
<1>7. \A g \in Frames : g # f =>
        /\ \A l \in Kinds : call'[l][g] = call[l][g] /\ (<<l, g>> \in pending' <=> <<l, g>> \in pending)
        /\ buffer'[g] = buffer[g] /\ (g \in toClose' <=> g \in toClose)
  BY <1>3, <1>6
<1>8. \A l \in Kinds : <<l, f>> \in pending' => proc.frame = f \/ \E m \in Kinds : <<m, f>> \in pending
  BY <1>2, <1>3
<1>9. /\ worker \in {"closing", "disposed"} => call'["adapter"][f] # "queued"
      /\ worker = "disposed" => call'["adapter"][f] # "running"
  BY <1>3, AdapterKept
<1>10. /\ UNCHANGED <<connection, shutdown, answer>> /\ f <= received
       /\ proc.frame = f /\ proc'.frame = f
  BY <1>1, <1>2, <1>3
<1>11. QED
  BY <1>4, <1>5, <1>7, <1>8, <1>9, <1>10, OneFrameStep, Zenon

\* The frame is decoded, and its calls begin.
LEMMA BeginStep ==
  ASSUME StreamInv, Begin
  PROVE  StreamInv'
<1>1. proc.pc \in {"frame", "gazeFrame", "calibrationFrame"} /\ proc.pc # "none" /\ proc.pc # "ended"
  BY DEF Begin
<1>2. /\ this \in Frames /\ FrameInv(this) /\ ~Left(this) /\ \A k \in Kinds : <<k, this>> \notin pending
      /\ Untouched(this) /\ proc.outcome = "none"
  BY <1>1, TaskFrame DEF ProcInv, StreamInv, TaskInv
<1>3. CASE End("drop") /\ UNCHANGED call
  <2>1. proc' \in Task(received) /\ proc'.frame = this /\ proc'.pc = "ended"
    BY <1>1, <1>3, EndTyped
  <2>2. FrameInv(this)'
    BY <1>2, <1>3, <2>1 DEF Begin, FrameInv, FaceInv, DecodeInv, LeftInv, PendingInv, ProcInv,
                          Untouched, Left, OpenToReaders, Kinds, this
  <2>3. QED
    BY <1>1, <1>3, <2>1, <2>2, TaskStep, CallTyped DEF Begin
<1>4. ASSUME NEW kind \in {"decode", "eye"}, NEW pc \in {"decoding", "gazing", "capturing"},
             kind = "decode" <=> pc = "decoding", proc' = [proc EXCEPT !.pc = pc], Started({kind})
      PROVE  StreamInv'
  <2>1. proc' \in Task(received) /\ proc'.frame = this /\ proc'.pc = pc /\ proc'.outcome = "none"
    BY <1>2, <1>4, CallTyped DEF Task, this
  <2>2. /\ call' \in [Kinds -> [Frames -> CallState]]
        /\ \A k \in Kinds : call'[k][this] = IF k = kind THEN "running" ELSE call[k][this]
        /\ \A k \in Kinds, g \in Frames : g # this => call'[k][g] = call[k][g]
    <3>1. {kind} \in SUBSET Kinds
      BY DEF Kinds
    <3>2. QED
      BY <1>2, <1>4, <3>1, StartedTyped
  <2>3. FrameInv(this)'
    BY <1>2, <1>4, <2>1, <2>2 DEF Begin, FrameInv, FaceInv, DecodeInv, LeftInv, PendingInv, ProcInv,
                          Untouched, Left, OpenToReaders, Kinds, this
  <2>4. call'["adapter"][this] = call["adapter"][this]
    BY <1>4, <2>2 DEF Kinds
  <2>5. QED
    BY <1>1, <2>1, <2>2, <2>3, <2>4, TaskStep, CallTyped DEF Begin
<1>5. QED
  BY <1>1, <1>3, <1>4 DEF Begin

\* The decoder's answer is taken up, or given up on.
LEMMA DecodedStep ==
  ASSUME StreamInv, Decoded \/ DecodeTimeout
  PROVE  StreamInv'
<1>1. proc.pc = "decoding" /\ proc.pc # "none" /\ proc.pc # "ended"
  BY DEF Decoded, DecodeTimeout
<1>2. /\ this \in Frames /\ FrameInv(this) /\ ProcInv(this) /\ ~Left(this)
      /\ \A k \in Kinds : <<k, this>> \notin pending
      /\ proc.outcome = "none"
  BY <1>1, TaskFrame DEF StreamInv, TaskInv
<1>3. ASSUME NEW o \in {"error", "drop"}, End(o), UNCHANGED <<connection, call, buffer, toClose, shutdown, answer>>,
             \/ pending' = pending /\ call["decode"][this] = "raised"
             \/ Defer({"decode"})
      PROVE  StreamInv'
  <2>1. proc' \in Task(received) /\ proc'.frame = this /\ proc'.pc = "ended"
    BY <1>1, <1>3, EndTyped
  <2>2. FrameInv(this)'
    BY <1>1, <1>2, <1>3, <2>1 DEF Defer, FrameInv, FaceInv, DecodeInv, LeftInv, PendingInv, ProcInv,
                          Untouched, Left, OpenToReaders, Kinds, this
  <2>3. pending \subseteq pending' /\ pending' \subseteq pending \cup (Kinds \X {this})
    BY <1>3 DEF Defer, Kinds
  <2>4. QED
    BY <1>1, <1>3, <2>1, <2>2, <2>3, TaskStep, CallTyped
<1>4. CASE Decoded /\ call["decode"][this] = "done"
  <2>1. proc' = [proc EXCEPT !.pc = "inferring"] /\ Started({"eye", "face"})
    BY <1>4 DEF Decoded
  <2>2. proc' \in Task(received) /\ proc'.frame = this /\ proc'.pc = "inferring" /\ proc'.outcome = "none"
    BY <1>2, <2>1, CallTyped DEF Task, this
  <2>3. /\ call' \in [Kinds -> [Frames -> CallState]]
        /\ \A k \in Kinds : call'[k][this] = IF k \in {"eye", "face"} THEN "running" ELSE call[k][this]
        /\ \A k \in Kinds, g \in Frames : g # this => call'[k][g] = call[k][g]
    <3>1. {"eye", "face"} \in SUBSET Kinds
      BY DEF Kinds
    <3>2. QED
      BY <1>2, <2>1, <3>1, StartedTyped
  <2>4. buffer[this] = "open"
    BY <1>1, <1>2, <1>4 DEF FrameInv, DecodeInv, ProcInv, StreamInv, TypeOK
  <2>5. FrameInv(this)'
    BY <1>1, <1>2, <1>4, <2>2, <2>3, <2>4 DEF Decoded, FrameInv, FaceInv, DecodeInv, LeftInv, PendingInv, ProcInv,
                          Untouched, Left, OpenToReaders, Kinds, this
  <2>6. call'["adapter"][this] = call["adapter"][this]
    BY <2>3 DEF Kinds
  <2>7. QED
    BY <1>1, <1>4, <2>2, <2>3, <2>5, <2>6, TaskStep, CallTyped DEF Decoded
<1>5. QED
  BY <1>3, <1>4 DEF Decoded, DecodeTimeout

\* The face worker answers in time.
LEMMA FaceSampleStep ==
  ASSUME StreamInv, FaceSample
  PROVE  StreamInv'
<1>1. proc.pc = "inferring" /\ proc.pc # "none" /\ proc.pc # "ended"
  BY DEF FaceSample
<1>2. /\ this \in Frames /\ FrameInv(this) /\ ProcInv(this) /\ proc.outcome = "none"
  BY <1>1, TaskFrame DEF StreamInv, TaskInv
<1>3. proc' \in Task(received) /\ proc'.frame = this /\ proc'.pc = "fusing" /\ proc'.outcome = "none"
  BY <1>2, CallTyped DEF FaceSample, Task, this
<1>4. FrameInv(this)'
  BY <1>1, <1>2, <1>3 DEF FaceSample, frame, FrameInv, FaceInv, DecodeInv, LeftInv, PendingInv, ProcInv,
                          Untouched, Left, OpenToReaders, Kinds, this
<1>5. QED
  BY <1>1, <1>3, <1>4, TaskStep, CallTyped DEF FaceSample, frame

\* The task ends, with the frame closed or left as it is.
LEMMA TaskEnds ==
  ASSUME StreamInv, proc.pc # "none", NEW o \in {"sample", "empty", "drop", "error"}, End(o),
         UNCHANGED <<connection, call, toClose, shutdown, answer>>,
         \/ UNCHANGED buffer
         \/ CloseBuffer /\ buffer[this] = "open",
         NEW S \in SUBSET Kinds, pending' = pending \cup (S \X {this}),
         ASSUME proc'.frame = this, proc'.pc = "ended",
                buffer'[this] = buffer[this]
                  \/ (CloseBuffer /\ buffer[this] = "open" /\ buffer'[this] = "closed")
         PROVE  FrameInv(this)'
  PROVE  StreamInv'
<1>1. proc' \in Task(received) /\ proc'.frame = this /\ proc'.pc = "ended"
  BY EndTyped
<1>2. this \in Frames
  BY TaskFrame
<1>3. /\ buffer' \in [Frames -> BufferState] /\ \A g \in Frames : g # this => buffer'[g] = buffer[g]
      /\ \/ buffer'[this] = buffer[this]
         \/ (CloseBuffer /\ buffer[this] = "open" /\ buffer'[this] = "closed")
  BY <1>2, CallTyped, ClosedTyped DEF CloseBuffer
<1>4. FrameInv(this)'
  BY <1>1, <1>3
<1>5. pending \subseteq pending' /\ pending' \subseteq pending \cup (Kinds \X {this})
  OBVIOUS
<1>6. QED
  BY <1>1, <1>3, <1>4, <1>5, TaskStep, CallTyped

\* The face worker fails.
LEMMA FaceFailsStep ==
  ASSUME StreamInv, FaceFails
  PROVE  StreamInv'
<1>1. proc.pc = "inferring" /\ proc.pc # "none" /\ proc.pc # "ended"
  BY DEF FaceFails
<1>2. /\ this \in Frames /\ FrameInv(this) /\ ProcInv(this) /\ ~Left(this)
      /\ \A k \in Kinds : <<k, this>> \notin pending
  BY <1>1, TaskFrame
<1> DEFINE S == EyeIfOut \cup AdapterIfDeferred(call["face"][this])
<1>3. S \in SUBSET Kinds /\ pending' = pending \cup (S \X {this})
  BY DEF FaceFails, Defer, EyeIfOut, AdapterIfDeferred, Kinds
<1>4. PICK o \in {"error", "drop"} : End(o)
  BY DEF FaceFails
<1>5. call["face"][this] \in {"raised", "timeout", "deferred"}
      /\ UNCHANGED <<connection, call, toClose, shutdown, answer>>
  BY DEF FaceFails
<1>6. IF call["face"][this] = "deferred" THEN UNCHANGED buffer ELSE CloseBuffer /\ buffer[this] = "open"
  BY <1>1, <1>2 DEF FaceFails, ProcInv, OpenToReaders
<1>7. ASSUME proc'.frame = this, proc'.pc = "ended",
             buffer'[this] = buffer[this]
               \/ (CloseBuffer /\ buffer[this] = "open" /\ buffer'[this] = "closed")
      PROVE  FrameInv(this)'
  <2>1. IF call["face"][this] = "deferred" THEN buffer'[this] = buffer[this] ELSE buffer'[this] = "closed"
    <3>1. CASE call["face"][this] = "deferred"
      BY <1>6, <3>1
    <3>2. CASE call["face"][this] # "deferred"
      BY <1>2, <1>6, <3>2, ClosedTyped DEF CloseBuffer
    <3>3. QED
      BY <3>1, <3>2
  <2>2. /\ call["eye"][this] = "running" => <<"eye", this>> \in pending'
        /\ call["face"][this] = "deferred" => <<"adapter", this>> \in pending'
        /\ <<"adapter", this>> \in pending' => call["face"][this] = "deferred"
        /\ <<"face", this>> \notin pending' /\ <<"decode", this>> \notin pending'
    BY <1>2, <1>3 DEF EyeIfOut, AdapterIfDeferred, Kinds
  <2>3. QED
    BY <1>1, <1>2, <1>5, <1>7, <2>1, <2>2 DEF FrameInv, FaceInv, DecodeInv, LeftInv, PendingInv, ProcInv,
                          Untouched, Left, OpenToReaders, Kinds, this
<1>8. QED
  <2> HIDE DEF S
  <2>1. UNCHANGED buffer \/ (CloseBuffer /\ buffer[this] = "open")
    BY <1>6
  <2>2. o \in {"sample", "empty", "drop", "error"}
    OBVIOUS
  <2>3. QED
    BY <1>1, <1>3, <1>4, <1>5, <1>7, <2>1, <2>2, TaskEnds

\* The face worker answers of another frame: the Eye request is let go.
LEMMA FaceMismatchStep ==
  ASSUME StreamInv, FaceMismatch
  PROVE  StreamInv'
<1>1. proc.pc = "inferring" /\ proc.pc # "none" /\ proc.pc # "ended"
  BY DEF FaceMismatch
<1>2. /\ this \in Frames /\ FrameInv(this) /\ ProcInv(this) /\ ~Left(this)
      /\ \A k \in Kinds : <<k, this>> \notin pending
  BY <1>1, TaskFrame
<1>3. call["face"][this] \in {"done", "timeout", "deferred"}
      /\ UNCHANGED <<connection, toClose, shutdown, answer>>
      /\ pending' = pending \cup (AdapterIfDeferred(call["face"][this]) \X {this})
  BY DEF FaceMismatch, Defer
<1>4. proc' \in Task(received) /\ proc'.frame = this /\ proc'.pc = "ended"
  <2>1. End("error")
    BY DEF FaceMismatch
  <2>2. QED
    BY <1>1, <2>1, EndTyped
<1>5. /\ call' \in [Kinds -> [Frames -> CallState]]
      /\ \A k \in Kinds, g \in Frames : g # this => call'[k][g] = call[k][g]
      /\ \A k \in Kinds \ {"eye"} : call'[k][this] = call[k][this]
      /\ call'["eye"][this] = IF call["eye"][this] = "running" THEN "untracked" ELSE call["eye"][this]
  <2>1. call' = IF call["eye"][this] = "running" THEN [call EXCEPT !["eye"][this] = "untracked"] ELSE call
    BY DEF FaceMismatch, EyeIfOut
  <2>2. QED
    BY <1>2, <2>1, CallTyped DEF CallState
<1>6. /\ buffer' \in [Frames -> BufferState] /\ \A g \in Frames : g # this => buffer'[g] = buffer[g]
      /\ buffer'[this] = IF call["face"][this] = "deferred" THEN buffer[this] ELSE "closed"
  <2>1. CASE call["face"][this] = "deferred"
    BY <1>2, <2>1, CallTyped DEF FaceMismatch
  <2>2. CASE call["face"][this] # "deferred"
    <3>1. CloseBuffer /\ buffer[this] = "open"
      BY <1>1, <1>2, <2>2 DEF FaceMismatch, ProcInv, OpenToReaders
    <3>2. QED
      BY <1>2, <2>2, <3>1, ClosedTyped DEF CloseBuffer
  <2>3. QED
    BY <2>1, <2>2
<1>7. FrameInv(this)'
  <2>1. /\ call["face"][this] = "deferred" => <<"adapter", this>> \in pending'
        /\ <<"adapter", this>> \in pending' => call["face"][this] = "deferred"
        /\ \A k \in Kinds \ {"adapter"} : <<k, this>> \notin pending'
    BY <1>2, <1>3 DEF AdapterIfDeferred, Kinds
  <2>2. QED
    BY <1>1, <1>2, <1>3, <1>4, <1>5, <1>6, <2>1 DEF FrameInv, FaceInv, DecodeInv, LeftInv, PendingInv,
                          ProcInv, Untouched, Left, OpenToReaders, Kinds, this
<1>8. /\ pending \subseteq pending' /\ pending' \subseteq pending \cup (Kinds \X {this})
      /\ call'["adapter"][this] = call["adapter"][this]
  BY <1>3, <1>5 DEF AdapterIfDeferred, Kinds
<1>9. QED
  BY <1>1, <1>3, <1>4, <1>5, <1>6, <1>7, <1>8, TaskStep

\* The face worker takes too long: its thread may still read the picture.
LEMMA FaceTimeoutStep ==
  ASSUME StreamInv, FaceTimeout
  PROVE  StreamInv'
<1>1. proc.pc = "inferring" /\ proc.pc # "none" /\ proc.pc # "ended"
  BY DEF FaceTimeout
<1>2. /\ this \in Frames /\ FrameInv(this) /\ ProcInv(this) /\ ~Left(this)
      /\ \A k \in Kinds : <<k, this>> \notin pending
  BY <1>1, TaskFrame
<1> DEFINE S == {"face"} \cup EyeIfOut
<1>3. S \in SUBSET Kinds /\ pending' = pending \cup (S \X {this})
  BY DEF FaceTimeout, Defer, EyeIfOut, Kinds
<1>4. End("drop") /\ UNCHANGED <<connection, call, buffer, toClose, shutdown, answer>>
  BY DEF FaceTimeout
<1>5. ASSUME proc'.frame = this, proc'.pc = "ended",
             buffer'[this] = buffer[this]
               \/ (CloseBuffer /\ buffer[this] = "open" /\ buffer'[this] = "closed")
      PROVE  FrameInv(this)'
  <2>1. /\ call["eye"][this] = "running" => <<"eye", this>> \in pending'
        /\ <<"face", this>> \in pending'
        /\ <<"adapter", this>> \notin pending' /\ <<"decode", this>> \notin pending'
    BY <1>2, <1>3 DEF EyeIfOut, Kinds
  <2>2. QED
    BY <1>1, <1>2, <1>4, <1>5, <2>1 DEF FrameInv, FaceInv, DecodeInv, LeftInv, PendingInv, ProcInv,
                          Untouched, Left, OpenToReaders, Kinds, this
<1>6. QED
  <2> HIDE DEF S
  <2>1. QED
    BY <1>1, <1>3, <1>4, <1>5, TaskEnds

\* The Eye answer ends the task, or its deadline does.
LEMMA EyeEndsStep ==
  ASSUME StreamInv, Fused \/ Gazed \/ Captured
  PROVE  StreamInv'
<1>1. proc.pc \in {"fusing", "gazing", "capturing"} /\ proc.pc # "none" /\ proc.pc # "ended"
  BY DEF Fused, Gazed, Captured
<1>2. /\ this \in Frames /\ FrameInv(this) /\ ProcInv(this) /\ ~Left(this)
      /\ \A k \in Kinds : <<k, this>> \notin pending
  BY <1>1, TaskFrame
<1>3. PICK o \in {"sample", "empty", "drop"} : End(o)
  BY DEF Fused, Gazed, Captured
<1>4. UNCHANGED <<connection, call, toClose, shutdown, answer>>
  BY DEF Fused, Gazed, Captured
<1>5. PICK S \in {{}, {"eye"}} :
        /\ pending' = pending \cup (S \X {this})
        /\ S = {} => call["eye"][this] = "done"
  <2>1. CASE call["eye"][this] = "done" /\ UNCHANGED pending
    <3>1. pending' = pending \cup ({} \X {this})
      BY <2>1
    <3>2. QED
      BY <2>1, <3>1
  <2>2. CASE Defer({"eye"})
    BY <2>2 DEF Defer
  <2>3. QED
    BY <2>1, <2>2 DEF Fused, Gazed, Captured
<1>6. S \in SUBSET Kinds
  BY DEF Kinds
<1>7. IF proc.pc = "fusing" THEN CloseBuffer /\ buffer[this] = "open" ELSE UNCHANGED buffer
  BY <1>2 DEF Fused, Gazed, Captured, ProcInv
<1>8. ASSUME proc'.frame = this, proc'.pc = "ended",
             buffer'[this] = buffer[this]
               \/ (CloseBuffer /\ buffer[this] = "open" /\ buffer'[this] = "closed")
      PROVE  FrameInv(this)'
  <2>1. IF proc.pc = "fusing" THEN buffer'[this] = "closed" ELSE buffer'[this] = buffer[this]
    BY <1>2, <1>7, ClosedTyped DEF CloseBuffer
  <2>2. /\ call["eye"][this] = "running" => <<"eye", this>> \in pending'
        /\ \A k \in {"decode", "face", "adapter"} : <<k, this>> \notin pending'
    <3>1. CASE S = {}
      BY <1>2, <1>5, <3>1 DEF Kinds
    <3>2. CASE S = {"eye"}
      BY <1>2, <1>5, <3>2 DEF Kinds
    <3>3. QED
      BY <1>5, <3>1, <3>2
  <2>3. QED
    BY <1>1, <1>2, <1>4, <1>8, <2>1, <2>2 DEF FrameInv, FaceInv, DecodeInv, LeftInv, PendingInv, ProcInv,
                          Untouched, Left, OpenToReaders, Kinds, this
<1>9. QED
  <2>1. UNCHANGED buffer \/ (CloseBuffer /\ buffer[this] = "open")
    BY <1>7
  <2>2. o \in {"sample", "empty", "drop", "error"}
    OBVIOUS
  <2>3. pending' = pending \cup (S \X {this})
    BY <1>5
  <2>4. QED
    BY <1>1, <1>3, <1>4, <1>6, <1>8, <2>1, <2>2, <2>3, TaskEnds, Zenon

-----------------------------------------------------------------------------
(* The task comes and goes.                                                 *)

\* A frame is taken in when nothing of an earlier one goes on.
LEMMA AcceptStep ==
  ASSUME StreamInv, AcceptFrame
  PROVE  StreamInv'
<1> DEFINE f == received + 1
<1>1. f \in Frames /\ received' = f /\ handler = "receiving" /\ received \in 0..MaxFrames
  BY StreamAssumption DEF AcceptFrame, Arrives, StreamInv, TypeOK, Frames
<1>2. proc = NoTask /\ pending = {} /\ UNCHANGED <<frame, shutdown, answer>>
  BY DEF AcceptFrame, Busy
<1>3. PICK pc \in {"frame", "gazeFrame", "calibrationFrame"} :
        proc' = [NoTask EXCEPT !.frame = f, !.pc = pc]
  BY <1>1 DEF AcceptFrame
<1>4. proc'.pc = pc /\ proc'.frame = f /\ proc'.outcome = "none" /\ proc' \in Task(f)
  <2>1. f \in 0..f
    BY <1>1, StreamAssumption
  <2>2. proc' = [pc |-> pc, frame |-> f, outcome |-> "none"]
    BY <1>3 DEF NoTask
  <2>3. QED
    BY <2>1, <2>2 DEF Task
<1>5. Untouched(f) /\ FrameInv(f)
  BY <1>1 DEF StreamInv, TaskInv, Frames
<1> HIDE DEF f
<1>6. TypeOK'
  <2>1. 1..received \subseteq 1..f
    BY <1>1 DEF f
  <2>2. pending' \subseteq Kinds \X (1..f) /\ awaited' \subseteq Kinds \X (1..f)
    BY <1>2, <2>1 DEF StreamInv, TypeOK, frame, shutdown
  <2>3. /\ UNCHANGED <<handler, inference, calibrating, calibration, closing, answer, worker, call, buffer, toClose>>
        /\ received' \in 0..MaxFrames /\ proc' \in Task(received')
    BY <1>1, <1>2, <1>4 DEF AcceptFrame, frame, shutdown, Frames
  <2>4. QED
    BY <1>1, <2>2, <2>3 DEF StreamInv, TypeOK, Task
<1>7. TaskInv'
  <2>1. ASSUME NEW g \in Frames, g > received' PROVE Untouched(g)'
    <3>1. Untouched(g)
      BY <1>1, <2>1 DEF StreamInv, TaskInv, Frames, f
    <3>2. QED
      BY <1>2, <3>1 DEF Untouched, frame
  <2>2. handler' # "hello"
    BY <1>1 DEF AcceptFrame
  <2>3. QED
    BY <1>1, <1>4, <2>1, <2>2 DEF TaskInv, NoFrame, Frames
<1>8. OneOwner' /\ WorkerInv'
  BY <1>2 DEF StreamInv, OneOwner, WorkerInv, DisposedAfterUse, Reading, frame, shutdown
<1>9. ASSUME NEW g \in Frames PROVE FrameInv(g)'
  <2>1. CASE g = f
    BY <1>2, <1>4, <1>5, <2>1 DEF frame, FrameInv, FaceInv, DecodeInv, LeftInv, PendingInv, ProcInv,
                          Untouched, Left, OpenToReaders, Kinds
  <2>2. CASE g # f
    <3>1. proc' = proc \/ (proc.frame # g /\ proc'.frame # g)
      BY <1>2, <1>4, <2>2 DEF NoTask, NoFrame, Frames
    <3>2. /\ \A k \in Kinds : call'[k][g] = call[k][g] /\ (<<k, g>> \in pending' <=> <<k, g>> \in pending)
          /\ buffer'[g] = buffer[g] /\ (g \in toClose' <=> g \in toClose)
      BY <1>2 DEF frame
    <3>3. QED
      BY <3>1, <3>2, Elsewhere DEF StreamInv
  <2>3. QED
    BY <2>1, <2>2
<1>10. QED
  BY <1>6, <1>7, <1>8, <1>9 DEF StreamInv

\* The task ended: what it left behind is the callbacks'.
LEMMA TaskGone ==
  ASSUME StreamInv, proc.pc \in {"none", "ended"}, proc' = NoTask, UNCHANGED <<frame, received, worker>>,
         handler' # "hello", TypeOK'
  PROVE  StreamInv'
<1>1. TaskInv' /\ OneOwner' /\ WorkerInv'
  BY DEF StreamInv, TaskInv, OneOwner, WorkerInv, DisposedAfterUse, Reading, Untouched, NoTask, NoFrame, frame
<1>2. ASSUME NEW f \in Frames PROVE FrameInv(f)'
  <2>1. FrameInv(f) /\ Left(f) /\ f # NoFrame
    BY DEF StreamInv, TaskInv, Left, NoTask, NoFrame, Frames
  <2>2. proc'.frame # f /\ Left(f)'
    BY <2>1 DEF NoTask, Left
  <2>3. UNCHANGED <<call, pending, buffer, toClose>>
    BY DEF frame
  <2>4. FaceInv(f)' /\ DecodeInv(f)' /\ LeftInv(f)' /\ PendingInv(f)'
    BY <2>1, <2>2, <2>3 DEF FrameInv, FaceInv, DecodeInv, LeftInv, PendingInv, OpenToReaders
  <2>5. QED
    BY <2>2, <2>4 DEF FrameInv
<1>3. QED
  BY <1>1, <1>2 DEF StreamInv

\* The frame is over, and the next may come.
LEMMA FrameEndsStep ==
  ASSUME StreamInv, FrameEnds \/ JoinTasks
  PROVE  StreamInv'
<1>1. /\ proc.pc \in {"none", "ended"} /\ proc' = NoTask /\ UNCHANGED <<frame, received, worker>>
      /\ handler' # "hello"
  BY DEF FrameEnds, JoinTasks, shutdown
<1>2. TypeOK'
  <2>1. answer' \in [Frames -> {"none", "sample", "empty", "drop", "error"}]
    BY CallTyped DEF FrameEnds, JoinTasks, StreamInv, TypeOK, Task
  <2>2. awaited' \subseteq Kinds \X (1..received)
    BY DEF FrameEnds, JoinTasks, StreamInv, TypeOK, shutdown
  <2>3. proc' \in Task(received')
    BY <1>1 DEF NoTask, NoFrame, Task, StreamInv, TypeOK
  <2>4. /\ handler' \in {"receiving", "leaving", "cleaning", "gone"}
        /\ handler' = "receiving" => handler = "receiving" /\ calibration' = calibration
        /\ UNCHANGED <<inference, closing, calibrating>>
        /\ calibration' \in {"none", calibration}
    BY DEF FrameEnds, JoinTasks
  <2>5. QED
    BY <1>1, <2>1, <2>2, <2>3, <2>4 DEF StreamInv, TypeOK, Task, frame
<1>3. QED
  BY <1>1, <1>2, TaskGone

-----------------------------------------------------------------------------
(* The worker's end.                                                        *)

\* The steps that give the worker back.
LEMMA ShutdownSteps ==
  ASSUME StreamInv, ShutdownStep
  PROVE  StreamInv'
<1>1. CASE CloseWorker
  <2>1. /\ call' \in [Kinds -> [Frames -> CallState]]
        /\ \A f \in Frames : \A k \in Kinds :
             call'[k][f] = IF k = "adapter" /\ call[k][f] = "queued" THEN "cancelled" ELSE call[k][f]
    BY <1>1, CallTyped DEF CloseWorker, CallState, Kinds
  <2>2. UNCHANGED <<connection, proc, pending, buffer, toClose, awaited, answer>> /\ worker' = "closing"
    BY <1>1 DEF CloseWorker
  <2>3. TypeOK'
    BY <2>1, <2>2 DEF StreamInv, TypeOK, CallState, connection
  <2>4. OneOwner'
    BY <2>2 DEF StreamInv, OneOwner
  <2>5. TaskInv'
    <3>1. \A f \in Frames : Untouched(f) => Untouched(f)'
      BY <2>1, <2>2 DEF Untouched
    <3>2. handler # "hello"
      BY <1>1 DEF CloseWorker
    <3>3. QED
      BY <2>2, <3>1, <3>2 DEF StreamInv, TaskInv, connection
  <2>6. WorkerInv'
    BY <2>1, <2>2 DEF WorkerInv, DisposedAfterUse, Kinds
  <2>7. ASSUME NEW f \in Frames PROVE FrameInv(f)'
    <3>1. FrameInv(f)
      BY DEF StreamInv
    <3>2. /\ \A k \in {"decode", "face", "eye"} : call'[k][f] = call[k][f]
          /\ call'["adapter"][f] = IF call["adapter"][f] = "queued" THEN "cancelled" ELSE call["adapter"][f]
      BY <2>1 DEF Kinds
    <3>3. FaceInv(f)' /\ DecodeInv(f)'
      BY <2>2, <3>1, <3>2 DEF FrameInv, FaceInv, DecodeInv
    <3>4. LeftInv(f)' /\ PendingInv(f)'
      BY <2>2, <3>1, <3>2 DEF FrameInv, LeftInv, PendingInv, OpenToReaders, Left
    <3>5. proc'.frame = f => ProcInv(f)'
      BY <2>2, <3>1, <3>2 DEF FrameInv, ProcInv, Untouched, OpenToReaders, Kinds
    <3>6. QED
      BY <3>3, <3>4, <3>5 DEF FrameInv
  <2>8. QED
    BY <2>3, <2>4, <2>5, <2>6, <2>7 DEF StreamInv
<1>2. CASE DisposeAdapter
  <2>1. TypeOK'
    BY <1>2 DEF DisposeAdapter, StreamInv, TypeOK, connection, frame
  <2>2. TaskInv' /\ WorkerInv'
    BY <1>2 DEF DisposeAdapter, StreamInv, TaskInv, WorkerInv, DisposedAfterUse, Reading, Untouched,
                connection, frame
  <2>3. QED
    BY <1>2, <2>1, <2>2, HandlerKeeps DEF DisposeAdapter
<1>3. QED
  BY <1>1, <1>2 DEF ShutdownStep

-----------------------------------------------------------------------------
(* Every step preserves the invariant.                                      *)

\* Every step keeps the invariant.
LEMMA StreamStep == StreamInv /\ [Next]_vars => StreamInv'
<1> SUFFICES ASSUME StreamInv, [Next]_vars PROVE StreamInv'
  OBVIOUS
<1>1. CASE Client
  BY <1>1, HandlerSteps, AcceptStep DEF Client
<1>2. CASE HandlerStep
  BY <1>2, HandlerSteps, FrameEndsStep DEF HandlerStep
<1>3. CASE ProcessStep
  BY <1>3, BeginStep, DecodedStep, FaceSampleStep, FaceFailsStep, FaceMismatchStep,
     FaceTimeoutStep, EyeEndsStep DEF ProcessStep
<1>4. CASE ShutdownStep
  BY <1>4, ShutdownSteps
<1>5. CASE CalibrationAnswers
  BY <1>5, HandlerSteps
<1>6. ASSUME NEW f \in Frames, Callback(f) PROVE StreamInv'
  BY <1>6, CallbackStep
<1>7. ASSUME NEW f \in Frames, ThreadStep(f) PROVE StreamInv'
  BY <1>7, DecodeStep, FaceSubmitStep, AdapterStep, FaceStep DEF ThreadStep
<1>8. ASSUME NEW f \in Frames, FaceDeadline(f) \/ EyeAnswers(f) PROVE StreamInv'
  BY <1>8, FaceStep, EyeStep
<1>9. CASE UNCHANGED vars
  <2>1. TypeOK' /\ TaskInv' /\ WorkerInv'
    BY <1>9 DEF vars, connection, frame, shutdown, StreamInv, TypeOK, TaskInv, WorkerInv,
                DisposedAfterUse, Reading, Untouched
  <2>2. QED
    BY <1>9, <2>1, HandlerKeeps DEF vars
<1>10. QED
  BY <1>1, <1>2, <1>3, <1>4, <1>5, <1>6, <1>7, <1>8, <1>9 DEF Next

\* One frame of a connection is at work, whatever was given up on, but for an
\* Eye request left untracked by a face result of another context; a frame is
\* closed once and after its last reader, and the adapter is disposed of
\* unused: for any number of frames, deadlines, failures and disconnects
\* (_process_frame, defer_cleanup, _finish_worker_frame, FaceWorker.close).
THEOREM FrameIsInUse == Spec => []FrameInUse
<1>1. Spec => []StreamInv
  BY InitStream, StreamStep, PTL DEF Spec
<1>2. QED
  BY <1>1, StreamInvSafe, PTL
=============================================================================
