----------------------------- MODULE FrameSource -----------------------------
(***************************************************************************)
(* FrameSource (apps/kiosk/src/camera/FrameSource.ts): the owner of the      *)
(* camera stream and of the frames captured from it.  A step is what runs    *)
(* between two awaits.  A stream, with the video element that plays it, is   *)
(* named by the open that asked for it, and a frame by its capture.          *)
(*                                                                         *)
(* An operation whose signal is aborted and one of an earlier                *)
(* lifecycleGeneration are the same here: stop raises the generation and     *)
(* aborts the only operations that can be of the current one.                *)
(***************************************************************************)
EXTENDS Integers, FiniteSets

CONSTANTS
  Opens,     \* bound: calls of open that ask for a stream
  Captures,  \* bound: calls of capture that start
  None

ASSUME FrameSourceAssumption == None \notin Opens \cup Captures

VARIABLES
  camera,     \* stream and video: whose open they come from, or None
  openTask,
  opens,      \* the open operations
  tracks,     \* external: the streams whose tracks run
  capturing,  \* captureOperation
  captures,   \* the capture operations
  frames      \* the frames not closed yet

cameraVars == <<camera, openTask, opens, tracks>>
captureVars == <<capturing, captures, frames>>
sourceVars == <<cameraVars, captureVars>>

SourceInit ==
  /\ camera = None /\ openTask = None /\ tracks = {}
  /\ opens = [o \in Opens |-> [pc |-> "none", cancelled |-> FALSE]]
  /\ capturing = None /\ frames = {}
  /\ captures = [c \in Captures |-> [pc |-> "none", cancelled |-> FALSE, stream |-> None]]

Unless(v, x) == IF v = x THEN None ELSE v

\* open() while the camera is open or being opened asks for nothing.
OpenBegins(o) ==
  /\ opens[o].pc = "none" /\ camera = None /\ openTask = None
  /\ opens' = [opens EXCEPT ![o].pc = "asking"]
  /\ openTask' = o
  /\ UNCHANGED <<camera, tracks, captureVars>>

\* The promise of open is rejected and the resources of the operation go.
OpenRejects(o) ==
  /\ opens' = [opens EXCEPT ![o] = [pc |-> IF opens[o].cancelled THEN "cancelled" ELSE "failed",
                                    cancelled |-> FALSE]]
  /\ openTask' = Unless(openTask, o)
  /\ tracks' = tracks \ {o}
  /\ UNCHANGED <<camera, captureVars>>

\* Mutant: the late stream is taken without looking at the signal.
AdoptLateStream(o) ==
  /\ opens[o].pc = "asking"
  /\ opens' = [opens EXCEPT ![o].pc = "starting"] /\ tracks' = tracks \cup {o}
  /\ UNCHANGED <<camera, openTask, captureVars>>

\* getUserMedia answers.  A stream for a cancelled open is stopped at once.
StreamArrives(o) ==
  /\ opens[o].pc = "asking"
  /\ IF opens[o].cancelled
     THEN OpenRejects(o)
     ELSE /\ opens' = [opens EXCEPT ![o].pc = "starting"] /\ tracks' = tracks \cup {o}
          /\ UNCHANGED <<camera, openTask, captureVars>>

\* No permission, no device, no video track; or the video does not play or
\* has no data in time.
StreamFails(o) ==
  /\ opens[o].pc \in {"asking", "starting"}
  /\ OpenRejects(o)

\* The video has data: the stream is handed over to the source.
VideoReady(o) ==
  /\ opens[o].pc = "starting"
  /\ opens' = [opens EXCEPT ![o].pc = "open"]
  /\ camera' = o /\ openTask' = Unless(openTask, o)
  /\ UNCHANGED <<tracks, captureVars>>

\* Mutant: a stop forgets the capture in progress.
KeepCapture == UNCHANGED captureVars

AbortCapture ==
  /\ capturing' = None
  /\ captures' = [c \in Captures |-> [captures[c] EXCEPT !.cancelled = @ \/ c = capturing]]
  /\ frames' = frames \ {capturing}

\* stop().  The wait for video data ends with the signal; getUserMedia does not.
Stop ==
  /\ camera' = None /\ openTask' = None /\ tracks' = tracks \ {camera, openTask}
  /\ opens' = [o \in Opens |->
                 IF o # openTask THEN opens[o]
                 ELSE [pc |-> IF opens[o].pc = "starting" THEN "cancelled" ELSE opens[o].pc,
                       cancelled |-> opens[o].pc = "asking"]]
  /\ AbortCapture

-----------------------------------------------------------------------------
(* capture().  A second one is dropped, and one without a camera is refused. *)

CaptureBegins(c) ==
  /\ captures[c].pc = "none" /\ capturing = None /\ camera # None
  /\ capturing' = c
  /\ captures' = [captures EXCEPT ![c].pc = "creating", ![c].stream = camera]
  /\ UNCHANGED <<cameraVars, frames>>

\* The finally block: the frame is closed, whatever happened.
CaptureReturns(c, how) ==
  /\ captures' = [captures EXCEPT ![c] = [pc |-> IF captures[c].cancelled THEN "cancelled" ELSE how,
                                          cancelled |-> FALSE, stream |-> None]]
  /\ frames' = frames \ {c}
  /\ capturing' = Unless(capturing, c)
  /\ UNCHANGED cameraVars

\* Mutant: the frame of a cancelled capture is handed on.
FrameMadeAnyway(c) ==
  /\ captures[c].pc = "creating"
  /\ captures' = [captures EXCEPT ![c].pc = "consuming"] /\ frames' = frames \cup {c}
  /\ UNCHANGED <<capturing, cameraVars>>

FrameMade(c) ==
  /\ captures[c].pc = "creating"
  /\ IF captures[c].cancelled
     THEN CaptureReturns(c, "cancelled")
     ELSE /\ captures' = [captures EXCEPT ![c].pc = "consuming"] /\ frames' = frames \cup {c}
          /\ UNCHANGED <<capturing, cameraVars>>

CaptureFails(c) ==
  /\ captures[c].pc \in {"creating", "consuming"}
  /\ CaptureReturns(c, "failed")

FrameConsumed(c) ==
  /\ captures[c].pc = "consuming"
  /\ CaptureReturns(c, "delivered")

CaptureStep(c) == FrameMade(c) \/ CaptureFails(c) \/ FrameConsumed(c)

OpenStep(o) == StreamArrives(o) \/ StreamFails(o) \/ VideoReady(o)

\* Any caller, in any order.
SourceNext ==
  \/ \E o \in Opens : OpenBegins(o) \/ OpenStep(o)
  \/ \E c \in Captures : CaptureBegins(c) \/ CaptureStep(c)
  \/ Stop

-----------------------------------------------------------------------------
SourceTypeOK ==
  /\ camera \in Opens \cup {None} /\ openTask \in Opens \cup {None} /\ tracks \subseteq Opens
  /\ opens \in [Opens -> [pc : {"none", "asking", "starting", "open", "cancelled", "failed"},
                          cancelled : BOOLEAN]]
  /\ capturing \in Captures \cup {None} /\ frames \subseteq Captures
  /\ captures \in [Captures -> [pc : {"none", "creating", "consuming", "delivered", "cancelled", "failed"},
                                cancelled : BOOLEAN, stream : Opens \cup {None}]]

\* A stream that runs is the camera's or that of the open in progress, and
\* there is one at most: what getUserMedia brings after a stop is not left on.
StreamsOwned == tracks \subseteq {camera, openTask} /\ Cardinality(tracks) <= 1

\* A frame that is not closed is that of the capture in progress: one whose
\* capture was cancelled while it was made, or used, is closed all the same.
FramesOwned == frames \subseteq {capturing}

\* The capture in progress takes its frame from the camera that is open, also
\* when the camera was closed and opened while earlier captures were waiting.
CaptureOfCamera == capturing # None => camera # None /\ captures[capturing].stream = camera
=============================================================================
