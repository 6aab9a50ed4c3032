---------------------------- MODULE VisionClient ----------------------------
(***************************************************************************)
(* The kiosk's client of the vision gateway                                 *)
(* (apps/kiosk/src/clients/vision/LocalVisionStreamClient.ts), its caller   *)
(* (App.tsx) and, external, the connection and the gateway behind it.       *)
(*                                                                         *)
(* A step is one task of the browser (a call of the client, the end of an   *)
(* encoding, an event of the socket, a timer) or the continuation of a call *)
(* whose promise is settled; continuations come before the next task.       *)
(* The n-th session has the n-th socket: sessionContext is null exactly     *)
(* when `socket` is.  What a message may hold is abstract; the gateway      *)
(* behind the connection keeps its protocol, but may refuse, fail, answer   *)
(* late or never, and the connection may be lost at any moment.             *)
(***************************************************************************)
EXTENDS Naturals, Sequences

CONSTANTS
  MaxSessions,  \* bound: sessions the kiosk starts
  MaxFrames     \* bound: frames it sends

Sessions == 1..MaxSessions
Frames == 1..MaxFrames
Actions == {"start_calibration", "start_inference", "stop_session"}

VARIABLES
  start,     \* each session's startSession: where it is
  aborted,   \* sessions whose start is given up by its signal
  control,   \* the control requests of the session
  frame,     \* each frame's sendFrame: where it is
  of,        \* the session in a frame's context
  left,      \* frames whose signal is aborted
  socket,    \* this.socket, the session it serves (0: null)
  net,       \* readyState of each session's socket
  ready,     \* this.ready is set
  active,    \* frameCaptureActive
  profile,   \* calibrationProfile is set
  pending,   \* pendingFrame (0: null)
  link,      \* the connection and the gateway's side of it
  heard,     \* history: samples and progress the listeners were told
  fault      \* history: a message was found invalid

calls == <<start, aborted, control, frame, of, left>>
state == <<socket, net, ready, active, profile, pending>>
clientVars == <<calls, state, link, heard, fault>>

NoLink == [up |-> <<>>, down |-> <<>>, frame |-> 0, calibrating |-> FALSE,
           inference |-> FALSE, stopping |-> FALSE]

ClientInit ==
  /\ start = [s \in Sessions |-> "none"] /\ aborted = {}
  /\ control = [c \in Actions |-> "none"]
  /\ frame = [f \in Frames |-> "none"] /\ of = [f \in Frames |-> 0] /\ left = {}
  /\ socket = 0 /\ net = [s \in Sessions |-> "none"]
  /\ ready = FALSE /\ active = FALSE /\ profile = FALSE /\ pending = 0
  /\ link = NoLink /\ heard = {} /\ fault = FALSE

Starting == {"token", "opening", "handshake"}
Verdicts == {"valid", "invalid"}

\* Every promise that is settled has been followed by its continuation.
CaughtUp ==
  /\ \A s \in Sessions : start[s] \notin {"opened", "readied", "rejected"}
  /\ \A c \in Actions : control[c] \notin Verdicts \cup {"failed"}
  /\ \A f \in Frames : frame[f] # "settled"

Open == socket # 0 /\ net[socket] = "open"
SendMessage(message) == link' = [link EXCEPT !.up = Append(@, message)]

-----------------------------------------------------------------------------
(* The end of a session on the client's side.                               *)

\* Mutant: rejectWaiters forgets the pending frame.
FrameForgotten(fr) == fr

\* The pending frame is refused: its caller is told when it looks.
FrameRejected(fr) ==
  IF pending = 0 THEN fr
  ELSE [fr EXCEPT ![pending] = CASE @ = "encoding" -> "rejected"
                                 [] @ = "waiting" -> "settled"
                                 [] @ = "abandoned" -> "ended"
                                 [] OTHER -> @]

\* rejectWaiters
RejectWaiters(st, co, fr) ==
  /\ start' = [s \in Sessions |->
                 IF st[s] \in {"opening", "handshake"} THEN "rejected" ELSE st[s]]
  /\ control' = [c \in Actions |-> IF co[c] = "waiting" THEN "failed" ELSE co[c]]
  /\ frame' = FrameRejected(fr)

\* Mutant: a socket that is still connecting is not closed.
ClosedIfOpen == IF Open THEN [net EXCEPT ![socket] = "closed"] ELSE net

Closed == IF socket = 0 THEN net ELSE [net EXCEPT ![socket] = "closed"]

\* closeSocket, and failTransport, which differ in the error they hand on.
Teardown(st, co, fr) ==
  /\ RejectWaiters(st, co, fr)
  /\ net' = Closed
  /\ socket' = 0 /\ pending' = 0 /\ link' = NoLink
  /\ ready' = FALSE /\ active' = FALSE /\ profile' = FALSE

FailTransport == Teardown(start, control, frame)

-----------------------------------------------------------------------------
(* startSession                                                             *)

\* frameSource.stop has aborted the signals of the frames that are left.
CameraStopped == \A f \in Frames : frame[f] \in {"none", "ended"} \/ f \in left

\* The kiosk starts a session when the camera and the last session are stopped.
StartSession(s) ==
  /\ CaughtUp /\ start[s] = "none" /\ socket = 0
  /\ \A t \in 1..(s - 1) : start[t] \in {"done", "failed"}
  /\ CameraStopped
  /\ start' = [start EXCEPT ![s] = "token"]
  /\ UNCHANGED <<aborted, control, frame, of, left, state, link, heard, fault>>

TokenArrives(s) ==
  /\ CaughtUp /\ start[s] = "token"
  /\ \/ /\ s \notin aborted
        /\ start' = [start EXCEPT ![s] = "opening"]
        /\ socket' = s /\ net' = [net EXCEPT ![s] = "connecting"]
        /\ control' = [c \in Actions |-> "none"]
     \/ start' = [start EXCEPT ![s] = "failed"] /\ UNCHANGED <<control, socket, net>>
  /\ UNCHANGED <<aborted, frame, of, left,
                 ready, active, profile, pending, link, heard, fault>>

\* The signal is aborted: by the kiosk's timer or because the flow is over.
AbortStart(s) ==
  /\ CaughtUp /\ start[s] \in Starting /\ s \notin aborted
  /\ aborted' = aborted \cup {s}
  /\ start' = [start EXCEPT ![s] = IF @ = "token" THEN "failed" ELSE "rejected"]
  /\ UNCHANGED <<control, frame, of, left, state, link, heard, fault>>

StartContinues(s) ==
  \/ /\ start[s] = "opened"
     /\ start' = [start EXCEPT ![s] = "handshake"]
     /\ SendMessage(<<"hello", s>>)
     /\ UNCHANGED <<aborted, control, frame, of, left, state, heard, fault>>
  \/ /\ start[s] = "readied"
     /\ start' = [start EXCEPT ![s] = "done"] /\ ready' = TRUE
     /\ UNCHANGED <<aborted, control, frame, of, left,
                    socket, net, active, profile, pending, link, heard, fault>>
  \/ /\ start[s] = "rejected"
     /\ Teardown([start EXCEPT ![s] = "failed"], control, frame)
     /\ UNCHANGED <<aborted, of, left, heard, fault>>

-----------------------------------------------------------------------------
(* Control requests: startCalibration, startInference and stopSession.      *)

\* sendControl; without an open socket and a handshake it throws.
SendControl(a) ==
  /\ control' = [control EXCEPT ![a] = "waiting"]
  /\ SendMessage(<<a, socket>>)

Idle(a) == Open /\ ready /\ control[a] = "none"

\* One calibration of a session, so its identity always fits; a client that is not ready only refuses it.
StartCalibration ==
  /\ CaughtUp /\ Idle("start_calibration")
  /\ SendControl("start_calibration")
  /\ active' = TRUE /\ profile' = TRUE
  /\ UNCHANGED <<start, aborted, frame, of, left, socket, net, ready, pending,
                 heard, fault>>

\* After a valid calibration (completeCalibration).
StartInference ==
  /\ CaughtUp /\ Idle("start_inference") /\ Idle("stop_session")
  /\ control["start_calibration"] = "done"
  /\ SendControl("start_inference")
  /\ UNCHANGED <<start, aborted, frame, of, left, state, heard, fault>>

\* frameSource.stop, then stopSession when the serial queue reaches it.
StopSession ==
  /\ CaughtUp /\ socket # 0 /\ start[socket] = "done" /\ CameraStopped
  /\ control["stop_session"] = "none"
  /\ control["start_inference"] # "waiting"
  /\ IF Open
       THEN SendControl("stop_session") /\ UNCHANGED <<start, frame, state>>
       ELSE FailTransport
  /\ UNCHANGED <<aborted, of, left, heard, fault>>

\* Mutant: an invalid calibration leaves the capture on.
CalibrationKeepsCapture(valid) == active

CaptureAfterCalibration(valid) == active /\ valid

\* Mutant: the profile is kept after the calibration.
KeepProfile == profile

CalibrationOver == FALSE

ControlContinues(c) ==
  /\ control[c] \in Verdicts \cup {"failed"}
  /\ LET valid == control[c] = "valid"
         over == [control EXCEPT ![c] = IF valid THEN "done" ELSE "refused"]
     IN IF c = "stop_session"
          THEN Teardown(start, over, frame)
          ELSE /\ control' = over
               /\ active' = (IF c = "start_calibration"
                               THEN CaptureAfterCalibration(valid)
                               ELSE active \/ valid)
               /\ profile' = (IF c = "start_calibration" THEN CalibrationOver ELSE profile)
               /\ UNCHANGED <<start, frame, socket, net, ready, pending, link>>
  /\ UNCHANGED <<aborted, of, left, heard, fault>>

\* The timer of sendControl.
ControlTimeout(c) ==
  /\ CaughtUp /\ control[c] = "waiting"
  /\ FailTransport
  /\ UNCHANGED <<aborted, of, left, heard, fault>>

-----------------------------------------------------------------------------
(* sendFrame                                                                *)

\* Mutant: a frame that nobody waits for any more does not count.
PendingWaited == pending # 0 /\ frame[pending] # "abandoned"

InFlight == pending # 0

\* The next frame; one that finds another pending is dropped as in_flight.
SendFrame(f) ==
  /\ CaughtUp /\ frame[f] = "none" /\ \A g \in 1..(f - 1) : frame[g] # "none"
  /\ socket # 0 /\ ready /\ active
  /\ control["stop_session"] = "none"
  /\ of' = [of EXCEPT ![f] = socket]
  /\ IF InFlight
       THEN frame' = [frame EXCEPT ![f] = "ended"] /\ UNCHANGED pending
       ELSE frame' = [frame EXCEPT ![f] = "encoding"] /\ pending' = f
  /\ UNCHANGED <<start, aborted, control, left, socket, net, ready, active, profile,
                 link, heard, fault>>

\* Mutant: the finally block looks at the frame's own promise only.
CleanUpAny(f) == pending' = 0

\* The finally block: only the caller's own frame is cleared.
CleanUp(f) == pending' = IF pending = f THEN 0 ELSE pending

\* The encoder fails, the frame is too large or the socket is not open.
EncodingFails(f) ==
  /\ frame' = [frame EXCEPT ![f] = "ended"]
  /\ CleanUp(f)
  /\ UNCHANGED link

\* Mutant: the signal is not looked at after the encoding.
NeverGivenUp(f) == FALSE

GivenUp(f) == f \in left

Encoded(f) ==
  /\ CaughtUp /\ frame[f] \in {"encoding", "rejected"}
  /\ \/ EncodingFails(f)
     \/ /\ ~GivenUp(f) /\ Open
        /\ SendMessage(<<"frame", f>>)
        /\ frame' = [frame EXCEPT ![f] = IF @ = "encoding" THEN "waiting" ELSE "ended"]
        /\ UNCHANGED pending
  /\ UNCHANGED <<start, aborted, control, of, left, socket, net, ready, active, profile,
                 heard, fault>>

\* Mutant: a frame nobody waits for is forgotten.
ForgetFrame(f) == pending' = IF pending = f THEN 0 ELSE pending

\* The gateway still owns the frame: it stays pending.
KeepFrame(f) == UNCHANGED pending

\* The signal of a frame: FrameSource.stop, or the end of a capture's time.
AbortFrame(f) ==
  /\ CaughtUp /\ frame[f] \in {"encoding", "rejected", "waiting"} /\ f \notin left
  /\ left' = left \cup {f}
  /\ IF frame[f] = "waiting"
       THEN frame' = [frame EXCEPT ![f] = "abandoned"] /\ KeepFrame(f)
       ELSE UNCHANGED <<frame, pending>>
  /\ UNCHANGED <<start, aborted, control, of, socket, net, ready, active, profile,
                 link, heard, fault>>

FrameContinues(f) ==
  /\ frame[f] = "settled"
  /\ frame' = [frame EXCEPT ![f] = "ended"]
  /\ CleanUp(f)
  /\ UNCHANGED <<start, aborted, control, of, left, socket, net, ready, active, profile,
                 link, heard, fault>>

-----------------------------------------------------------------------------
(* Events of the socket.                                                    *)

SocketOpens ==
  /\ CaughtUp /\ socket # 0 /\ net[socket] = "connecting"
  /\ net' = [net EXCEPT ![socket] = "open"]
  /\ start' = [start EXCEPT ![socket] = IF @ = "opening" THEN "opened" ELSE @]
  /\ UNCHANGED <<aborted, control, frame, of, left,
                 socket, ready, active, profile, pending, link, heard, fault>>

\* The connection goes; the error or close event comes later.
Drops ==
  /\ CaughtUp /\ socket # 0 /\ net[socket] \in {"connecting", "open"}
  /\ net' = [net EXCEPT ![socket] = "closed"]
  /\ UNCHANGED <<calls, socket, ready, active, profile, pending, link, heard, fault>>

CloseEvent ==
  /\ CaughtUp /\ socket # 0 /\ net[socket] = "closed"
  /\ FailTransport
  /\ UNCHANGED <<aborted, of, left, heard, fault>>

\* Mutant: the promise is left in a state no continuation knows.
Answered(f) == [frame EXCEPT ![f] = "answered"]

\* The frame's deferred is settled; an abandoned one has no continuation.
FrameSettled(f) == [frame EXCEPT ![f] = IF @ = "abandoned" THEN "ended" ELSE "settled"]

\* Mutant: the listeners are told about frames nobody waits for.
Anyone(f) == TRUE

Wanted(f) == frame[f] # "abandoned"

\* handleResult: the progress of a calibration, and the samples.
Told(f, progress) ==
  {h \in {"sample", "progress"} \X {f} :
     Wanted(f) /\ (h[1] = "progress" => progress /\ profile)}

\* A message somebody waits for; any other is an error of the protocol.
Expected(m) ==
  CASE m[1] = "ready" -> start[socket] = "handshake"
    [] m[1] \in Actions -> control[m[1]] = "waiting"
    [] OTHER -> pending # 0 /\ m[2] = pending

Received(m) ==
  /\ start' = [start EXCEPT ![socket] = IF m[1] = "ready" THEN "readied" ELSE @]
  /\ control' = [c \in Actions |->
                   IF c = m[1] THEN m[2] ELSE control[c]]
  /\ IF m[1] \in {"result", "drop"}
       THEN frame' = FrameSettled(pending) /\ pending' = 0
       ELSE UNCHANGED <<frame, pending>>
  /\ heard' = heard \cup IF m[1] = "result" THEN Told(pending, m[3]) ELSE {}
  /\ link' = [link EXCEPT !.down = Tail(@)]
  /\ UNCHANGED <<socket, net, ready, active, profile, fault>>

\* handleMessage
Message ==
  /\ CaughtUp /\ Open /\ link.down # <<>>
  /\ LET m == Head(link.down)
     IN IF m[1] # "close" /\ Expected(m)
          THEN Received(m)
          ELSE /\ fault' = (fault \/ m[1] # "close")
               /\ FailTransport
               /\ UNCHANGED heard
  /\ UNCHANGED <<aborted, of, left>>

-----------------------------------------------------------------------------
(* The gateway at the other end (external; VisionStream is its model).      *)

Gateway(change) ==
  /\ Open /\ link' = change
  /\ UNCHANGED <<calls, state, heard, fault>>

Reply(l, messages) == [l EXCEPT !.down = @ \o messages]
Closing == <<<<"close">>>>

\* A frame is dropped, or accepted when the gateway is free and capturing.
TakeFrame(l, f) ==
  {Reply(l, <<<<"drop", f>>>>)} \cup
  IF l.frame = 0 /\ (l.calibrating \/ l.inference) THEN {[l EXCEPT !.frame = f]} ELSE {}

\* stop_session cancels a calibration and waits for the frame in flight.
TakeStop(l) ==
  IF l.frame = 0 THEN Reply(l, <<<<"stop_session", "valid">>>> \o Closing)
  ELSE [l EXCEPT !.stopping = TRUE]

Take(l, m) ==
  CASE m[1] = "hello" -> {Reply(l, <<<<"ready">>>>), Reply(l, Closing)}
    [] m[1] = "frame" /\ of[m[2]] # socket -> {Reply(l, Closing)}
    [] m[1] = "frame" /\ of[m[2]] = socket -> TakeFrame(l, m[2])
    [] m[1] = "start_calibration" -> {[l EXCEPT !.calibrating = TRUE]}
    [] m[1] = "start_inference" ->
         {Reply([l EXCEPT !.inference = TRUE], <<<<"start_inference", "valid">>>>),
          Reply(l, <<<<"start_inference", "invalid">>>>)}
    [] OTHER -> {TakeStop([l EXCEPT !.calibrating = FALSE])}

GatewayTakes ==
  /\ link.up # <<>>
  /\ \E l \in Take([link EXCEPT !.up = Tail(@)], Head(link.up)) : Gateway(l)

\* An error about the frame does to the client what a drop does.  Eye may have
\* answered with progress before the calibration ended.
GatewayEndsFrame ==
  /\ link.frame # 0
  /\ \E kind \in {"result", "drop"}, progress \in BOOLEAN :
       LET l == Reply([link EXCEPT !.frame = 0], <<<<kind, link.frame, kind = "result" /\ progress>>>>)
       IN Gateway(IF link.stopping THEN TakeStop(l) ELSE l)

GatewayEndsCalibration ==
  /\ link.calibrating
  /\ \E verdict \in Verdicts :
       Gateway(Reply([link EXCEPT !.calibrating = FALSE],
                      <<<<"start_calibration", verdict>>>>))

-----------------------------------------------------------------------------
SomeoneContinues ==
  \/ \E s \in Sessions : StartContinues(s)
  \/ \E c \in Actions : ControlContinues(c)
  \/ \E f \in Frames : FrameContinues(f)

\* Mutant: no timer is set for a control request.
NoTimer == FALSE

TimersFire == \E c \in Actions : ControlTimeout(c)

ClientNext ==
  \/ SomeoneContinues
  \/ \E s \in Sessions : StartSession(s) \/ TokenArrives(s) \/ AbortStart(s)
  \/ StartCalibration \/ StartInference \/ StopSession
  \/ TimersFire
  \/ \E f \in Frames : SendFrame(f) \/ Encoded(f) \/ AbortFrame(f)
  \/ SocketOpens \/ Drops \/ CloseEvent \/ Message
  \/ GatewayTakes \/ GatewayEndsFrame \/ GatewayEndsCalibration

\* Continuations, the client's timers and the kiosk's start timer run; nothing
\* is assumed of the connection or the gateway.
ClientFairness ==
  /\ WF_clientVars(SomeoneContinues)
  /\ WF_clientVars(\E s \in Sessions : AbortStart(s))
  /\ WF_clientVars(TimersFire)

ClientSpec == ClientInit /\ [][ClientNext]_clientVars /\ ClientFairness
-----------------------------------------------------------------------------
(* Properties.                                                              *)

\* Every variable has values of its type.
ClientTypeOK ==
  /\ start \in [Sessions -> Starting \cup
                  {"none", "opened", "readied", "rejected", "done", "failed"}]
  /\ control \in [Actions -> Verdicts \cup
                    {"none", "waiting", "failed", "done", "refused"}]
  /\ frame \in [Frames -> {"none", "encoding", "rejected", "waiting", "settled",
                            "abandoned", "ended"}]
  /\ of \in [Frames -> Sessions \cup {0}]
  /\ aborted \subseteq Sessions /\ left \subseteq Frames
  /\ socket \in Sessions \cup {0} /\ pending \in Frames \cup {0}
  /\ net \in [Sessions -> {"none", "connecting", "open", "closed"}]
  /\ {ready, active, profile, fault} \subseteq BOOLEAN
  /\ heard \subseteq {"sample", "progress"} \X Frames

\* A gateway that keeps the protocol never makes the client end the session for
\* a protocol error: an answer that comes after its caller gave up, after a
\* stop or behind other messages is always expected (the comment in sendFrame).
LateAnswersAreExpected == ~fault

\* Frames wait at the gateway one at a time, also after their callers gave up:
\* the in-flight limit of the handshake is one.
OneFrameOut ==
  LET sent == {f \in Frames : \E i \in DOMAIN link.up : link.up[i] = <<"frame", f>>}
      answered == {f \in Frames : \E i \in DOMAIN link.down :
                     link.down[i][1] \in {"result", "drop"} /\ link.down[i][2] = f}
      out == sent \cup answered \cup ({link.frame} \ {0})
  IN \A f, g \in out : f = g

\* Whatever a socket carries belongs to its session: an image that was being
\* encoded when the session was replaced is not sent to the next one.
FramesOfSession ==
  \A i \in DOMAIN link.up : link.up[i][1] = "frame" => of[link.up[i][2]] = socket

\* When a session is gone nobody waits for it: rejectWaiters reaches every
\* promise, and the state of the session is gone with it.
NobodyLeftWaiting ==
  socket = 0 => /\ \A s \in Sessions : start[s] \notin {"opening", "handshake"}
                /\ \A c \in Actions : control[c] # "waiting"
                /\ \A f \in Frames : frame[f] \notin {"encoding", "waiting", "abandoned"}
                /\ CaughtUp => ~ready /\ ~active /\ ~profile

\* Every socket but the current one is closed.
SocketsClosed == \A s \in Sessions : s # socket => net[s] \in {"none", "closed"}

\* Frames are taken only while a calibration runs or after one that was valid:
\* the calibration that lets them through early takes that back when it fails.
CaptureIsAllowed ==
  CaughtUp /\ active =>
    /\ socket # 0
    /\ \/ control["start_calibration"] \in {"waiting", "done"}
       \/ control["start_inference"] = "done"

\* A listener hears of a frame only while its caller still waits for it: what
\* comes for a frame given up is consumed silently.
HeardWhileWanted ==
  [][\A h \in heard' \ heard : frame[h[2]] = "waiting" /\ h[2] \notin left]_clientVars

\* Progress is heard only while the calibration it belongs to is under way, not
\* when a frame's result arrives behind the calibration's.
ProgressWhileCalibrating ==
  [][\A h \in heard' \ heard :
       h[1] = "progress" => control["start_calibration"] = "waiting"]_clientVars

\* What comes over a socket is never wrong, whatever was given up meanwhile.
AnswersExpected == ClientTypeOK /\ LateAnswersAreExpected /\ OneFrameOut /\ FramesOfSession

\* A session that is over leaves nobody waiting, no socket and no capture.
SessionsEndWhole == NobodyLeftWaiting /\ SocketsClosed /\ CaptureIsAllowed

\* Listeners hear what they asked for, in its time.
HeardInTime == HeardWhileWanted /\ ProgressWhileCalibrating

\* Every start and every control request ends, whatever the gateway does.
CallsEnd ==
  /\ \A s \in Sessions : start[s] \in Starting ~> start[s] \in {"done", "failed"}
  /\ \A c \in Actions : control[c] = "waiting" ~> control[c] \in {"done", "refused"}
=============================================================================
