-------------------------- MODULE KioskFlow_proofs --------------------------
(***************************************************************************)
(* The kiosk application and its camera, for any number of starts, camera   *)
(* streams and captures: the camera and the sessions are given up with the  *)
(* flow that used them, the screen shows its own flow's data, and a stop     *)
(* ends no later session.                                                    *)
(***************************************************************************)
EXTENDS KioskFlow, FiniteSetTheorems, SequenceTheorems, TLAPS

-----------------------------------------------------------------------------
(* The inductive invariant: the camera.                                     *)

\* The operation that asks for a stream, and the one that has it, are known to
\* the source; every other is settled or was cancelled while it asked.
OpenInv(o) ==
  /\ opens[o].pc = "asking" => (opens[o].cancelled <=> openTask # o)
  /\ opens[o].pc = "starting" => openTask = o
  /\ opens[o].cancelled => opens[o].pc = "asking"

StreamInv ==
  /\ camera # None => openTask = None /\ tracks = {camera} /\ opens[camera].pc = "open"
  /\ openTask # None =>
       \/ opens[openTask].pc = "asking" /\ tracks = {}
       \/ opens[openTask].pc = "starting" /\ tracks = {openTask}
  /\ camera = None /\ openTask = None => tracks = {}

\* A capture that is on its way is the source's, or was cancelled.
CaptureInv(c) ==
  /\ captures[c].pc \in {"creating", "consuming"} => (captures[c].cancelled <=> capturing # c)
  /\ captures[c].cancelled => captures[c].pc \in {"creating", "consuming"}
  /\ capturing = c =>
       captures[c].pc \in {"creating", "consuming"} /\ camera # None /\ captures[c].stream = camera

SourceInv ==
  /\ SourceTypeOK /\ StreamInv /\ FramesOwned
  /\ \A o \in Opens : OpenInv(o)
  /\ \A c \in Captures : CaptureInv(c)

-----------------------------------------------------------------------------
(* The inductive invariant: the flows.                                      *)

Places == {"none", "opening", "creating", "joining", "ready", "calibrating", "inferring",
           "stopping", "sending", "polling", "fetching", "shown", "over"}
FlowOrNone == Flows \cup {None}
VisionOps == [op : {"start", "infer", "stop"}, flow : 0..MaxFlows,
              why : {"start", "calibration", "complete", "teardown", "timeout", "cancel"},
              current : BOOLEAN]

Screens == {"screensaver", "menu", "consent", "calibration", "lookbook", "finalizing", "report"}
UiType == [screen : Screens, camera : {"idle", "requesting", "ready", "error"},
           analysis : Pending \cup {"idle", "cancelled", "failed"},
           issue : {"none", "idle-timeout", "start"}, starting : BOOLEAN,
           session : FlowOrNone, shown : FlowOrNone, error : BOOLEAN]

FlowsType == [Flows -> [pc : Places, aborted : BOOLEAN]]

AppTypes ==
  /\ ui \in UiType
  /\ flow \in FlowOrNone /\ vision \in FlowOrNone
  /\ learned \subseteq Flows /\ discarded \subseteq Flows /\ evidence \subseteq Flows
  /\ flows \in FlowsType
  /\ refs \in [start : FlowOrNone, rec : FlowOrNone]
  /\ waiting \in [Opens -> [flow : FlowOrNone, why : {"none", "start", "retry"}]]
  /\ shooting \in [Captures -> [flow : FlowOrNone, lookbook : BOOLEAN]]
  /\ queue \in Seq(VisionOps)
  /\ broken = FALSE

\* The flows begin one after the other, and the current one is the last.
BegunInv ==
  /\ Begun \in 0..MaxFlows
  /\ \A f \in Flows : flows[f].pc # "none" <=> f <= Begun
  /\ flow # None => flow = Begun

Starting == {"opening", "creating", "joining"}
Submitting == {"stopping", "sending", "polling"}
WithSession == {"ready", "calibrating", "inferring", "stopping", "sending", "polling",
                "fetching", "shown"}

\* Where the current flow is, the screen is.
OnScreen(f) ==
  /\ flows[f].pc \in Starting => ui.screen = "consent" /\ ui.starting
  /\ flows[f].pc = "ready" => ui.screen \in {"calibration", "lookbook"}
  /\ flows[f].pc \in {"calibrating", "inferring"} => ui.screen = "calibration"
  /\ flows[f].pc \in Submitting \cup {"fetching"} => ui.screen = "finalizing"
  /\ flows[f].pc = "shown" => ui.screen = "report"
  /\ flows[f].pc \in WithSession => ui.session = f

\* A flow is current as long as it may still be aborted, and the controller
\* that would abort it is at hand.
FlowInv(f) ==
  /\ flows[f].pc \in Starting /\ ~flows[f].aborted => flow = f /\ refs.start = f
  /\ flows[f].pc \in Submitting /\ ~flows[f].aborted => flow = f /\ refs.rec = f
  /\ flow = f => OnScreen(f)

SessionInv(f) ==
  f \in learned =>
    /\ flows[f].pc \notin {"none", "opening", "creating"}
    /\ f \in discarded \/ f = ui.session \/ flows[f].pc \in {"joining", "shown"}

ScreenInv ==
  /\ ui.screen \in {"calibration", "lookbook"} => flow # None
  /\ ui.screen = "lookbook" => flows[flow].pc = "ready"
  /\ ui.screen = "report" => flow # None /\ flows[flow].pc = "shown" /\ ui.shown = flow
  /\ ui.session # None => ui.screen \in {"calibration", "lookbook", "finalizing", "report"}
  /\ ui.analysis = "cancelled" => ui.screen = "finalizing" /\ flow = None

\* A flow whose stream is awaited has not gone on.
WaitInv(o) ==
  waiting[o].why = "start" /\ waiting[o].flow # None =>
    /\ flows[waiting[o].flow].pc = "opening"
    /\ \A p \in Opens : waiting[p].why = "start" /\ waiting[p].flow = waiting[o].flow => p = o

\* A frame that is made, or was delivered, for the lookbook is the current flow's.
ShotInv(c) ==
  /\ capturing = c => flow # None /\ shooting[c].flow = flow
  /\ captures[c].pc = "delivered" /\ shooting[c].flow # None => shooting[c].flow = flow

\* A flow is where its Vision operation left it: n flows have begun, at is
\* where they are, v the session of the Vision client.
Awaited(e) == e.op = "infer" \/ (e.op = "stop" /\ e.why = "complete")
Awaits(e, at) == e.flow \in Flows /\ at[e.flow].pc = IF e.op = "infer" THEN "inferring" ELSE "stopping"

\* The queue is in the order in which its flows began, and the session that is
\* there began before them.
QueueOk(q, v, at, n) ==
  /\ \A i \in 1..Len(q) :
       /\ q[i].flow <= n
       /\ q[i].op \in {"start", "infer"} => q[i].flow \in Flows
       /\ v # None => v <= q[i].flow
       /\ Awaited(q[i]) => Awaits(q[i], at)
  /\ \A i, j \in 1..Len(q) : i < j => q[i].flow <= q[j].flow
  /\ \A i, j \in 1..Len(q) :
       Awaited(q[i]) /\ Awaited(q[j]) /\ q[i].flow = q[j].flow => i = j
  /\ v # None => v <= n

QueueInv == QueueOk(queue, vision, flows, Begun)

FlowsInv ==
  /\ BegunInv /\ ScreenInv /\ QueueInv
  /\ \A f \in Flows : FlowInv(f) /\ SessionInv(f)
  /\ \A o \in Opens : WaitInv(o)

KioskInv ==
  /\ SourceInv /\ AppTypes /\ FlowsInv
  /\ EvidenceIsOwn /\ CameraOffAtRest
  /\ \A c \in Captures : ShotInv(c)

-----------------------------------------------------------------------------
(* The camera's operations.                                                 *)

\* The camera of a page that was just loaded satisfies its invariant.
LEMMA SourceInitInv == SourceInit => SourceInv
BY FrameSourceAssumption
   DEF SourceInit, SourceInv, SourceTypeOK, StreamInv, FramesOwned, OpenInv, CaptureInv

\* An open asks for a stream only when there is none and none is asked for.
LEMMA OpenBeginsInv == ASSUME SourceInv, NEW o \in Opens, OpenBegins(o) PROVE SourceInv'
BY FrameSourceAssumption DEF OpenBegins, captureVars, SourceInv, SourceTypeOK, StreamInv,
   FramesOwned, OpenInv, CaptureInv

\* An open that is rejected takes its own stream along, and no other.
LEMMA OpenRejectsInv ==
  ASSUME SourceInv, NEW o \in Opens, opens[o].pc \in {"asking", "starting"}, OpenRejects(o)
  PROVE  SourceInv'
<1>1. /\ opens' \in [Opens -> [pc : {"none", "asking", "starting", "open", "cancelled", "failed"},
                               cancelled : BOOLEAN]]
      /\ opens'[o].pc \in {"cancelled", "failed"} /\ ~opens'[o].cancelled
      /\ \A p \in Opens \ {o} : opens'[p] = opens[p]
      /\ openTask' = IF openTask = o THEN None ELSE openTask
      /\ tracks' = tracks \ {o}
      /\ UNCHANGED <<camera, capturing, captures, frames>>
  BY DEF OpenRejects, Unless, captureVars, SourceInv, SourceTypeOK
<1>2. camera # None => camera # o
  BY DEF SourceInv, SourceTypeOK, StreamInv, OpenInv
<1>3. ASSUME NEW p \in Opens PROVE OpenInv(p)'
  BY <1>1, FrameSourceAssumption DEF SourceInv, SourceTypeOK, OpenInv
<1>4. StreamInv'
  BY <1>1, <1>2, FrameSourceAssumption DEF SourceInv, SourceTypeOK, StreamInv, OpenInv
<1>5. QED
  BY <1>1, <1>3, <1>4 DEF SourceInv, SourceTypeOK, FramesOwned, CaptureInv

\* A stream arrives for the open that asked last, or is stopped at once.
LEMMA OpenStepInv == ASSUME SourceInv, NEW o \in Opens, OpenStep(o) PROVE SourceInv'
<1>1. CASE opens[o].pc = "asking" /\ ~opens[o].cancelled /\ StreamArrives(o)
  BY <1>1, FrameSourceAssumption DEF StreamArrives, captureVars, SourceInv, SourceTypeOK, StreamInv,
     FramesOwned, OpenInv, CaptureInv
<1>2. CASE opens[o].pc \in {"asking", "starting"} /\ OpenRejects(o)
  BY <1>2, OpenRejectsInv
<1>3. CASE VideoReady(o)
  BY <1>3, FrameSourceAssumption DEF VideoReady, Unless, captureVars, SourceInv, SourceTypeOK, StreamInv,
     FramesOwned, OpenInv, CaptureInv
<1>4. QED
  BY <1>1, <1>2, <1>3 DEF OpenStep, StreamArrives, StreamFails

\* What a stop leaves on is nothing: the frame that is made is closed later.
LEMMA StopInv == ASSUME SourceInv, Stop PROVE SourceInv'
<1>1. /\ camera' = None /\ openTask' = None /\ tracks' = {} /\ capturing' = None /\ frames' = {}
  BY FrameSourceAssumption DEF Stop, AbortCapture, SourceInv, SourceTypeOK, StreamInv, FramesOwned
<1>2. /\ opens' \in [Opens -> [pc : {"none", "asking", "starting", "open", "cancelled", "failed"},
                               cancelled : BOOLEAN]]
      /\ \A o \in Opens : /\ o # openTask => opens'[o] = opens[o]
                          /\ o = openTask => /\ opens'[o].cancelled <=> opens[o].pc = "asking"
                                             /\ opens[o].pc = "asking" => opens'[o].pc = "asking"
                                             /\ opens[o].pc = "starting" => opens'[o].pc = "cancelled"
  BY DEF Stop, SourceInv, SourceTypeOK
<1>3. /\ captures' \in [Captures ->
           [pc : {"none", "creating", "consuming", "delivered", "cancelled", "failed"},
            cancelled : BOOLEAN, stream : Opens \cup {None}]]
      /\ \A c \in Captures : /\ captures'[c].pc = captures[c].pc
                             /\ captures'[c].cancelled <=> captures[c].cancelled \/ c = capturing
  BY DEF Stop, AbortCapture, SourceInv, SourceTypeOK
<1>4. ASSUME NEW o \in Opens PROVE OpenInv(o)'
  BY <1>1, <1>2, FrameSourceAssumption DEF SourceInv, SourceTypeOK, OpenInv, StreamInv
<1>5. ASSUME NEW c \in Captures PROVE CaptureInv(c)'
  BY <1>1, <1>3, FrameSourceAssumption DEF SourceInv, SourceTypeOK, CaptureInv
<1>6. QED
  BY <1>1, <1>2, <1>3, <1>4, <1>5 DEF SourceInv, SourceTypeOK, StreamInv, FramesOwned

\* A capture begins when no other is the source's.
LEMMA CaptureBeginsInv == ASSUME SourceInv, NEW c \in Captures, CaptureBegins(c) PROVE SourceInv'
<1>1. /\ captures' \in [Captures ->
           [pc : {"none", "creating", "consuming", "delivered", "cancelled", "failed"},
            cancelled : BOOLEAN, stream : Opens \cup {None}]]
      /\ captures'[c].pc = "creating" /\ captures'[c].cancelled = captures[c].cancelled
      /\ captures[c].pc = "none" /\ captures[c].cancelled \in BOOLEAN
      /\ captures'[c].stream = camera /\ capturing' = c /\ capturing = None /\ camera # None
      /\ \A d \in Captures \ {c} : captures'[d] = captures[d]
      /\ UNCHANGED <<camera, openTask, opens, tracks, frames>>
  BY DEF CaptureBegins, cameraVars, SourceInv, SourceTypeOK
<1>2. ~captures[c].cancelled
  BY <1>1, Zenon DEF SourceInv, CaptureInv
<1>3. CaptureInv(c)'
  BY <1>1, <1>2 DEF CaptureInv
<1>4. ASSUME NEW d \in Captures \ {c} PROVE CaptureInv(d)'
  BY <1>1, FrameSourceAssumption DEF SourceInv, SourceTypeOK, CaptureInv
<1>5. QED
  BY <1>1, <1>3, <1>4, FrameSourceAssumption DEF SourceInv, SourceTypeOK, StreamInv, FramesOwned, OpenInv

\* However a capture ends, its frame is closed.
LEMMA CaptureStepInv == ASSUME SourceInv, NEW c \in Captures, CaptureStep(c) PROVE SourceInv'
<1>1. CASE /\ captures[c].pc = "creating" /\ ~captures[c].cancelled
           /\ captures' = [captures EXCEPT ![c].pc = "consuming"] /\ frames' = frames \cup {c}
           /\ UNCHANGED <<capturing, cameraVars>>
  BY <1>1, FrameSourceAssumption DEF cameraVars, SourceInv, SourceTypeOK, StreamInv, FramesOwned,
     OpenInv, CaptureInv
<1>2. CASE captures[c].pc \in {"creating", "consuming"}
           /\ \E how \in {"cancelled", "failed", "delivered"} : CaptureReturns(c, how)
  BY <1>2, FrameSourceAssumption DEF CaptureReturns, Unless, cameraVars, SourceInv, SourceTypeOK,
     StreamInv, FramesOwned, OpenInv, CaptureInv
<1>3. QED
  BY <1>1, <1>2 DEF CaptureStep, FrameMade, CaptureFails, FrameConsumed

-----------------------------------------------------------------------------
(* The screens.                                                             *)

\* An event the screen takes leads to the screen Goes names.
LEMMA SendGoes ==
  ASSUME NEW u, NEW event, NEW s, <<u.screen, event, s>> \in Goes, Send(u, event)
  PROVE  ui' = [u EXCEPT !.screen = s] /\ broken' = broken
<1>1. \A t : <<u.screen, event, t>> \in Goes => t = s
  BY DEF Goes
<1>2. s \in Screens
  BY DEF Goes, Screens
<1>3. (CHOOSE t \in {g[3] : g \in Goes} : <<u.screen, event, t>> \in Goes) = s
  <2>1. s \in {g[3] : g \in Goes}
    OBVIOUS
  <2>2. QED
    BY <1>1, <2>1
<1>4. QED
  BY <1>2, <1>3 DEF Send, Screens

\* Every screen can be left.
LEMMA ScreensTake == Screens \subseteq {g[1] : g \in Goes}
<1> SUFFICES ASSUME NEW s \in Screens PROVE \E g \in Goes : g[1] = s
  OBVIOUS
<1>1. <<s, "RESTART", "screensaver">> \in Goes
  BY DEF Goes, Screens
<1>2. QED
  BY <1>1

-----------------------------------------------------------------------------
(* The queue of Vision operations.                                          *)

\* An operation of the last flow is queued.
LEMMA QueuePush ==
  ASSUME NEW q \in Seq(VisionOps), NEW v \in FlowOrNone, NEW at, NEW n \in 0..MaxFlows,
         QueueOk(q, v, at, n), NEW e \in VisionOps, e.flow = n,
         e.op \in {"start", "infer"} => n \in Flows,
         Awaited(e) => Awaits(e, at) /\ \A i \in 1..Len(q) : Awaited(q[i]) => q[i].flow # n
  PROVE  Append(q, e) \in Seq(VisionOps) /\ QueueOk(Append(q, e), v, at, n)
<1> DEFINE r == Append(q, e)
<1>1. r \in Seq(VisionOps) /\ Len(r) = Len(q) + 1 /\ Len(q) \in Nat
      /\ \A i \in 1..Len(q) : r[i] = q[i] /\ q[i] \in VisionOps
      /\ r[Len(q) + 1] = e
  OBVIOUS
<1>2. \A i \in 1..Len(r) : i \in 1..Len(q) \/ i = Len(q) + 1
  BY <1>1
<1> HIDE DEF r
<1>3. v # None => v <= n
  BY DEF QueueOk
<1>4. QED
  BY <1>1, <1>2, <1>3, KioskAssumption DEF QueueOk, r, VisionOps, FlowOrNone, Flows

\* A flow that awaits no operation moves.
LEMMA QueueMove ==
  ASSUME NEW q \in Seq(VisionOps), NEW v \in FlowOrNone, NEW at, NEW to, NEW n \in 0..MaxFlows,
         QueueOk(q, v, at, n),
         \A g \in Flows : at[g].pc \in {"inferring", "stopping"} => to[g].pc = at[g].pc
  PROVE  QueueOk(q, v, to, n)
<1>1. \A i \in 1..Len(q) : Awaited(q[i]) => Awaits(q[i], to)
  BY DEF QueueOk, Awaits
<1>2. QED
  BY <1>1 DEF QueueOk

\* The first operation has run: its flow may move, and the session is that of
\* its flow, that of before, or none.
LEMMA QueuePop ==
  ASSUME NEW q \in Seq(VisionOps), NEW v \in FlowOrNone, NEW at, NEW to, NEW n \in 0..MaxFlows,
         QueueOk(q, v, at, n), q # <<>>, NEW w \in FlowOrNone, w \in {v, None, Head(q).flow},
         \A g \in Flows : at[g].pc \in {"inferring", "stopping"} =>
            to[g].pc = at[g].pc \/ (Awaited(Head(q)) /\ g = Head(q).flow)
  PROVE  Tail(q) \in Seq(VisionOps) /\ QueueOk(Tail(q), w, to, n)
<1> DEFINE t == Tail(q)
<1>1. /\ t \in Seq(VisionOps) /\ Len(t) = Len(q) - 1 /\ Len(q) \in Nat \ {0}
      /\ \A i \in 1..Len(t) : t[i] = q[i + 1] /\ i + 1 \in 1..Len(q) /\ t[i] \in VisionOps
      /\ Head(q) = q[1] /\ 1 \in 1..Len(q)
  OBVIOUS
<1> HIDE DEF t
<1>2. \A i \in 1..Len(t) : Awaited(t[i]) => Awaits(t[i], to)
  <2> SUFFICES ASSUME NEW i \in 1..Len(t), Awaited(t[i]) PROVE Awaits(t[i], to)
    OBVIOUS
  <2>1. Awaits(q[i + 1], at) /\ ~(Awaited(q[1]) /\ q[i + 1].flow = q[1].flow) /\ t[i] = q[i + 1]
    BY <1>1 DEF QueueOk
  <2>2. QED
    BY <1>1, <2>1 DEF Awaits
<1>3. \A i \in 1..Len(t) : q[1].flow <= t[i].flow /\ (w # None => w <= t[i].flow)
  <2> SUFFICES ASSUME NEW i \in 1..Len(t)
               PROVE  q[1].flow <= t[i].flow /\ (w # None => w <= t[i].flow)
    OBVIOUS
  <2>1. t[i] = q[i + 1] /\ i + 1 \in 1..Len(q) /\ 1 < i + 1
    BY <1>1
  <2>2. q[1].flow <= q[i + 1].flow /\ (v # None => v <= q[i + 1].flow)
    BY <1>1, <2>1 DEF QueueOk
  <2>3. QED
    BY <1>1, <2>1, <2>2
<1>4. w # None => w <= n
  BY <1>1 DEF QueueOk
<1>5. QED
  BY <1>1, <1>2, <1>3, <1>4 DEF QueueOk, t

\* One more flow has begun.
LEMMA QueueLater ==
  ASSUME NEW q \in Seq(VisionOps), NEW v \in FlowOrNone, NEW at, NEW n \in 0..MaxFlows,
         QueueOk(q, v, at, n)
  PROVE  QueueOk(q, v, at, n + 1)
<1>1. \A i \in 1..Len(q) : q[i] \in VisionOps
  OBVIOUS
<1>2. \A i \in 1..Len(q) : q[i].flow \in Nat
  BY <1>1, KioskAssumption DEF VisionOps
<1>3. QED
  BY <1>2, KioskAssumption DEF QueueOk, FlowOrNone, Flows

\* A new generation changes no operation that is queued.
LEMMA QueueOutdated ==
  ASSUME NEW q \in Seq(VisionOps), NEW v \in FlowOrNone, NEW at, NEW n \in 0..MaxFlows,
         QueueOk(q, v, at, n)
  PROVE  Outdated(q) \in Seq(VisionOps) /\ QueueOk(Outdated(q), v, at, n)
<1> DEFINE r == Outdated(q)
<1>1. /\ r \in Seq(VisionOps) /\ Len(r) = Len(q)
      /\ \A i \in 1..Len(q) : r[i] = [q[i] EXCEPT !.current = FALSE] /\ q[i] \in VisionOps
  <2>1. Len(q) \in Nat /\ DOMAIN q = 1..Len(q) /\ \A i \in 1..Len(q) : q[i] \in VisionOps
    OBVIOUS
  <2>2. r = [i \in 1..Len(q) |-> [q[i] EXCEPT !.current = FALSE]]
    BY <2>1 DEF Outdated
  <2>3. \A i \in 1..Len(q) : [q[i] EXCEPT !.current = FALSE] \in VisionOps
    BY <2>1 DEF VisionOps
  <2>4. r \in [1..Len(q) -> VisionOps]
    BY <2>2, <2>3
  <2>5. r \in Seq(VisionOps) /\ Len(r) = Len(q)
    BY <2>1, <2>4, SeqDef, LenProperties
  <2>6. QED
    BY <2>1, <2>2, <2>5
<1> HIDE DEF r
<1>2. \A i \in 1..Len(q) : r[i].op = q[i].op /\ r[i].flow = q[i].flow /\ r[i].why = q[i].why
  BY <1>1 DEF VisionOps
<1>3. \A i \in 1..Len(q) : /\ Awaited(r[i]) <=> Awaited(q[i])
                           /\ Awaits(r[i], at) <=> Awaits(q[i], at)
  BY <1>2 DEF Awaited, Awaits
<1>4. QED
  BY <1>1, <1>2, <1>3 DEF QueueOk, r

-----------------------------------------------------------------------------
(* The flows.                                                               *)

\* As many flows have begun as the last one's number says.
LEMMA BegunIs ==
  ASSUME NEW n \in 0..MaxFlows, \A f \in Flows : flows[f].pc # "none" <=> f <= n
  PROVE  Begun = n
<1>1. {f \in Flows : flows[f].pc # "none"} = 1..n
  BY KioskAssumption DEF Flows
<1>2. Cardinality(1..n) = n
  BY FS_Interval
<1>3. QED
  BY <1>1, <1>2 DEF Begun

\* How many flows have begun after a step.
LEMMA BegunNext ==
  ASSUME NEW n \in 0..MaxFlows, \A f \in Flows : flows'[f].pc # "none" <=> f <= n
  PROVE  Begun' = n
<1>1. {f \in Flows : flows'[f].pc # "none"} = 1..n
  BY KioskAssumption DEF Flows
<1>2. Cardinality(1..n) = n
  BY FS_Interval
<1>3. QED
  BY <1>1, <1>2 DEF Begun

\* No flow begins: their number stays.
LEMMA BegunKept ==
  ASSUME \A f \in Flows : flows'[f].pc # "none" <=> flows[f].pc # "none"
  PROVE  Begun' = Begun
<1>1. {f \in Flows : flows'[f].pc # "none"} = {f \in Flows : flows[f].pc # "none"}
  OBVIOUS
<1>2. QED
  BY <1>1 DEF Begun

\* A flow that has begun goes on, alone.
LEMMA MovedFlow ==
  ASSUME flows \in FlowsType, NEW f \in Flows, NEW pc \in Places \ {"none"}, flows[f].pc # "none",
         flows' = Moved(f, pc)
  PROVE  /\ flows' \in FlowsType
         /\ flows'[f].pc = pc
         /\ flows'[f].aborted => flows[f].aborted
         /\ pc # "over" /\ flows[f].aborted => flows'[f].aborted
         /\ \A g \in Flows \ {f} : flows'[g] = flows[g]
         /\ Begun' = Begun
<1>1. /\ flows' \in FlowsType
      /\ flows'[f].pc = pc
      /\ flows'[f].aborted => flows[f].aborted
      /\ pc # "over" /\ flows[f].aborted => flows'[f].aborted
      /\ \A g \in Flows \ {f} : flows'[g] = flows[g]
  BY DEF Moved, FlowsType
<1>2. Begun' = Begun
  BY <1>1, BegunKept
<1>3. QED
  BY <1>1, <1>2

\* A flow that has begun is aborted, when the controller that is asked is its own.
LEMMA AbortedFlows ==
  ASSUME flows \in FlowsType, NEW set, flows' = Aborted(set)
  PROVE  /\ flows' \in FlowsType
         /\ \A f \in Flows : /\ flows'[f].pc = flows[f].pc
                             /\ flows[f].aborted => flows'[f].aborted
                             /\ f \in set /\ flows[f].pc # "none" => flows'[f].aborted
         /\ Begun' = Begun
<1>1. /\ flows' \in FlowsType
      /\ \A f \in Flows : /\ flows'[f].pc = flows[f].pc
                          /\ flows[f].aborted => flows'[f].aborted
                          /\ f \in set /\ flows[f].pc # "none" => flows'[f].aborted
  BY DEF Aborted, FlowsType
<1>2. Begun' = Begun
  BY <1>1, BegunKept
<1>3. QED
  BY <1>1, <1>2

\* What is neither the current screen's business nor a flow's: the camera's
\* state, the wording of an issue, an error.
SameView ==
  /\ ui' \in UiType /\ ui'.screen = ui.screen /\ ui'.starting = ui.starting
  /\ ui'.session = ui.session /\ ui'.shown = ui.shown /\ ui'.analysis = ui.analysis

\* A step on the queue alone keeps the invariant of the flows.
LEMMA ViewKept ==
  ASSUME AppTypes, FlowsInv, SameView, UNCHANGED <<flow, flows, refs, learned, discarded>>, QueueInv',
         \A o \in Opens : waiting'[o].flow # None /\ waiting'[o].why = "start" => waiting'[o] = waiting[o]
  PROVE  FlowsInv'
<1>1. Begun' = Begun
  BY BegunKept
<1>2. BegunInv'
  BY <1>1 DEF FlowsInv, BegunInv
<1>3. ScreenInv'
  BY DEF FlowsInv, ScreenInv, SameView
<1>4. ASSUME NEW f \in Flows PROVE FlowInv(f)' /\ SessionInv(f)'
  <2>1. FlowInv(f) /\ SessionInv(f)
    BY DEF FlowsInv
  <2>2. OnScreen(f) => OnScreen(f)'
    BY DEF OnScreen, SameView
  <2>3. QED
    BY <2>1, <2>2 DEF FlowInv, SessionInv, SameView
<1>5. ASSUME NEW o \in Opens PROVE WaitInv(o)'
  BY DEF FlowsInv, WaitInv
<1>6. QED
  BY <1>2, <1>3, <1>4, <1>5 DEF FlowsInv

\* So does a step that touches neither the flows nor the queue.
LEMMA FlowsKept ==
  ASSUME AppTypes, FlowsInv, SameView, UNCHANGED <<flow, flows, refs, queue, vision, learned, discarded>>,
         \A o \in Opens : waiting'[o].flow # None /\ waiting'[o].why = "start" => waiting'[o] = waiting[o]
  PROVE  FlowsInv'
<1>1. Begun' = Begun
  BY BegunKept
<1>2. QueueInv'
  BY <1>1 DEF FlowsInv, QueueInv
<1>3. QED
  BY <1>2, ViewKept

\* A capture's flow is current as long as the source has the capture.
LEMMA ShotsKept ==
  ASSUME KioskInv, UNCHANGED <<flow, shooting>>, capturing' \in {capturing, None},
         \A c \in Captures : captures'[c].pc = "delivered" => captures[c].pc = "delivered"
  PROVE  \A c \in Captures : ShotInv(c)'
BY FrameSourceAssumption DEF KioskInv, ShotInv

\* stop leaves the camera off and no frame being captured.
LEMMA StopEffect ==
  ASSUME KioskInv, Stop
  PROVE  /\ SourceInv' /\ CameraOffAtRest'
         /\ camera' = None /\ openTask' = None /\ capturing' = None
         /\ \A c \in Captures : captures'[c].pc = captures[c].pc
<1>1. SourceInv'
  BY StopInv DEF KioskInv
<1>2. camera' = None /\ openTask' = None /\ capturing' = None
      /\ \A c \in Captures : captures'[c].pc = captures[c].pc
  BY DEF Stop, AbortCapture, KioskInv, SourceInv, SourceTypeOK
<1>3. QED
  BY <1>1, <1>2 DEF CameraOffAtRest

-----------------------------------------------------------------------------
(* A flow is given up.                                                      *)

\* None is not a generation.
LEMMA NoneIsNoFlow == None \notin Flows /\ Flows \subseteq Nat
BY KioskAssumption DEF Flows

\* A generation ends: its flow is aborted wherever it may be, its frames are
\* dropped and a stop is queued behind what it had queued.
LEMMA AbandonInv ==
  ASSUME KioskInv, Quiet, NEW why \in {"teardown", "timeout", "cancel"}, NEW set, NEW u, NEW event,
         Abandon(why, set, u, event), ui' \in UiType, broken' = broken,
         \A f \in Flows : flows[f].pc \in Starting \cup Submitting /\ ~flows[f].aborted => f \in set,
         ui'.screen \in {"screensaver", "consent", "finalizing"},
         ui'.session # None \/ ui'.analysis = "cancelled" => ui'.screen = "finalizing",
         discarded \subseteq discarded', discarded' \subseteq Flows,
         ui.session # None /\ ui'.session # ui.session =>
            ui.session \in discarded' \/ flows[ui.session].pc = "shown"
  PROVE  KioskInv'
<1>1. /\ flow' = None /\ flows' = Aborted(set) /\ evidence' = {} /\ Stop
      /\ queue' = Append(Outdated(queue), Vision("stop", Begun, why))
      /\ refs'.start = None /\ refs' \in [start : FlowOrNone, rec : FlowOrNone]
      /\ UNCHANGED <<waiting, shooting, vision, learned>>
  BY DEF Abandon, RunSerialized, KioskInv, AppTypes, FlowOrNone
<1>2. /\ flows' \in FlowsType /\ Begun' = Begun
      /\ \A f \in Flows : /\ flows'[f].pc = flows[f].pc
                          /\ flows[f].aborted => flows'[f].aborted
                          /\ f \in set /\ flows[f].pc # "none" => flows'[f].aborted
  BY <1>1, AbortedFlows DEF KioskInv, AppTypes
<1>3. queue' \in Seq(VisionOps) /\ QueueInv'
  <2>1. /\ Begun \in 0..MaxFlows /\ queue \in Seq(VisionOps) /\ vision \in FlowOrNone
        /\ QueueOk(queue, vision, flows, Begun)
    BY DEF KioskInv, FlowsInv, AppTypes, BegunInv, QueueInv
  <2>2. Outdated(queue) \in Seq(VisionOps) /\ QueueOk(Outdated(queue), vision, flows, Begun)
    BY <2>1, QueueOutdated
  <2>3. QueueOk(Outdated(queue), vision, flows', Begun)
    BY <1>2, <2>1, <2>2, QueueMove
  <2>4. /\ Vision("stop", Begun, why) \in VisionOps /\ Vision("stop", Begun, why).flow = Begun
        /\ ~Awaited(Vision("stop", Begun, why))
        /\ Vision("stop", Begun, why).op \notin {"start", "infer"}
    BY <2>1 DEF Vision, VisionOps, Awaited
  <2>5. queue' \in Seq(VisionOps) /\ QueueOk(queue', vision, flows', Begun)
    BY <1>1, <2>1, <2>2, <2>3, <2>4, QueuePush
  <2>6. QED
    BY <1>1, <1>2, <2>5 DEF QueueInv
<1>4. SourceInv' /\ CameraOffAtRest' /\ capturing' = None
      /\ \A c \in Captures : captures'[c].pc = captures[c].pc
  BY <1>1, StopEffect
<1>5. AppTypes'
  BY <1>1, <1>2, <1>3 DEF KioskInv, AppTypes, FlowOrNone
<1>6. BegunInv'
  BY <1>1, <1>2 DEF KioskInv, FlowsInv, BegunInv
<1>7. ScreenInv'
  BY <1>1 DEF ScreenInv
<1>8. ASSUME NEW f \in Flows PROVE FlowInv(f)'
  BY <1>1, <1>2, NoneIsNoFlow DEF FlowInv, Starting, Submitting
<1>9. ASSUME NEW f \in Flows PROVE SessionInv(f)'
  <2>1. SessionInv(f)
    BY DEF KioskInv, FlowsInv
  <2>2. QED
    BY <1>1, <1>2, <2>1, NoneIsNoFlow DEF SessionInv
<1>10. ASSUME NEW o \in Opens PROVE WaitInv(o)'
  <2>1. WaitInv(o) /\ waiting[o].flow \in FlowOrNone
    BY DEF KioskInv, FlowsInv, AppTypes
  <2>2. QED
    BY <1>1, <1>2, <2>1 DEF WaitInv, FlowOrNone
<1>11. ASSUME NEW c \in Captures PROVE ShotInv(c)'
  BY <1>1, <1>4, FrameSourceAssumption DEF ShotInv, Quiet, Shot
<1>12. EvidenceIsOwn'
  BY <1>1 DEF EvidenceIsOwn
<1>13. QED
  BY <1>3, <1>4, <1>5, <1>6, <1>7, <1>8, <1>9, <1>10, <1>11, <1>12 DEF KioskInv, FlowsInv

\* A restart, from wherever the screen offers one.
LEMMA RestartInv == ASSUME KioskInv, Restart PROVE KioskInv'
<1> DEFINE u == [Reset EXCEPT !.session = None, !.shown = None, !.error = FALSE]
<1>1. /\ Quiet /\ discarded' = RestartDiscards
      /\ Abandon("teardown", {refs.start, refs.rec}, u, "RESTART")
  BY DEF Restart
<1>2. ui \in UiType /\ u \in UiType /\ u.screen = ui.screen
      /\ u.session = None /\ u.analysis = "idle"
  BY DEF Reset, KioskInv, AppTypes, UiType, FlowOrNone
<1>3. <<u.screen, "RESTART", "screensaver">> \in Goes
  BY <1>2 DEF Goes, UiType, Screens
<1> HIDE DEF u
<1>4. ui' = [u EXCEPT !.screen = "screensaver"] /\ broken' = broken
  BY <1>1, <1>3, SendGoes DEF Abandon
<1>5. ui' \in UiType /\ ui'.screen = "screensaver" /\ ui'.session = None /\ ui'.analysis = "idle"
  BY <1>2, <1>4 DEF UiType, Screens
<1>6. \A f \in Flows : flows[f].pc \in Starting \cup Submitting /\ ~flows[f].aborted =>
         f \in {refs.start, refs.rec}
  BY DEF KioskInv, FlowsInv, FlowInv
<1>7. /\ discarded \subseteq discarded' /\ discarded' \subseteq Flows
      /\ ui.session # None => ui.session \in discarded' \/ flows[ui.session].pc = "shown"
  <2>1. ui.session # None => ui.session \in Flows
    BY <1>2 DEF UiType, FlowOrNone
  <2>2. ui.session # None /\ ui.screen = "report" => flows[ui.session].pc = "shown"
    BY <2>1 DEF KioskInv, FlowsInv, ScreenInv, FlowInv, OnScreen, WithSession, AppTypes, FlowOrNone
  <2>3. QED
    BY <1>1, <2>1, <2>2 DEF RestartDiscards, KioskInv, AppTypes
<1>8. QED
  BY <1>1, <1>4, <1>5, <1>6, <1>7, AbandonInv

\* A customer who does not consent, before or during a start.
LEMMA CancelConsentInv == ASSUME KioskInv, CancelConsent PROVE KioskInv'
<1> DEFINE u == [Reset EXCEPT !.session = None, !.shown = None]
<1>1. /\ Quiet /\ discarded' = discarded /\ ui.screen = "consent"
      /\ Abandon("teardown", {refs.start, refs.rec}, u, "CANCEL")
  BY DEF CancelConsent
<1>2. ui \in UiType /\ u \in UiType /\ u.screen = ui.screen
      /\ u.session = None /\ u.analysis = "idle"
  BY DEF Reset, KioskInv, AppTypes, UiType, FlowOrNone
<1>3. <<u.screen, "CANCEL", "screensaver">> \in Goes
  BY <1>1, <1>2 DEF Goes
<1> HIDE DEF u
<1>4. ui' = [u EXCEPT !.screen = "screensaver"] /\ broken' = broken
  BY <1>1, <1>3, SendGoes DEF Abandon
<1>5. ui' \in UiType /\ ui'.screen = "screensaver" /\ ui'.session = None /\ ui'.analysis = "idle"
  BY <1>2, <1>4 DEF UiType, Screens
<1>6. \A f \in Flows : flows[f].pc \in Starting \cup Submitting /\ ~flows[f].aborted =>
         f \in {refs.start, refs.rec}
  BY DEF KioskInv, FlowsInv, FlowInv
<1>7. ui.session = None /\ discarded \subseteq Flows
  BY <1>1 DEF KioskInv, FlowsInv, ScreenInv, AppTypes
<1>8. QED
  BY <1>1, <1>4, <1>5, <1>6, <1>7, AbandonInv

\* The consent screen is left alone: only a start can be under way.
LEMMA ConsentTimesOutInv == ASSUME KioskInv, ConsentTimesOut PROVE KioskInv'
<1> DEFINE u == [Reset EXCEPT !.issue = "idle-timeout"]
<1>1. /\ Quiet /\ discarded' = discarded /\ ui.screen = "consent"
      /\ Abandon("timeout", {refs.start}, u, "none")
  BY DEF ConsentTimesOut
<1>2. ui \in UiType /\ u \in UiType /\ u.screen = ui.screen
      /\ u.session = ui.session /\ u.analysis = "idle"
  BY DEF Reset, KioskInv, AppTypes, UiType, FlowOrNone
<1> HIDE DEF u
<1>3. ui' = u /\ broken' = broken
  BY <1>1 DEF Abandon, Set
<1>4. ui.session = None /\ discarded \subseteq Flows
  BY <1>1 DEF KioskInv, FlowsInv, ScreenInv, AppTypes
<1>5. \A f \in Flows : flows[f].pc \in Starting \cup Submitting /\ ~flows[f].aborted => f \in {refs.start}
  BY <1>1 DEF KioskInv, FlowsInv, FlowInv, OnScreen, Starting, Submitting
<1>6. QED
  BY <1>1, <1>2, <1>3, <1>4, <1>5, AbandonInv

\* The recommendation is cancelled: its session is given up.
LEMMA CancelRecommendationInv == ASSUME KioskInv, CancelRecommendation PROVE KioskInv'
<1> DEFINE u == [ui EXCEPT !.camera = "idle", !.analysis = "cancelled"]
<1>1. /\ Quiet /\ ui.screen = "finalizing"
      /\ discarded' = IF ui.session = None THEN discarded ELSE discarded \cup {ui.session}
      /\ Abandon("cancel", {refs.rec}, u, "none")
  BY DEF CancelRecommendation
<1>2. ui \in UiType /\ u \in UiType /\ u.screen = ui.screen /\ u.session = ui.session
  BY DEF KioskInv, AppTypes, UiType, FlowOrNone
<1> HIDE DEF u
<1>3. ui' = u /\ broken' = broken
  BY <1>1 DEF Abandon, Set
<1>4. discarded \subseteq discarded' /\ discarded' \subseteq Flows
  BY <1>1, <1>2 DEF KioskInv, AppTypes, UiType, FlowOrNone
<1>5. \A f \in Flows : flows[f].pc \in Starting \cup Submitting /\ ~flows[f].aborted => f \in {refs.rec}
  BY <1>1 DEF KioskInv, FlowsInv, FlowInv, OnScreen, Starting, Submitting
<1>6. QED
  BY <1>1, <1>2, <1>3, <1>4, <1>5, AbandonInv

-----------------------------------------------------------------------------
(* Touches that leave the flow alone, the camera and the captures.          *)

\* The screens before a start: the current flow, if any, is over.
LEMMA FlowsAside ==
  ASSUME AppTypes, FlowsInv, ui.screen \in {"screensaver", "menu", "consent"},
         ui.screen = "consent" => ~ui.starting,
         ui' \in UiType, ui'.screen \in {"screensaver", "menu", "consent"},
         ui'.session = ui.session, ui'.analysis = ui.analysis,
         UNCHANGED <<flow, flows, refs, waiting, queue, vision, learned, discarded>>
  PROVE  FlowsInv'
<1>1. Begun' = Begun
  BY BegunKept
<1>2. BegunInv' /\ QueueInv'
  BY <1>1 DEF FlowsInv, BegunInv, QueueInv
<1>3. ScreenInv'
  BY DEF FlowsInv, ScreenInv
<1>4. ASSUME NEW f \in Flows PROVE FlowInv(f)' /\ SessionInv(f)'
  <2>1. FlowInv(f) /\ SessionInv(f)
    BY DEF FlowsInv
  <2>2. flow = f => OnScreen(f)'
    BY <2>1 DEF FlowInv, OnScreen, WithSession, Submitting
  <2>3. QED
    BY <2>1, <2>2 DEF FlowInv, SessionInv
<1>5. ASSUME NEW o \in Opens PROVE WaitInv(o)'
  BY DEF FlowsInv, WaitInv
<1>6. QED
  BY <1>2, <1>3, <1>4, <1>5 DEF FlowsInv

\* The customer wakes the kiosk, chooses a category, answers a timeout.
LEMMA TouchInv == ASSUME KioskInv, Touch PROVE KioskInv'
<1>1. UNCHANGED <<sourceVars, flow, flows, refs, waiting, shooting, queue, vision, sessionVars>>
  BY DEF Touch
<1>2. /\ ui' \in UiType /\ broken' = broken /\ ui'.session = ui.session
      /\ ui'.analysis = ui.analysis /\ ui'.starting = ui.starting /\ ui'.shown = ui.shown
      /\ \/ ui.screen = "screensaver" /\ ui'.screen = "menu"
         \/ ui.screen = "menu" /\ ui'.screen = "consent"
         \/ ui.screen = "consent" /\ ui'.screen = "consent"
  <2>0. ui \in UiType
    BY DEF KioskInv, AppTypes
  <2>1. CASE ui.screen = "screensaver" /\ Send(ui, "START")
    <3>1. <<ui.screen, "START", "menu">> \in Goes
      BY <2>1 DEF Goes
    <3>2. ui' = [ui EXCEPT !.screen = "menu"] /\ broken' = broken
      BY <2>1, <3>1, SendGoes
    <3>3. QED
      BY <2>0, <2>1, <3>2 DEF UiType, Screens
  <2>2. CASE ui.screen = "menu" /\ Send([ui EXCEPT !.issue = "none"], "SELECT_CATEGORY")
    <3> DEFINE u == [ui EXCEPT !.issue = "none"]
    <3>1. u \in UiType /\ u.screen = "menu" /\ u.session = ui.session /\ u.analysis = ui.analysis
          /\ u.starting = ui.starting /\ u.shown = ui.shown
      BY <2>0, <2>2 DEF UiType
    <3>2. <<u.screen, "SELECT_CATEGORY", "consent">> \in Goes
      BY <3>1 DEF Goes
    <3> HIDE DEF u
    <3>3. ui' = [u EXCEPT !.screen = "consent"] /\ broken' = broken
      BY <2>2, <3>2, SendGoes DEF u
    <3>4. QED
      BY <2>2, <3>1, <3>3 DEF UiType, Screens
  <2>3. CASE ui.screen = "consent" /\ Set([ui EXCEPT !.issue = "none"])
    BY <2>0, <2>3 DEF Set, UiType
  <2>4. QED
    BY <2>1, <2>2, <2>3 DEF Touch
<1>3. FlowsInv'
  <2>1. CASE ui.screen = "consent"
    BY <1>1, <1>2, <2>1, FlowsKept DEF SameView, KioskInv, sessionVars
  <2>2. CASE ui.screen # "consent"
    BY <1>1, <1>2, <2>2, FlowsAside DEF KioskInv, sessionVars
  <2>3. QED
    BY <2>1, <2>2
<1>4. SourceInv'
  BY <1>1 DEF KioskInv, SourceInv, SourceTypeOK, StreamInv, FramesOwned, OpenInv, CaptureInv,
     sourceVars, cameraVars, captureVars
<1>5. AppTypes'
  BY <1>1, <1>2 DEF KioskInv, AppTypes, sessionVars
<1>6. CameraOffAtRest'
  BY <1>1, <1>2 DEF KioskInv, CameraOffAtRest, sourceVars, cameraVars
<1>7. QED
  BY <1>1, <1>3, <1>4, <1>5, <1>6 DEF KioskInv, EvidenceIsOwn, ShotInv, sessionVars, sourceVars,
     captureVars

\* Back to the menu, the camera switched off.
LEMMA BackInv == ASSUME KioskInv, Back PROVE KioskInv'
<1> DEFINE u == [ui EXCEPT !.camera = "idle"]
<1>1. /\ ui.screen = "consent" /\ ~ui.starting /\ Stop /\ Send(u, "BACK")
      /\ UNCHANGED <<flow, flows, refs, waiting, shooting, queue, vision, sessionVars>>
  BY DEF Back
<1>2. ui \in UiType /\ u \in UiType /\ u.screen = "consent" /\ u.session = ui.session
      /\ u.analysis = ui.analysis
  BY <1>1 DEF KioskInv, AppTypes, UiType
<1>3. <<u.screen, "BACK", "menu">> \in Goes
  BY <1>2 DEF Goes
<1> HIDE DEF u
<1>4. ui' = [u EXCEPT !.screen = "menu"] /\ broken' = broken
  BY <1>1, <1>3, SendGoes
<1>5. ui' \in UiType /\ ui'.screen = "menu" /\ ui'.session = ui.session /\ ui'.analysis = ui.analysis
  BY <1>2, <1>4 DEF UiType, Screens
<1>6. FlowsInv'
  BY <1>1, <1>5, FlowsAside DEF KioskInv, sessionVars
<1>7. SourceInv' /\ CameraOffAtRest' /\ capturing' = None
      /\ \A c \in Captures : captures'[c].pc = captures[c].pc
  BY <1>1, StopEffect
<1>8. \A c \in Captures : ShotInv(c)'
  BY <1>1, <1>7, ShotsKept
<1>9. AppTypes' /\ EvidenceIsOwn'
  BY <1>1, <1>4, <1>5 DEF KioskInv, AppTypes, EvidenceIsOwn, sessionVars
<1>10. QED
  BY <1>6, <1>7, <1>8, <1>9 DEF KioskInv

\* The camera is stopped and the screen says so: the player has no video, or
\* the lookbook no camera.
LEMMA CameraStoppedInv ==
  ASSUME KioskInv, Stop, NEW state \in {"idle", "error"}, Set([ui EXCEPT !.camera = state]),
         UNCHANGED <<flow, flows, refs, waiting, shooting, queue, vision, sessionVars>>
  PROVE  KioskInv'
<1>1. SameView /\ broken' = broken
  BY DEF Set, SameView, KioskInv, AppTypes, UiType
<1>2. FlowsInv'
  BY <1>1, FlowsKept DEF KioskInv, sessionVars
<1>3. SourceInv' /\ CameraOffAtRest' /\ capturing' = None
      /\ \A c \in Captures : captures'[c].pc = captures[c].pc
  BY StopEffect
<1>4. \A c \in Captures : ShotInv(c)'
  BY <1>3, ShotsKept
<1>5. AppTypes' /\ EvidenceIsOwn'
  BY <1>1 DEF KioskInv, AppTypes, SameView, EvidenceIsOwn, sessionVars
<1>6. QED
  BY <1>2, <1>3, <1>4, <1>5 DEF KioskInv

\* The video cannot be played.
LEMMA PlaybackUnavailableInv == ASSUME KioskInv, PlaybackUnavailable PROVE KioskInv'
BY CameraStoppedInv DEF PlaybackUnavailable

\* A frame is not captured.
LEMMA ShotRefusedInv == ASSUME KioskInv, ShotRefused PROVE KioskInv'
BY CameraStoppedInv DEF ShotRefused

\* The camera is asked for again, for the flow whose lookbook plays.
LEMMA CameraRetriedInv == ASSUME KioskInv, CameraRetried PROVE KioskInv'
<1>1. PICK o \in Opens : OpenBegins(o) /\ waiting' = [waiting EXCEPT ![o] = [flow |-> flow, why |-> "retry"]]
  BY DEF CameraRetried
<1>2. /\ ui.screen = "lookbook" /\ Set([ui EXCEPT !.camera = "requesting"])
      /\ UNCHANGED <<flow, flows, refs, shooting, queue, vision, sessionVars>>
  BY DEF CameraRetried
<1>3. SameView /\ broken' = broken
  BY <1>2 DEF Set, SameView, KioskInv, AppTypes, UiType
<1>4. /\ waiting' \in [Opens -> [flow : FlowOrNone, why : {"none", "start", "retry"}]]
      /\ waiting'[o].why = "retry" /\ \A p \in Opens \ {o} : waiting'[p] = waiting[p]
  BY <1>1 DEF KioskInv, AppTypes
<1>5. FlowsInv'
  <2>1. \A p \in Opens : waiting'[p].flow # None /\ waiting'[p].why = "start" => waiting'[p] = waiting[p]
    BY <1>4
  <2>2. QED
    BY <1>2, <1>3, <2>1, FlowsKept DEF KioskInv, sessionVars
<1>6. SourceInv' /\ capturing' = capturing /\ captures' = captures
  BY <1>1, OpenBeginsInv DEF KioskInv, OpenBegins, captureVars
<1>7. \A c \in Captures : ShotInv(c)'
  BY <1>2, <1>6, ShotsKept
<1>8. AppTypes' /\ EvidenceIsOwn'
  BY <1>2, <1>3, <1>4 DEF KioskInv, AppTypes, SameView, EvidenceIsOwn, sessionVars
<1>9. CameraOffAtRest'
  BY <1>2, <1>3 DEF CameraOffAtRest, SameView, KioskInv, FlowsInv, ScreenInv
<1>10. QED
  BY <1>5, <1>6, <1>7, <1>8, <1>9 DEF KioskInv

\* The Vision session breaks.
LEMMA VisionLostInv == ASSUME KioskInv, VisionLost PROVE KioskInv'
<1>1. /\ vision' = None
      /\ UNCHANGED <<sourceVars, ui, flow, flows, refs, waiting, shooting, queue, sessionVars, broken>>
  BY DEF VisionLost
<1>2. Begun' = Begun
  BY <1>1, BegunKept
<1>3. QueueInv'
  BY <1>1, <1>2 DEF KioskInv, FlowsInv, QueueInv, QueueOk
<1>4. SourceInv'
  BY <1>1 DEF KioskInv, SourceInv, SourceTypeOK, StreamInv, FramesOwned, OpenInv, CaptureInv,
     sourceVars, cameraVars, captureVars
<1>5. BegunInv' /\ ScreenInv'
  BY <1>1, <1>2 DEF KioskInv, FlowsInv, BegunInv, ScreenInv
<1>6. ASSUME NEW f \in Flows PROVE FlowInv(f)' /\ SessionInv(f)'
  BY <1>1 DEF KioskInv, FlowsInv, FlowInv, OnScreen, SessionInv, sessionVars
<1>7. ASSUME NEW o \in Opens PROVE WaitInv(o)'
  BY <1>1 DEF KioskInv, FlowsInv, WaitInv
<1>8. ASSUME NEW c \in Captures PROVE ShotInv(c)'
  BY <1>1 DEF KioskInv, ShotInv, sourceVars, captureVars
<1>9. AppTypes' /\ EvidenceIsOwn' /\ CameraOffAtRest'
  BY <1>1 DEF KioskInv, AppTypes, FlowOrNone, EvidenceIsOwn, CameraOffAtRest, sessionVars, sourceVars,
     cameraVars
<1>10. QED
  BY <1>3, <1>4, <1>5, <1>6, <1>7, <1>8, <1>9 DEF KioskInv, FlowsInv

-----------------------------------------------------------------------------
(* The browser's answers to the camera, and the captures.                   *)

\* Nothing of the source changes.
LEMMA SourceSame ==
  ASSUME SourceInv, UNCHANGED sourceVars
  PROVE  SourceInv'
BY DEF SourceInv, SourceTypeOK, StreamInv, FramesOwned, OpenInv, CaptureInv, sourceVars, cameraVars,
   captureVars

\* Nothing of the application changes but what the screen leaves out.
LEMMA AppSame ==
  ASSUME KioskInv, UNCHANGED <<ui, flow, flows, refs, waiting, queue, vision, sessionVars, broken>>,
         shooting' \in [Captures -> [flow : FlowOrNone, lookbook : BOOLEAN]]
  PROVE  FlowsInv' /\ AppTypes' /\ EvidenceIsOwn'
<1>1. SameView
  BY DEF SameView, KioskInv, AppTypes
<1>2. FlowsInv'
  BY <1>1, FlowsKept DEF KioskInv, sessionVars
<1>3. QED
  BY <1>2 DEF KioskInv, AppTypes, EvidenceIsOwn, sessionVars

\* getUserMedia or the video answers: it hands over a camera that was wanted.
LEMMA BrowserInv == ASSUME KioskInv, Browser PROVE KioskInv'
<1>1. PICK o \in Opens : OpenStep(o) /\ UNCHANGED appVars
  BY DEF Browser
<1>2. SourceInv' /\ UNCHANGED <<capturing, captures>>
  BY <1>1, OpenStepInv
     DEF KioskInv, OpenStep, StreamArrives, StreamFails, VideoReady, OpenRejects, captureVars
<1>3. camera' # None \/ openTask' # None => camera # None \/ openTask # None
  <2>1. CASE VideoReady(o)
    BY <2>1, FrameSourceAssumption DEF VideoReady, KioskInv, SourceInv, OpenInv
  <2>2. CASE StreamArrives(o) \/ StreamFails(o)
    BY <2>2 DEF StreamArrives, StreamFails, OpenRejects, Unless, captureVars
  <2>3. QED
    BY <1>1, <2>1, <2>2 DEF OpenStep
<1>4. FlowsInv' /\ AppTypes' /\ EvidenceIsOwn'
  BY <1>1, AppSame DEF appVars, KioskInv, AppTypes
<1>5. \A c \in Captures : ShotInv(c)'
  BY <1>1, <1>2, ShotsKept DEF appVars
<1>6. CameraOffAtRest'
  BY <1>1, <1>3 DEF KioskInv, CameraOffAtRest, appVars
<1>7. QED
  BY <1>2, <1>4, <1>5, <1>6 DEF KioskInv

\* A frame is asked for, for the current flow.
LEMMA ShotBeginsInv == ASSUME KioskInv, NEW c \in Captures, ShotBegins(c) PROVE KioskInv'
<1>1. /\ CaptureBegins(c) /\ flow # None
      /\ shooting' = [shooting EXCEPT ![c] = [flow |-> flow, lookbook |-> ui.screen = "lookbook"]]
      /\ UNCHANGED <<ui, flow, flows, refs, waiting, queue, vision, sessionVars, broken>>
  BY DEF ShotBegins
<1>2. /\ shooting' \in [Captures -> [flow : FlowOrNone, lookbook : BOOLEAN]]
      /\ shooting'[c].flow = flow /\ \A d \in Captures \ {c} : shooting'[d] = shooting[d]
  BY <1>1 DEF KioskInv, AppTypes
<1>3. /\ SourceInv' /\ capturing' = c /\ UNCHANGED <<camera, openTask>>
      /\ captures'[c].pc = "creating" /\ \A d \in Captures \ {c} : captures'[d] = captures[d]
  BY <1>1, CaptureBeginsInv DEF KioskInv, SourceInv, SourceTypeOK, CaptureBegins, cameraVars
<1>4. FlowsInv' /\ AppTypes' /\ EvidenceIsOwn'
  BY <1>1, <1>2, AppSame
<1>5. \A d \in Captures : ShotInv(d)'
  BY <1>1, <1>2, <1>3 DEF KioskInv, ShotInv
<1>6. CameraOffAtRest'
  BY <1>1, <1>3 DEF KioskInv, CameraOffAtRest
<1>7. QED
  BY <1>3, <1>4, <1>5, <1>6 DEF KioskInv

\* A frame is made, delivered or lost: only one that was not cancelled is delivered.
LEMMA ShotStepsInv == ASSUME KioskInv, NEW c \in Captures, ShotSteps(c) PROVE KioskInv'
<1>1. CaptureStep(c) /\ UNCHANGED appVars
  BY DEF ShotSteps, CaptureStep
<1>2. /\ SourceInv' /\ UNCHANGED <<camera, openTask>> /\ capturing' \in {capturing, None}
      /\ \A d \in Captures \ {c} : captures'[d] = captures[d]
      /\ captures'[c].pc = "delivered" => capturing = c
  <2>1. SourceInv'
    BY <1>1, CaptureStepInv DEF KioskInv
  <2>2. UNCHANGED <<camera, openTask>> /\ capturing' \in {capturing, None}
        /\ \A d \in Captures \ {c} : captures'[d] = captures[d]
    BY <1>1 DEF CaptureStep, FrameMade, CaptureFails, FrameConsumed, CaptureReturns, Unless,
       cameraVars, KioskInv, SourceInv, SourceTypeOK
  <2>3. captures'[c].pc = "delivered" => ~captures[c].cancelled /\ captures[c].pc = "consuming"
    BY <1>1 DEF CaptureStep, FrameMade, CaptureFails, FrameConsumed, CaptureReturns, KioskInv, SourceInv,
       SourceTypeOK
  <2>4. CaptureInv(c)
    BY DEF KioskInv, SourceInv
  <2>5. QED
    BY <2>1, <2>2, <2>3, <2>4 DEF CaptureInv
<1>3. FlowsInv' /\ AppTypes' /\ EvidenceIsOwn'
  BY <1>1, AppSame DEF appVars, KioskInv, AppTypes
<1>4. ASSUME NEW d \in Captures PROVE ShotInv(d)'
  <2>1. ShotInv(d) /\ UNCHANGED <<shooting, flow>>
    BY <1>1 DEF KioskInv, appVars
  <2>2. QED
    BY <1>2, <2>1, FrameSourceAssumption DEF ShotInv
<1>5. CameraOffAtRest'
  BY <1>1, <1>2 DEF KioskInv, CameraOffAtRest, appVars
<1>6. QED
  BY <1>2, <1>3, <1>4, <1>5 DEF KioskInv

\* The capture of the lookbook returns; its observations are kept.
LEMMA ShotReturnsInv == ASSUME KioskInv, NEW c \in Captures, ShotReturns(c) PROVE KioskInv'
<1> DEFINE f == shooting[c].flow
<1>1. /\ f \in Flows /\ captures[c].pc \in Shot
      /\ shooting' = [shooting EXCEPT ![c].flow = None]
      /\ evidence' = IF ShotCounts(c) THEN evidence \cup {f} ELSE evidence
      /\ \/ Stop /\ Set([ui EXCEPT !.camera = "error"])
         \/ UNCHANGED <<sourceVars, ui, broken>>
      /\ UNCHANGED <<flow, flows, refs, waiting, queue, vision, learned, discarded>>
  BY DEF ShotReturns, KioskInv, AppTypes, FlowOrNone
<1>2. /\ shooting' \in [Captures -> [flow : FlowOrNone, lookbook : BOOLEAN]]
      /\ shooting'[c].flow = None /\ \A d \in Captures \ {c} : shooting'[d] = shooting[d]
  BY <1>1 DEF KioskInv, AppTypes, FlowOrNone
<1>3. SameView /\ broken' = broken
  BY <1>1 DEF Set, SameView, KioskInv, AppTypes, UiType
<1>4. /\ SourceInv' /\ CameraOffAtRest' /\ capturing' \in {capturing, None}
      /\ \A d \in Captures : captures'[d].pc = captures[d].pc
  <2>1. CASE Stop
    BY <2>1, StopEffect
  <2>2. CASE UNCHANGED <<sourceVars, ui, broken>>
    BY <1>1, <2>2, SourceSame DEF KioskInv, CameraOffAtRest, sourceVars, cameraVars, captureVars
  <2>3. QED
    BY <1>1, <2>1, <2>2
<1>5. FlowsInv'
  BY <1>1, <1>3, FlowsKept DEF KioskInv
<1>6. evidence' \subseteq Flows /\ EvidenceIsOwn'
  <2>1. ShotCounts(c) => f = flow
    BY <1>1, NoneIsNoFlow DEF ShotCounts, KioskInv, ShotInv
  <2>2. QED
    BY <1>1, <2>1 DEF KioskInv, AppTypes, EvidenceIsOwn
<1>7. AppTypes'
  BY <1>1, <1>2, <1>3, <1>6 DEF KioskInv, AppTypes, SameView
<1>8. ASSUME NEW d \in Captures PROVE ShotInv(d)'
  <2>1. ShotInv(d) /\ ShotInv(c) /\ (capturing = c => captures[c].pc \in {"creating", "consuming"})
    BY DEF KioskInv, SourceInv, CaptureInv
  <2>2. QED
    BY <1>1, <1>2, <1>4, <2>1, FrameSourceAssumption DEF ShotInv, Shot
<1>9. QED
  BY <1>4, <1>5, <1>6, <1>7, <1>8 DEF KioskInv

\* The camera that was asked for again answers: its flow may be gone by then.
LEMMA RetryOpenedInv == ASSUME KioskInv, NEW o \in Opens, RetryOpened(o) PROVE KioskInv'
<1>1. /\ waiting' = [waiting EXCEPT ![o].flow = None]
      /\ \/ \E state \in {"ready", "error"} : Set([ui EXCEPT !.camera = state]) /\ UNCHANGED sourceVars
         \/ Stop /\ UNCHANGED <<ui, broken>>
         \/ UNCHANGED <<sourceVars, ui, broken>>
      /\ UNCHANGED <<flow, flows, refs, shooting, queue, vision, sessionVars>>
  BY DEF RetryOpened
<1>2. SameView /\ broken' = broken
  BY <1>1 DEF Set, SameView, KioskInv, AppTypes, UiType
<1>3. /\ waiting' \in [Opens -> [flow : FlowOrNone, why : {"none", "start", "retry"}]]
      /\ waiting'[o].flow = None /\ \A p \in Opens \ {o} : waiting'[p] = waiting[p]
  BY <1>1 DEF KioskInv, AppTypes, FlowOrNone
<1>4. /\ SourceInv' /\ CameraOffAtRest' /\ capturing' \in {capturing, None}
      /\ \A d \in Captures : captures'[d].pc = captures[d].pc
  <2>1. CASE Stop
    BY <2>1, StopEffect
  <2>2. CASE UNCHANGED sourceVars
    BY <1>1, <1>2, <2>2, SourceSame DEF KioskInv, CameraOffAtRest, SameView, sourceVars, cameraVars,
       captureVars
  <2>3. QED
    BY <1>1, <2>1, <2>2
<1>5. FlowsInv'
  <2>1. \A p \in Opens : waiting'[p].flow # None /\ waiting'[p].why = "start" => waiting'[p] = waiting[p]
    BY <1>3
  <2>2. QED
    BY <1>1, <1>2, <2>1, FlowsKept DEF KioskInv, sessionVars
<1>6. \A c \in Captures : ShotInv(c)'
  BY <1>1, <1>4, ShotsKept
<1>7. AppTypes' /\ EvidenceIsOwn'
  BY <1>1, <1>2, <1>3 DEF KioskInv, AppTypes, SameView, EvidenceIsOwn, sessionVars
<1>8. QED
  BY <1>4, <1>5, <1>6, <1>7 DEF KioskInv

-----------------------------------------------------------------------------
(* One flow goes on.                                                        *)

\* The other flows are where they were: what they have of the screen and of
\* the controllers is theirs.
LEMMA OthersKept ==
  ASSUME AppTypes, FlowsInv, NEW f \in Flows, NEW pc \in Places \ {"none"}, flows[f].pc # "none",
         flows' = Moved(f, pc), flow' = flow,
         flow # f => /\ SameView
                     /\ \A g \in Flows \ {f} : /\ refs.start = g => refs'.start = g
                                               /\ refs.rec = g => refs'.rec = g,
         ui.session # None => ui'.session = ui.session,
         learned' \subseteq learned \cup {f}, discarded \subseteq discarded'
  PROVE  /\ BegunInv'
         /\ \A g \in Flows \ {f} : FlowInv(g)' /\ SessionInv(g)'
<1>1. /\ Begun' = Begun /\ flows'[f].pc # "none"
      /\ \A g \in Flows \ {f} : flows'[g] = flows[g]
  BY MovedFlow DEF AppTypes
<1>2. BegunInv'
  BY <1>1 DEF FlowsInv, BegunInv
<1>3. ASSUME NEW g \in Flows \ {f} PROVE FlowInv(g)'
  <2>1. FlowInv(g) /\ flows'[g] = flows[g]
    BY <1>1 DEF FlowsInv
  <2>2. flow = g => OnScreen(g)'
    BY <2>1 DEF FlowInv, OnScreen, SameView
  <2>3. flows[g].pc \in Starting /\ ~flows[g].aborted => flow = g /\ refs'.start = g
    BY <2>1 DEF FlowInv
  <2>4. flows[g].pc \in Submitting /\ ~flows[g].aborted => flow = g /\ refs'.rec = g
    BY <2>1 DEF FlowInv
  <2>5. QED
    BY <2>1, <2>2, <2>3, <2>4 DEF FlowInv
<1>4. ASSUME NEW g \in Flows \ {f} PROVE SessionInv(g)'
  <2>1. SessionInv(g) /\ flows'[g] = flows[g]
    BY <1>1 DEF FlowsInv
  <2>2. QED
    BY <2>1, NoneIsNoFlow DEF SessionInv
<1>5. QED
  BY <1>2, <1>3, <1>4

\* A flow goes on: what is left to show is where it, its operation and, when
\* it is current, the screen are.
LEMMA GoesOn ==
  ASSUME AppTypes, FlowsInv, NEW f \in Flows, NEW pc \in Places \ {"none", "opening"},
         flows[f].pc # "none", flows' = Moved(f, pc), flow' = flow,
         flow # f => /\ SameView
                     /\ \A g \in Flows \ {f} : /\ refs.start = g => refs'.start = g
                                               /\ refs.rec = g => refs'.rec = g,
         ui.session # None => ui'.session = ui.session,
         learned' \subseteq learned \cup {f}, discarded \subseteq discarded',
         \A o \in Opens : /\ waiting'[o].flow # None => waiting'[o] = waiting[o]
                          /\ flows[f].pc = "opening" => ~(waiting'[o].why = "start" /\ waiting'[o].flow = f),
         FlowInv(f)', SessionInv(f)', flow = f => ScreenInv', QueueInv'
  PROVE  FlowsInv'
<1>1. BegunInv' /\ \A g \in Flows \ {f} : FlowInv(g)' /\ SessionInv(g)'
  BY OthersKept
<1>2. \A g \in Flows \ {f} : flows'[g] = flows[g]
  BY MovedFlow DEF AppTypes
<1>3. ScreenInv'
  <2>1. CASE flow # f
    <3>1. flow # None => flows'[flow] = flows[flow]
      BY <1>2, <2>1 DEF AppTypes, FlowOrNone
    <3>2. ScreenInv
      BY DEF FlowsInv
    <3>3. QED
      BY <2>1, <3>1, <3>2 DEF ScreenInv, SameView
  <2>2. QED
    BY <2>1
<1>4. ASSUME NEW o \in Opens PROVE WaitInv(o)'
  <2> SUFFICES ASSUME waiting'[o].why = "start", waiting'[o].flow # None
               PROVE  /\ flows'[waiting'[o].flow].pc = "opening"
                      /\ \A p \in Opens : waiting'[p].why = "start" /\ waiting'[p].flow = waiting'[o].flow => p = o
    BY DEF WaitInv
  <2>1. waiting'[o] = waiting[o] /\ WaitInv(o) /\ waiting[o].flow \in Flows
    BY DEF FlowsInv, AppTypes, FlowOrNone
  <2>2. waiting[o].flow # f
    BY <2>1 DEF WaitInv
  <2>3. QED
    BY <1>2, <2>1, <2>2 DEF WaitInv
<1>5. QED
  BY <1>1, <1>3, <1>4 DEF FlowsInv

\* Its operation is not queued: the queue stays, or its own is the last.
LEMMA QueueIdle ==
  ASSUME AppTypes, FlowsInv, NEW f \in Flows, NEW pc \in Places \ {"none"},
         flows[f].pc \notin {"none", "inferring", "stopping"}, flows' = Moved(f, pc),
         queue' = queue, vision' = vision
  PROVE  QueueInv'
<1>1. \A g \in Flows \ {f} : flows'[g] = flows[g]
  BY MovedFlow DEF AppTypes
<1>2. Begun' = Begun
  BY MovedFlow DEF AppTypes
<1>3. QueueOk(queue, vision, flows', Begun)
  BY <1>1, QueueMove DEF AppTypes, FlowsInv, QueueInv, BegunInv
<1>4. QED
  BY <1>2, <1>3 DEF QueueInv

\* An operation is queued by a flow that goes on to wait for it, or not.
LEMMA QueueGrows ==
  ASSUME AppTypes, FlowsInv, NEW f \in Flows, NEW pc \in Places \ {"none"},
         flows[f].pc \notin {"none", "inferring", "stopping"}, flows' = Moved(f, pc),
         NEW e \in VisionOps, e.flow = Begun, e.op \in {"start", "infer"} => Begun \in Flows,
         Awaited(e) => f = Begun /\ pc = (IF e.op = "infer" THEN "inferring" ELSE "stopping"),
         queue' = Append(queue, e), vision' = vision
  PROVE  queue' \in Seq(VisionOps) /\ QueueInv'
<1>1. flows'[f].pc = pc /\ \A g \in Flows \ {f} : flows'[g] = flows[g]
  BY MovedFlow DEF AppTypes
<1>2. Begun' = Begun
  BY MovedFlow DEF AppTypes
<1>3. /\ queue \in Seq(VisionOps) /\ vision \in FlowOrNone /\ Begun \in 0..MaxFlows
      /\ QueueOk(queue, vision, flows, Begun)
  BY DEF AppTypes, FlowsInv, QueueInv, BegunInv
<1>4. QueueOk(queue, vision, flows', Begun)
  BY <1>1, <1>3, QueueMove
<1>5. Awaited(e) => Awaits(e, flows') /\ \A i \in 1..Len(queue) : Awaited(queue[i]) => queue[i].flow # Begun
  BY <1>1, <1>3 DEF Awaits, QueueOk
<1>6. queue' \in Seq(VisionOps) /\ QueueOk(queue', vision, flows', Begun)
  BY <1>3, <1>4, <1>5, QueuePush
<1>7. QED
  BY <1>2, <1>6 DEF QueueInv

\* The operation at the head of the queue is done, and its flow goes on.
LEMMA QueueShrinks ==
  ASSUME AppTypes, FlowsInv, NEW f \in Flows, NEW pc \in Places \ {"none"}, flows[f].pc # "none",
         flows' = Moved(f, pc), queue # <<>>,
         flows[f].pc \in {"inferring", "stopping"} => Awaited(Head(queue)) /\ Head(queue).flow = f,
         queue' = Tail(queue), vision' \in FlowOrNone, vision' \in {vision, None, Head(queue).flow}
  PROVE  queue' \in Seq(VisionOps) /\ QueueInv'
<1>1. \A g \in Flows \ {f} : flows'[g] = flows[g]
  BY MovedFlow DEF AppTypes
<1>2. Begun' = Begun
  BY MovedFlow DEF AppTypes
<1>3. /\ queue \in Seq(VisionOps) /\ vision \in FlowOrNone /\ Begun \in 0..MaxFlows
      /\ QueueOk(queue, vision, flows, Begun)
  BY DEF AppTypes, FlowsInv, QueueInv, BegunInv
<1>4. queue' \in Seq(VisionOps) /\ QueueOk(queue', vision', flows', Begun)
  BY <1>1, <1>3, QueuePop
<1>5. QED
  BY <1>2, <1>4 DEF QueueInv

-----------------------------------------------------------------------------
(* A start.                                                                 *)

\* A start that fails, is aborted or times out, at any of its awaits: it takes
\* its session along, and a stop is queued when nothing has begun since.
LEMMA StartFailsInv ==
  ASSUME KioskInv, NEW f \in Flows, NEW cam \in {"idle", "error"}, flows[f].pc \in Starting,
         NEW q \in Seq(VisionOps), QueueOk(q, vision, flows, Begun), StartFails(f, cam, q),
         vision' = vision,
         waiting' \in [Opens -> [flow : FlowOrNone, why : {"none", "start", "retry"}]],
         \A o \in Opens : /\ waiting'[o].flow # None => waiting'[o] = waiting[o]
                          /\ flows[f].pc = "opening" => ~(waiting'[o].why = "start" /\ waiting'[o].flow = f)
  PROVE  KioskInv'
<1>1. /\ Stop /\ discarded' = IF f \in learned THEN discarded \cup {f} ELSE discarded
      /\ queue' = IF flow = f THEN Append(q, Vision("stop", Begun, "start")) ELSE q
      /\ refs' = [refs EXCEPT !.start = Unless(@, f)] /\ flows' = Moved(f, "over")
      /\ flow # f => ui' = ui
      /\ flow = f => ui' = [[ui EXCEPT !.camera = cam, !.issue = "start"] EXCEPT !.starting = FALSE]
      /\ UNCHANGED <<flow, shooting, learned, evidence, broken>>
  BY DEF StartFails, StartEnds, Set, RunSerialized
<1>2. /\ ui' \in UiType /\ ui'.screen = ui.screen /\ ui'.session = ui.session
      /\ ui'.shown = ui.shown /\ ui'.analysis = ui.analysis
      /\ flow # f => SameView
  BY <1>1 DEF KioskInv, AppTypes, UiType, SameView
<1>3. /\ refs' \in [start : FlowOrNone, rec : FlowOrNone] /\ refs'.rec = refs.rec
      /\ \A g \in Flows \ {f} : refs.start = g => refs'.start = g
  BY <1>1 DEF KioskInv, AppTypes, FlowOrNone, Unless
<1>4. /\ flows' \in FlowsType /\ flows'[f].pc = "over" /\ Begun' = Begun
      /\ \A g \in Flows \ {f} : flows'[g] = flows[g]
  BY <1>1, MovedFlow DEF KioskInv, AppTypes, Places, Starting
<1>5. queue' \in Seq(VisionOps) /\ QueueInv'
  <2>1. Begun \in 0..MaxFlows /\ vision \in FlowOrNone
    BY DEF KioskInv, AppTypes, FlowsInv, BegunInv
  <2>2. QueueOk(q, vision, flows', Begun)
    BY <1>4, <2>1, QueueMove DEF Starting
  <2>3. /\ Vision("stop", Begun, "start") \in VisionOps /\ Vision("stop", Begun, "start").flow = Begun
        /\ ~Awaited(Vision("stop", Begun, "start"))
        /\ Vision("stop", Begun, "start").op \notin {"start", "infer"}
    BY <2>1 DEF Vision, VisionOps, Awaited
  <2>4. queue' \in Seq(VisionOps) /\ QueueOk(queue', vision, flows', Begun)
    BY <1>1, <2>1, <2>2, <2>3, QueuePush
  <2>5. QED
    BY <1>4, <2>4 DEF QueueInv
<1>6. FlowInv(f)' /\ SessionInv(f)'
  BY <1>1, <1>4 DEF FlowInv, OnScreen, SessionInv, Starting, Submitting, WithSession
<1>7. flow = f => ScreenInv'
  <2> SUFFICES ASSUME flow = f PROVE ScreenInv'
    OBVIOUS
  <2>1. ui.screen = "consent" /\ ScreenInv
    BY DEF KioskInv, FlowsInv, FlowInv, OnScreen
  <2>2. QED
    BY <1>1, <1>2, <2>1 DEF ScreenInv
<1>8. FlowsInv'
  <2>1. "over" \in Places \ {"none", "opening"} /\ flows[f].pc # "none"
    BY DEF Places, Starting
  <2>2. learned' \subseteq learned \cup {f} /\ discarded \subseteq discarded'
    BY <1>1
  <2>3. flow # f => /\ SameView
                    /\ \A g \in Flows \ {f} : /\ refs.start = g => refs'.start = g
                                              /\ refs.rec = g => refs'.rec = g
    BY <1>2, <1>3
  <2>4. QED
    BY <1>1, <1>2, <1>5, <1>6, <1>7, <2>1, <2>2, <2>3, GoesOn DEF KioskInv
<1>9. SourceInv' /\ CameraOffAtRest' /\ capturing' = None
      /\ \A c \in Captures : captures'[c].pc = captures[c].pc
  BY <1>1, StopEffect
<1>10. \A c \in Captures : ShotInv(c)'
  BY <1>1, <1>9, ShotsKept
<1>11. AppTypes' /\ EvidenceIsOwn'
  BY <1>1, <1>2, <1>3, <1>4, <1>5 DEF KioskInv, AppTypes, EvidenceIsOwn
<1>12. QED
  BY <1>8, <1>9, <1>10, <1>11 DEF KioskInv

\* The time of a start is over.
LEMMA StartTimesOutInv == ASSUME KioskInv, NEW f \in Flows, StartTimesOut(f) PROVE KioskInv'
<1>1. StartFails(f, "idle", queue) /\ UNCHANGED <<waiting, vision>> /\ flows[f].pc \in Starting
  BY DEF StartTimesOut, Starting
<1>2. queue \in Seq(VisionOps) /\ QueueOk(queue, vision, flows, Begun)
      /\ waiting' \in [Opens -> [flow : FlowOrNone, why : {"none", "start", "retry"}]]
  BY <1>1 DEF KioskInv, AppTypes, FlowsInv, QueueInv
<1>3. QED
  BY <1>1, <1>2, StartFailsInv DEF StartTimesOut

\* A start that was given up ends.
LEMMA StartAbortedInv == ASSUME KioskInv, NEW f \in Flows, StartAborted(f) PROVE KioskInv'
<1>1. StartFails(f, "idle", queue) /\ UNCHANGED <<waiting, vision>> /\ flows[f].pc \in Starting
  BY DEF StartAborted, Starting
<1>2. queue \in Seq(VisionOps) /\ QueueOk(queue, vision, flows, Begun)
      /\ waiting' \in [Opens -> [flow : FlowOrNone, why : {"none", "start", "retry"}]]
  BY <1>1 DEF KioskInv, AppTypes, FlowsInv, QueueInv
<1>3. QED
  BY <1>1, <1>2, StartFailsInv DEF StartAborted

\* The stream of a start: for another flow it is stopped, its own goes on.
LEMMA StartOpenedInv ==
  ASSUME KioskInv, NEW f \in Flows, NEW o \in Opens, StartOpened(f, o)
  PROVE  KioskInv'
<1>1. /\ waiting[o].why = "start" /\ waiting[o].flow = f
      /\ waiting' = [waiting EXCEPT ![o].flow = None] /\ vision' = vision
  BY DEF StartOpened
<1>2. /\ waiting' \in [Opens -> [flow : FlowOrNone, why : {"none", "start", "retry"}]]
      /\ waiting'[o].flow = None /\ \A p \in Opens \ {o} : waiting'[p] = waiting[p]
  BY <1>1 DEF KioskInv, AppTypes, FlowOrNone
<1>3. flows[f].pc = "opening" /\ \A p \in Opens : waiting[p].why = "start" /\ waiting[p].flow = f => p = o
  BY <1>1, NoneIsNoFlow DEF KioskInv, FlowsInv, WaitInv
<1>4. \A p \in Opens : /\ waiting'[p].flow # None => waiting'[p] = waiting[p]
                       /\ ~(waiting'[p].why = "start" /\ waiting'[p].flow = f)
  BY <1>2, <1>3, NoneIsNoFlow
<1>5. queue \in Seq(VisionOps) /\ QueueOk(queue, vision, flows, Begun)
  BY DEF KioskInv, AppTypes, FlowsInv, QueueInv
<1>6. CASE StartFails(f, "error", queue)
  BY <1>1, <1>2, <1>3, <1>4, <1>5, <1>6, StartFailsInv DEF Starting
<1>7. CASE /\ flow = f /\ Set([ui EXCEPT !.camera = "ready"]) /\ flows' = Moved(f, "creating")
           /\ UNCHANGED <<sourceVars, flow, refs, shooting, queue, sessionVars>>
  <2>1. SameView /\ broken' = broken
    BY <1>7 DEF Set, SameView, KioskInv, AppTypes, UiType
  <2>2. /\ flows' \in FlowsType /\ flows'[f].pc = "creating"
        /\ flows[f].aborted => flows'[f].aborted
    BY <1>3, <1>7, MovedFlow DEF KioskInv, AppTypes, Places
  <2>3. QueueInv'
    BY <1>1, <1>3, <1>7, QueueIdle DEF KioskInv, Places
  <2>4. FlowInv(f)' /\ SessionInv(f)'
    <3>1. FlowInv(f) /\ SessionInv(f)
      BY DEF KioskInv, FlowsInv
    <3>2. QED
      BY <1>3, <1>7, <2>1, <2>2, <3>1 DEF FlowInv, OnScreen, SessionInv, Starting, Submitting,
         WithSession, SameView, sessionVars
  <2>5. ScreenInv'
    <3>1. ScreenInv /\ ui.screen = "consent"
      BY <1>3, <1>7 DEF KioskInv, FlowsInv, FlowInv, OnScreen, Starting
    <3>2. QED
      BY <1>7, <2>1, <3>1 DEF ScreenInv, SameView
  <2>6. FlowsInv'
    <3>1. "creating" \in Places \ {"none", "opening"}
      BY DEF Places
    <3>2. learned' \subseteq learned \cup {f} /\ discarded \subseteq discarded' /\ ui'.session = ui.session
      BY <1>7, <2>1 DEF sessionVars, SameView
    <3>3. QED
      BY <1>3, <1>4, <1>7, <2>3, <2>4, <2>5, <3>1, <3>2, GoesOn DEF KioskInv
  <2>7. SourceInv' /\ CameraOffAtRest' /\ capturing' = capturing /\ captures' = captures
    BY <1>7, <2>1, SourceSame DEF KioskInv, CameraOffAtRest, SameView, sourceVars, cameraVars, captureVars
  <2>8. \A c \in Captures : ShotInv(c)'
    BY <1>7, <2>7, ShotsKept
  <2>9. AppTypes' /\ EvidenceIsOwn'
    BY <1>1, <1>2, <1>7, <2>1, <2>2 DEF KioskInv, AppTypes, EvidenceIsOwn, SameView, sessionVars
  <2>10. QED
    BY <2>6, <2>7, <2>8, <2>9 DEF KioskInv
<1>8. CASE /\ flow # f /\ Stop /\ StartEnds(f, ui, "over")
           /\ UNCHANGED <<flow, shooting, queue, sessionVars>>
  <2>1. /\ ui' = ui /\ broken' = broken /\ SameView
        /\ refs' = [refs EXCEPT !.start = Unless(@, f)] /\ flows' = Moved(f, "over")
    BY <1>8 DEF StartEnds, Set, SameView, KioskInv, AppTypes
  <2>2. /\ refs' \in [start : FlowOrNone, rec : FlowOrNone] /\ refs'.rec = refs.rec
        /\ \A g \in Flows \ {f} : refs.start = g => refs'.start = g
    BY <2>1 DEF KioskInv, AppTypes, FlowOrNone, Unless
  <2>3. flows' \in FlowsType /\ flows'[f].pc = "over"
    BY <1>3, <2>1, MovedFlow DEF KioskInv, AppTypes, Places
  <2>4. QueueInv'
    BY <1>1, <1>3, <1>8, <2>1, QueueIdle DEF KioskInv, Places
  <2>5. FlowInv(f)' /\ SessionInv(f)'
    <3>1. SessionInv(f)
      BY DEF KioskInv, FlowsInv
    <3>2. QED
      BY <1>3, <1>8, <2>3, <3>1 DEF FlowInv, SessionInv, Starting, Submitting, sessionVars
  <2>6. FlowsInv'
    <3>1. "over" \in Places \ {"none", "opening"}
      BY DEF Places
    <3>2. learned' \subseteq learned \cup {f} /\ discarded \subseteq discarded'
      BY <1>8 DEF sessionVars
    <3>3. QED
      BY <1>3, <1>4, <1>8, <2>1, <2>2, <2>4, <2>5, <3>1, <3>2, GoesOn DEF KioskInv
  <2>7. SourceInv' /\ CameraOffAtRest' /\ capturing' = None
        /\ \A c \in Captures : captures'[c].pc = captures[c].pc
    BY <1>8, StopEffect
  <2>8. \A c \in Captures : ShotInv(c)'
    BY <1>8, <2>7, ShotsKept
  <2>9. AppTypes' /\ EvidenceIsOwn'
    BY <1>1, <1>2, <1>8, <2>1, <2>2, <2>3 DEF KioskInv, AppTypes, EvidenceIsOwn, sessionVars
  <2>10. QED
    BY <2>6, <2>7, <2>8, <2>9 DEF KioskInv
<1>9. QED
  BY <1>6, <1>7, <1>8 DEF StartOpened

\* A flow begins: nothing of the one before it is at work any more.
LEMMA BeginInv == ASSUME KioskInv, NEW f \in Flows, Begin(f) PROVE KioskInv'
<1>1. PICK o \in Opens : OpenBegins(o) /\ waiting' = [waiting EXCEPT ![o] = [flow |-> f, why |-> "start"]]
  BY DEF Begin
<1>2. /\ Quiet /\ f = Begun + 1 /\ ui.screen = "consent" /\ ~ui.starting /\ refs.start = None
      /\ flow' = f /\ flows' = Moved(f, "opening")
      /\ refs' = [refs EXCEPT !.start = f] /\ queue' = Outdated(queue)
      /\ Set([ui EXCEPT !.starting = TRUE, !.issue = "none", !.camera = "requesting", !.analysis = "idle"])
      /\ evidence' = {}
      /\ UNCHANGED <<shooting, vision, learned, discarded>>
  BY DEF Begin
<1>3. /\ ui' \in UiType /\ broken' = broken /\ ui'.screen = "consent" /\ ui'.starting
      /\ ui'.session = ui.session /\ ui'.analysis = "idle"
  BY <1>2 DEF Set, KioskInv, AppTypes, UiType
<1>4. /\ waiting' \in [Opens -> [flow : FlowOrNone, why : {"none", "start", "retry"}]]
      /\ waiting'[o].flow = f /\ \A p \in Opens \ {o} : waiting'[p] = waiting[p]
  BY <1>1 DEF KioskInv, AppTypes, FlowOrNone
<1>5. Begun \in 0..MaxFlows /\ flows[f].pc = "none"
      /\ \A g \in Flows : flows[g].pc # "none" <=> g <= Begun
  BY <1>2 DEF KioskInv, FlowsInv, BegunInv, Flows
<1>6. /\ flows' \in FlowsType /\ flows'[f].pc = "opening"
      /\ \A g \in Flows \ {f} : flows'[g] = flows[g]
  BY <1>2 DEF Moved, FlowsType, KioskInv, AppTypes, Places
<1>7. Begun' = f
  <2>1. f \in 0..MaxFlows /\ \A g \in Flows : flows'[g].pc # "none" <=> g <= f
    BY <1>2, <1>5, <1>6, KioskAssumption DEF Flows
  <2>2. QED
    BY <2>1, BegunNext
<1>8. BegunInv'
  <2>1. f \in 0..MaxFlows /\ \A g \in Flows : flows'[g].pc # "none" <=> g <= f
    BY <1>2, <1>5, <1>6, KioskAssumption DEF Flows
  <2>2. QED
    BY <1>2, <1>7, <2>1 DEF BegunInv
<1>9. queue' \in Seq(VisionOps) /\ QueueInv'
  <2>1. queue \in Seq(VisionOps) /\ vision \in FlowOrNone /\ QueueOk(queue, vision, flows, Begun)
    BY DEF KioskInv, AppTypes, FlowsInv, QueueInv
  <2>2. queue' \in Seq(VisionOps) /\ QueueOk(queue', vision, flows, Begun)
    BY <1>2, <1>5, <2>1, QueueOutdated
  <2>3. QueueOk(queue', vision, flows', Begun)
    BY <1>5, <1>6, <2>1, <2>2, QueueMove
  <2>4. QueueOk(queue', vision, flows', f)
    BY <1>2, <1>5, <2>1, <2>2, <2>3, QueueLater
  <2>5. QED
    BY <1>2, <1>7, <2>2, <2>4 DEF QueueInv
<1>10. ScreenInv'
  BY <1>2, <1>3 DEF ScreenInv, KioskInv, FlowsInv
<1>11. ASSUME NEW g \in Flows PROVE FlowInv(g)'
  <2>1. CASE g = f
    BY <1>2, <1>3, <1>6, <2>1 DEF FlowInv, OnScreen, Starting, Submitting, WithSession, KioskInv, AppTypes
  <2>2. CASE g # f
    <3>1. FlowInv(g) /\ flows'[g] = flows[g]
      BY <1>6, <2>2 DEF KioskInv, FlowsInv
    <3>2. QED
      BY <1>2, <2>2, <3>1, NoneIsNoFlow DEF FlowInv, OnScreen, Submitting
  <2>3. QED
    BY <2>1, <2>2
<1>12. ASSUME NEW g \in Flows PROVE SessionInv(g)'
  <2>1. SessionInv(g)
    BY DEF KioskInv, FlowsInv
  <2>2. QED
    BY <1>2, <1>3, <1>5, <1>6, <2>1 DEF SessionInv
<1>13. ASSUME NEW p \in Opens PROVE WaitInv(p)'
  <2>1. \A r \in Opens : waiting[r].why = "start" /\ waiting[r].flow # None =>
           waiting[r].flow \in Flows \ {f} /\ flows'[waiting[r].flow].pc = "opening"
    BY <1>5, <1>6 DEF KioskInv, FlowsInv, WaitInv, AppTypes, FlowOrNone
  <2>2. WaitInv(p)
    BY DEF KioskInv, FlowsInv
  <2>3. QED
    BY <1>4, <1>6, <2>1, <2>2, NoneIsNoFlow DEF WaitInv
<1>14. SourceInv' /\ capturing' = None /\ captures' = captures
  BY <1>1, OpenBeginsInv, FrameSourceAssumption
     DEF KioskInv, SourceInv, SourceTypeOK, CaptureInv, OpenBegins, captureVars
<1>15. ASSUME NEW c \in Captures PROVE ShotInv(c)'
  BY <1>2, <1>14, FrameSourceAssumption DEF ShotInv, Quiet, Shot
<1>16. CameraOffAtRest' /\ EvidenceIsOwn'
  BY <1>2, <1>3, NoneIsNoFlow DEF CameraOffAtRest, EvidenceIsOwn
<1>17. AppTypes'
  BY <1>2, <1>3, <1>4, <1>6, <1>9 DEF KioskInv, AppTypes, FlowOrNone
<1>18. QED
  BY <1>8, <1>9, <1>10, <1>11, <1>12, <1>13, <1>14, <1>15, <1>16, <1>17 DEF KioskInv, FlowsInv

\* The session is created, and to be joined.
LEMMA CreateAnswersInv == ASSUME KioskInv, NEW f \in Flows, CreateAnswers(f) PROVE KioskInv'
<1>1. /\ Quiet /\ flows[f].pc = "creating" /\ UNCHANGED <<waiting, vision>>
      /\ queue \in Seq(VisionOps) /\ QueueOk(queue, vision, flows, Begun)
      /\ waiting' \in [Opens -> [flow : FlowOrNone, why : {"none", "start", "retry"}]]
  BY DEF CreateAnswers, KioskInv, AppTypes, FlowsInv, QueueInv
<1>2. CASE StartFails(f, "idle", queue)
  BY <1>1, <1>2, StartFailsInv DEF Starting
<1>3. CASE /\ learned' = learned \cup {f} /\ flows' = Moved(f, "joining")
           /\ queue' = RunSerialized(queue, Vision("start", f, "start"))
           /\ UNCHANGED <<sourceVars, ui, flow, refs, shooting, discarded, evidence, broken>>
  <2>1. FlowInv(f) /\ ~flows[f].aborted /\ flow = f /\ f = Begun /\ Begun \in Flows
    <3>1. FlowInv(f) /\ ~flows[f].aborted
      BY <1>1 DEF KioskInv, FlowsInv, Quiet, Abortable
    <3>2. QED
      BY <1>1, <3>1, NoneIsNoFlow DEF FlowInv, Starting, KioskInv, FlowsInv, BegunInv
  <2>2. /\ flows' \in FlowsType /\ flows'[f].pc = "joining"
        /\ flows[f].aborted => flows'[f].aborted
    BY <1>1, <1>3, MovedFlow DEF KioskInv, AppTypes, Places
  <2>3. queue' \in Seq(VisionOps) /\ QueueInv'
    <3>1. Vision("start", f, "start") \in VisionOps /\ Vision("start", f, "start").flow = Begun
          /\ ~Awaited(Vision("start", f, "start"))
      BY <2>1, KioskAssumption DEF Vision, VisionOps, Awaited, Flows
    <3>2. "joining" \in Places \ {"none"} /\ flows[f].pc \notin {"none", "inferring", "stopping"}
      BY <1>1 DEF Places
    <3>3. QED
      BY <1>1, <1>3, <2>1, <3>1, <3>2, QueueGrows DEF KioskInv, RunSerialized
  <2>4. FlowInv(f)' /\ SessionInv(f)'
    BY <1>1, <1>3, <2>1, <2>2 DEF FlowInv, OnScreen, SessionInv, Starting, Submitting, WithSession
  <2>5. ScreenInv'
    <3>1. ScreenInv /\ ui.screen = "consent"
      BY <1>1, <2>1 DEF KioskInv, FlowsInv, FlowInv, OnScreen, Starting
    <3>2. QED
      BY <1>3, <3>1 DEF ScreenInv
  <2>6. FlowsInv'
    <3>1. "joining" \in Places \ {"none", "opening"}
      BY DEF Places
    <3>2. QED
      BY <1>1, <1>3, <2>1, <2>3, <2>4, <2>5, <3>1, GoesOn DEF KioskInv
  <2>7. SourceInv' /\ CameraOffAtRest' /\ capturing' = capturing /\ captures' = captures
    BY <1>3, SourceSame DEF KioskInv, CameraOffAtRest, sourceVars, cameraVars, captureVars
  <2>8. \A c \in Captures : ShotInv(c)'
    BY <1>3, <2>7, ShotsKept
  <2>9. AppTypes' /\ EvidenceIsOwn'
    BY <1>1, <1>3, <2>2, <2>3 DEF KioskInv, AppTypes, EvidenceIsOwn
  <2>10. QED
    BY <2>6, <2>7, <2>8, <2>9 DEF KioskInv
<1>4. QED
  BY <1>2, <1>3 DEF CreateAnswers

\* The head of the queue is an operation, and the queue without it is one too.
LEMMA HeadOfQueue ==
  ASSUME KioskInv, queue # <<>>
  PROVE  /\ Head(queue) \in VisionOps
         /\ Head(queue).op \in {"start", "infer"} => Head(queue).flow \in Flows
         /\ Awaited(Head(queue)) => Awaits(Head(queue), flows)
         /\ vision # None => vision <= Head(queue).flow
         /\ Tail(queue) \in Seq(VisionOps)
         /\ QueueOk(Tail(queue), vision, flows, Begun)
<1>1. /\ Begun \in 0..MaxFlows /\ queue \in Seq(VisionOps) /\ vision \in FlowOrNone
      /\ QueueOk(queue, vision, flows, Begun)
  BY DEF KioskInv, AppTypes, FlowsInv, BegunInv, QueueInv
<1>2. 1 \in 1..Len(queue) /\ Head(queue) = queue[1] /\ Head(queue) \in VisionOps
  BY <1>1
<1>3. Tail(queue) \in Seq(VisionOps) /\ QueueOk(Tail(queue), vision, flows, Begun)
  BY <1>1, QueuePop
<1>4. QED
  BY <1>1, <1>2, <1>3 DEF QueueOk

\* The Vision session is joined by the flow that still wants it; else the start
\* fails, or has failed.
LEMMA VisionStartsInv == ASSUME KioskInv, VisionStarts PROVE KioskInv'
<1>1. /\ Quiet /\ queue # <<>> /\ Head(queue).op = "start" /\ waiting' = waiting
      /\ waiting' \in [Opens -> [flow : FlowOrNone, why : {"none", "start", "retry"}]]
  BY DEF VisionStarts, KioskInv, AppTypes
<1> PICK f \in Flows : f = Head(queue).flow
  BY <1>1, HeadOfQueue
<1>2. /\ f \in Flows /\ ~Awaited(Head(queue)) /\ Tail(queue) \in Seq(VisionOps)
      /\ QueueOk(Tail(queue), vision, flows, Begun)
  BY <1>1, HeadOfQueue DEF Awaited
<1>3. CASE flows[f].pc = "joining" /\ StartFails(f, "idle", Tail(queue)) /\ vision' = vision
  BY <1>1, <1>2, <1>3, StartFailsInv DEF Starting
<1>4. CASE /\ queue' = Tail(queue) /\ vision' = vision
           /\ UNCHANGED <<sourceVars, ui, flow, flows, refs, shooting, sessionVars, broken>>
  <2>1. QueueInv'
    <3>1. Begun' = Begun
      BY <1>4, BegunKept
    <3>2. QED
      BY <1>2, <1>4, <3>1 DEF QueueInv
  <2>2. SameView
    BY <1>4 DEF SameView, KioskInv, AppTypes
  <2>3. FlowsInv'
    BY <1>1, <1>4, <2>1, <2>2, ViewKept DEF KioskInv, sessionVars
  <2>4. SourceInv' /\ CameraOffAtRest' /\ capturing' = capturing /\ captures' = captures
    BY <1>4, SourceSame DEF KioskInv, CameraOffAtRest, sourceVars, cameraVars, captureVars
  <2>5. \A c \in Captures : ShotInv(c)'
    BY <1>4, <2>4, ShotsKept
  <2>6. AppTypes' /\ EvidenceIsOwn'
    BY <1>1, <1>2, <1>4 DEF KioskInv, AppTypes, EvidenceIsOwn, sessionVars
  <2>7. QED
    BY <2>3, <2>4, <2>5, <2>6 DEF KioskInv
<1>5. CASE /\ flows[f].pc = "joining" /\ vision = None
           /\ vision' = f /\ queue' = Tail(queue)
           /\ refs' = [refs EXCEPT !.start = Unless(@, f)]
           /\ IF flow = f
              THEN /\ flows' = Moved(f, "ready")
                   /\ Send([ui EXCEPT !.session = f, !.starting = FALSE], "AGREE")
              ELSE flows' = Moved(f, "over") /\ UNCHANGED <<ui, broken>>
           /\ UNCHANGED <<sourceVars, flow, shooting, sessionVars>>
  <2> DEFINE u == [ui EXCEPT !.session = f, !.starting = FALSE]
  <2>1. FlowInv(f) /\ flow = f /\ ui.screen = "consent" /\ ui.session = None
    <3>1. FlowInv(f) /\ ~flows[f].aborted
      BY <1>1, <1>2, <1>5 DEF KioskInv, FlowsInv, Quiet, Abortable
    <3>2. flow = f /\ ui.screen = "consent"
      BY <1>5, <3>1 DEF FlowInv, OnScreen, Starting
    <3>3. QED
      BY <3>1, <3>2 DEF KioskInv, FlowsInv, ScreenInv
  <2>2. u \in UiType /\ u.screen = "consent" /\ u.session = f /\ u.analysis = ui.analysis
    BY <1>2, <2>1 DEF KioskInv, AppTypes, UiType, FlowOrNone
  <2>3. <<u.screen, "AGREE", "calibration">> \in Goes
    BY <2>2 DEF Goes
  <2>4. Send(u, "AGREE") /\ flows' = Moved(f, "ready")
    BY <1>5, <2>1
  <2> HIDE DEF u
  <2>5. ui' = [u EXCEPT !.screen = "calibration"] /\ broken' = broken
    BY <2>3, <2>4, SendGoes
  <2>6. ui' \in UiType /\ ui'.screen = "calibration" /\ ui'.session = f /\ ui'.analysis = ui.analysis
    BY <2>2, <2>5 DEF UiType, Screens
  <2>7. flows' \in FlowsType /\ flows'[f].pc = "ready"
    BY <1>2, <1>5, <2>4, MovedFlow DEF KioskInv, AppTypes, Places
  <2>8. queue' \in Seq(VisionOps) /\ QueueInv'
    <3>1. "ready" \in Places \ {"none"} /\ flows[f].pc \notin {"none", "inferring", "stopping"}
      BY <1>5 DEF Places
    <3>2. vision' \in FlowOrNone /\ vision' \in {vision, None, Head(queue).flow}
      BY <1>2, <1>5 DEF FlowOrNone
    <3>3. QED
      BY <1>1, <1>2, <1>5, <2>4, <3>1, <3>2, QueueShrinks DEF KioskInv
  <2>9. FlowInv(f)' /\ SessionInv(f)' /\ ScreenInv'
    <3>1. FlowInv(f)'
      BY <1>5, <2>6, <2>7 DEF FlowInv, OnScreen, Starting, Submitting, WithSession
    <3>2. SessionInv(f)'
      BY <2>6, <2>7 DEF SessionInv
    <3>3. ScreenInv'
      BY <1>2, <1>5, <2>1, <2>6, NoneIsNoFlow DEF ScreenInv, KioskInv, FlowsInv
    <3>4. QED
      BY <3>1, <3>2, <3>3
  <2>10. FlowsInv'
    <3>1. "ready" \in Places \ {"none", "opening"} /\ flows[f].pc \notin {"none", "opening"}
      BY <1>5 DEF Places
    <3>2. UNCHANGED <<flow, learned, discarded>>
      BY <1>5 DEF sessionVars
    <3>3. QED
      BY <1>1, <1>2, <2>1, <2>4, <2>8, <2>9, <3>1, <3>2, GoesOn DEF KioskInv
  <2>11. SourceInv' /\ capturing' = capturing /\ captures' = captures
    BY <1>5, SourceSame DEF KioskInv, sourceVars, captureVars
  <2>12. \A c \in Captures : ShotInv(c)'
    BY <1>5, <2>11, ShotsKept
  <2>13. CameraOffAtRest'
    BY <1>2, <1>5, <2>1, <2>6, NoneIsNoFlow DEF CameraOffAtRest
  <2>14. AppTypes' /\ EvidenceIsOwn'
    BY <1>1, <1>2, <1>5, <2>5, <2>6, <2>7, <2>8
       DEF KioskInv, AppTypes, FlowOrNone, Unless, EvidenceIsOwn, sessionVars
  <2>15. QED
    BY <2>10, <2>11, <2>12, <2>13, <2>14 DEF KioskInv
<1>6. QED
  BY <1>3, <1>4, <1>5 DEF VisionStarts

-----------------------------------------------------------------------------
(* After the start.                                                         *)

\* A flow that has its session goes on.
LEMMA StepInv ==
  ASSUME KioskInv, NEW f \in Flows, NEW pc \in Places \ ({"none"} \cup Starting),
         flows[f].pc \notin {"none", "shown"} \cup Starting, flows' = Moved(f, pc),
         UNCHANGED <<flow, waiting, shooting, learned, broken>>,
         ui' \in UiType, refs' \in [start : FlowOrNone, rec : FlowOrNone],
         flow # f => /\ SameView
                     /\ \A g \in Flows \ {f} : /\ refs.start = g => refs'.start = g
                                               /\ refs.rec = g => refs'.rec = g,
         ui'.session = ui.session, discarded \subseteq discarded', discarded' \subseteq Flows,
         evidence' \subseteq evidence,
         queue' \in Seq(VisionOps), vision' \in FlowOrNone, QueueInv',
         pc \in Submitting /\ ~flows'[f].aborted => flow = f /\ refs'.rec = f,
         flow = f => OnScreen(f)' /\ ScreenInv',
         Stop \/ (UNCHANGED sourceVars /\ CameraOffAtRest')
  PROVE  KioskInv'
<1>1. flows' \in FlowsType /\ flows'[f].pc = pc
  BY MovedFlow DEF KioskInv, AppTypes
<1>2. FlowInv(f)'
  BY <1>1 DEF FlowInv
<1>3. SessionInv(f)'
  <2>1. SessionInv(f)
    BY DEF KioskInv, FlowsInv
  <2>2. QED
    BY <1>1, <2>1 DEF SessionInv, Starting
<1>4. FlowsInv'
  <2>1. pc \in Places \ {"none", "opening"} /\ flows[f].pc \notin {"none", "opening"}
    BY DEF Starting
  <2>2. QED
    BY <1>2, <1>3, <2>1, GoesOn DEF KioskInv
<1>5. /\ SourceInv' /\ CameraOffAtRest' /\ capturing' \in {capturing, None}
      /\ \A c \in Captures : captures'[c].pc = captures[c].pc
  BY StopEffect, SourceSame DEF KioskInv, sourceVars, captureVars
<1>6. \A c \in Captures : ShotInv(c)'
  BY <1>5, ShotsKept
<1>7. AppTypes' /\ EvidenceIsOwn'
  BY <1>1 DEF KioskInv, AppTypes, EvidenceIsOwn
<1>8. QED
  BY <1>4, <1>5, <1>6, <1>7 DEF KioskInv

\* The queue has reached the calibration of a flow.
LEMMA CalibrationBeginsInv == ASSUME KioskInv, NEW f \in Flows, CalibrationBegins(f) PROVE KioskInv'
<1>1. /\ ui.screen = "calibration" /\ flow = f /\ flows[f].pc = "ready"
      /\ flows' = Moved(f, "calibrating")
      /\ UNCHANGED <<sourceVars, ui, flow, refs, waiting, shooting, queue, vision, sessionVars, broken>>
  BY DEF CalibrationBegins
<1>2. flows'[f].pc = "calibrating" /\ QueueInv' /\ queue' \in Seq(VisionOps) /\ vision' \in FlowOrNone
  BY <1>1, MovedFlow, QueueIdle DEF KioskInv, AppTypes, Places
<1>3. OnScreen(f)'
  BY <1>1, <1>2 DEF OnScreen, Starting, Submitting, WithSession, KioskInv, FlowsInv, FlowInv
<1>4. ScreenInv' /\ CameraOffAtRest'
  BY <1>1 DEF ScreenInv, CameraOffAtRest, KioskInv, FlowsInv, sourceVars, cameraVars
<1>5. QED
  BY <1>1, <1>2, <1>3, <1>4, StepInv
     DEF KioskInv, AppTypes, EvidenceIsOwn, Places, Starting, Submitting, sessionVars

\* The calibration fails, or its frame finds no Vision session.
LEMMA CalibrationFailsInv ==
  ASSUME KioskInv, NEW f \in Flows, flows[f].pc \in {"calibrating", "inferring"}, NEW q,
         CalibrationFails(f, q), UNCHANGED <<waiting, vision>>,
         \/ q = queue /\ flows[f].pc = "calibrating"
         \/ q = Tail(queue) /\ queue # <<>> /\ Awaited(Head(queue)) /\ Head(queue).flow = f
  PROVE  KioskInv'
<1>1. /\ Stop /\ queue' = q /\ flows' = Moved(f, "over")
      /\ flow # f => ui' = ui
      /\ flow = f => ui' = [ui EXCEPT !.camera = "error", !.error = TRUE]
      /\ UNCHANGED <<flow, refs, shooting, sessionVars, broken>>
  BY DEF CalibrationFails, Set
<1>2. SameView
  BY <1>1 DEF SameView, KioskInv, AppTypes, UiType
<1>3. flows'[f].pc = "over"
  BY <1>1, MovedFlow DEF KioskInv, AppTypes, Places
<1>4. queue' \in Seq(VisionOps) /\ vision' \in FlowOrNone /\ QueueInv'
  BY <1>1, QueueIdle, QueueShrinks DEF KioskInv, AppTypes, Places
<1>5. OnScreen(f)'
  BY <1>3 DEF OnScreen, Starting, Submitting, WithSession
<1>6. flow = f => ScreenInv'
  BY <1>1, <1>2 DEF ScreenInv, SameView, KioskInv, FlowsInv
<1>7. "over" \in Places \ ({"none"} \cup Starting)
      /\ flows[f].pc \notin {"none", "shown"} \cup Starting /\ "over" \notin Submitting
  BY DEF Places, Starting, Submitting
<1>8. /\ ui' \in UiType /\ ui'.session = ui.session
      /\ UNCHANGED <<refs, discarded, evidence, learned>>
      /\ discarded' \subseteq Flows /\ refs' \in [start : FlowOrNone, rec : FlowOrNone]
  BY <1>1, <1>2 DEF SameView, sessionVars, KioskInv, AppTypes
<1>9. QED
  BY <1>1, <1>2, <1>3, <1>4, <1>5, <1>6, <1>7, <1>8, StepInv

\* The calibration's samples are in: one frame is sent to prove it, if the flow
\* is still there.
LEMMA CalibrationAnswersInv == ASSUME KioskInv, NEW f \in Flows, CalibrationAnswers(f) PROVE KioskInv'
<1>1. /\ flows[f].pc = "calibrating" /\ UNCHANGED <<waiting, vision>>
      /\ flows[f].pc \notin {"none", "shown"} \cup Starting
  BY DEF CalibrationAnswers, Starting
<1>2. CASE CalibrationFails(f, queue)
  BY <1>1, <1>2, CalibrationFailsInv
<1>3. CASE /\ flow # f /\ flows' = Moved(f, "over")
           /\ UNCHANGED <<sourceVars, ui, flow, refs, shooting, queue, sessionVars, broken>>
  <2>1. SameView /\ QueueInv'
    BY <1>1, <1>3, QueueIdle DEF SameView, KioskInv, AppTypes, Places
  <2>2. CameraOffAtRest'
    BY <1>3 DEF KioskInv, CameraOffAtRest, sourceVars, cameraVars
  <2>3. "over" \in Places \ ({"none"} \cup Starting) /\ "over" \notin Submitting
    BY DEF Places, Starting, Submitting
  <2>4. QED
    BY <1>1, <1>3, <2>1, <2>2, <2>3, StepInv DEF KioskInv, AppTypes, sessionVars
<1>4. CASE /\ flow = f /\ flows' = Moved(f, "inferring")
           /\ queue' = RunSerialized(queue, Vision("infer", f, "calibration"))
           /\ UNCHANGED <<sourceVars, ui, flow, refs, shooting, sessionVars, broken>>
  <2>1. f = Begun /\ ui.screen = "calibration" /\ ui.session = f
    BY <1>1, <1>4, NoneIsNoFlow DEF KioskInv, FlowsInv, BegunInv, FlowInv, OnScreen, WithSession
  <2>2. flows'[f].pc = "inferring"
    BY <1>1, <1>4, MovedFlow DEF KioskInv, AppTypes, Places
  <2>3. queue' \in Seq(VisionOps) /\ QueueInv'
    <3>1. /\ Vision("infer", f, "calibration") \in VisionOps
          /\ Vision("infer", f, "calibration").flow = Begun /\ Vision("infer", f, "calibration").op = "infer"
      BY <2>1, KioskAssumption DEF Vision, VisionOps, Flows
    <3>2. "inferring" \in Places \ {"none"} /\ flows[f].pc \notin {"none", "inferring", "stopping"}
      BY <1>1 DEF Places
    <3>3. QED
      BY <1>1, <1>4, <2>1, <3>1, <3>2, QueueGrows DEF KioskInv, RunSerialized
  <2>4. OnScreen(f)' /\ ScreenInv' /\ CameraOffAtRest'
    BY <1>4, <2>1, <2>2 DEF OnScreen, Starting, Submitting, WithSession, ScreenInv, CameraOffAtRest,
       KioskInv, FlowsInv, sourceVars, cameraVars
  <2>5. "inferring" \in Places \ ({"none"} \cup Starting) /\ "inferring" \notin Submitting
    BY DEF Places, Starting, Submitting
  <2>6. QED
    BY <1>1, <1>4, <2>3, <2>4, <2>5, StepInv DEF KioskInv, AppTypes, sessionVars
<1>5. QED
  BY <1>2, <1>3, <1>4 DEF CalibrationAnswers

\* The frame that proves the calibration is answered: the lookbook begins.
LEMMA VisionInfersInv == ASSUME KioskInv, VisionInfers PROVE KioskInv'
<1>1. /\ queue # <<>> /\ Head(queue).op = "infer" /\ UNCHANGED <<waiting, vision>>
      /\ Awaited(Head(queue))
  BY DEF VisionInfers, Awaited
<1> PICK f \in Flows : f = Head(queue).flow
  BY <1>1, HeadOfQueue
<1>2. flows[f].pc = "inferring" /\ flows[f].pc \notin {"none", "shown"} \cup Starting
  BY <1>1, HeadOfQueue DEF Awaits, Starting
<1>3. CASE CalibrationFails(f, Tail(queue))
  BY <1>1, <1>2, <1>3, CalibrationFailsInv
<1>4. CASE /\ flow # f /\ queue' = Tail(queue) /\ flows' = Moved(f, "over")
           /\ UNCHANGED <<sourceVars, ui, flow, refs, shooting, sessionVars, broken>>
  <2>1. SameView /\ queue' \in Seq(VisionOps) /\ vision' \in FlowOrNone /\ QueueInv'
    BY <1>1, <1>2, <1>4, QueueShrinks DEF SameView, KioskInv, AppTypes, Places
  <2>2. CameraOffAtRest'
    BY <1>4 DEF KioskInv, CameraOffAtRest, sourceVars, cameraVars
  <2>3. "over" \in Places \ ({"none"} \cup Starting) /\ "over" \notin Submitting
    BY DEF Places, Starting, Submitting
  <2>4. QED
    BY <1>1, <1>2, <1>4, <2>1, <2>2, <2>3, StepInv DEF KioskInv, AppTypes, sessionVars
<1>5. CASE /\ flow = f /\ queue' = Tail(queue)
           /\ flows' = Moved(f, "ready") /\ Send(ui, "CALIBRATION_SUCCESS")
           /\ UNCHANGED <<sourceVars, flow, refs, shooting, sessionVars>>
  <2>1. ui \in UiType /\ ui.screen = "calibration" /\ ui.session = f
    BY <1>2, <1>5 DEF KioskInv, AppTypes, FlowsInv, FlowInv, OnScreen, WithSession
  <2>2. <<ui.screen, "CALIBRATION_SUCCESS", "lookbook">> \in Goes
    BY <2>1 DEF Goes
  <2>3. ui' = [ui EXCEPT !.screen = "lookbook"] /\ broken' = broken
    BY <1>5, <2>2, SendGoes
  <2>4. ui' \in UiType /\ ui'.screen = "lookbook" /\ ui'.session = f /\ ui'.analysis = ui.analysis
    BY <2>1, <2>3 DEF UiType, Screens
  <2>5. flows'[f].pc = "ready"
    BY <1>2, <1>5, MovedFlow DEF KioskInv, AppTypes, Places
  <2>6. queue' \in Seq(VisionOps) /\ vision' \in FlowOrNone /\ QueueInv'
    BY <1>1, <1>2, <1>5, QueueShrinks DEF KioskInv, AppTypes, Places
  <2>7. OnScreen(f)' /\ ScreenInv' /\ CameraOffAtRest'
    BY <1>5, <2>1, <2>4, <2>5, NoneIsNoFlow DEF OnScreen, Starting, Submitting, WithSession, ScreenInv,
       CameraOffAtRest, KioskInv, FlowsInv
  <2>8. "ready" \in Places \ ({"none"} \cup Starting) /\ "ready" \notin Submitting
    BY DEF Places, Starting, Submitting
  <2>9. QED
    BY <1>1, <1>2, <1>5, <2>1, <2>3, <2>4, <2>6, <2>7, <2>8, StepInv DEF KioskInv, AppTypes, sessionVars
<1>6. QED
  BY <1>3, <1>4, <1>5 DEF VisionInfers

-----------------------------------------------------------------------------
(* The lookbook's end and the recommendation.                               *)

\* The lookbook is over: the camera goes off, and Vision is to stop.
LEMMA LookbookEndsInv == ASSUME KioskInv, NEW f \in Flows, LookbookEnds(f) PROVE KioskInv'
<1> DEFINE u == [ui EXCEPT !.camera = "idle", !.analysis = "preparing"]
<1>1. /\ ui.screen = "lookbook" /\ flow = f /\ Stop /\ refs' = [refs EXCEPT !.rec = f]
      /\ flows' = Moved(f, "stopping")
      /\ queue' = RunSerialized(queue, Vision("stop", Begun, "complete"))
      /\ Send(u, "LOOKBOOK_FINISHED")
      /\ UNCHANGED <<flow, waiting, shooting, vision, sessionVars>>
  BY DEF LookbookEnds
<1>2. flows[f].pc = "ready" /\ ui.session = f /\ f = Begun
  BY <1>1, NoneIsNoFlow DEF KioskInv, FlowsInv, BegunInv, ScreenInv, FlowInv, OnScreen, WithSession
<1>3. u \in UiType /\ u.screen = "lookbook" /\ u.session = f /\ u.analysis = "preparing"
  BY <1>1, <1>2 DEF KioskInv, AppTypes, UiType, Pending
<1>4. <<u.screen, "LOOKBOOK_FINISHED", "finalizing">> \in Goes
  BY <1>3 DEF Goes
<1> HIDE DEF u
<1>5. ui' = [u EXCEPT !.screen = "finalizing"] /\ broken' = broken
  BY <1>1, <1>4, SendGoes
<1>6. ui' \in UiType /\ ui'.screen = "finalizing" /\ ui'.session = f /\ ui'.analysis = "preparing"
  BY <1>3, <1>5 DEF UiType, Screens
<1>7. flows'[f].pc = "stopping"
  BY <1>1, <1>2, MovedFlow DEF KioskInv, AppTypes, Places
<1>8. refs' \in [start : FlowOrNone, rec : FlowOrNone] /\ refs'.rec = f
  BY <1>1 DEF KioskInv, AppTypes, FlowOrNone
<1>9. queue' \in Seq(VisionOps) /\ QueueInv'
  <2>1. /\ Vision("stop", Begun, "complete") \in VisionOps
        /\ Vision("stop", Begun, "complete").flow = Begun /\ Vision("stop", Begun, "complete").op = "stop"
    BY <1>2, KioskAssumption DEF Vision, VisionOps, Flows
  <2>2. "stopping" \in Places \ {"none"} /\ flows[f].pc \notin {"none", "inferring", "stopping"}
    BY <1>2 DEF Places
  <2>3. QED
    BY <1>1, <1>2, <2>1, <2>2, QueueGrows DEF KioskInv, RunSerialized
<1>10. OnScreen(f)' /\ ScreenInv'
  BY <1>6, <1>7 DEF OnScreen, Starting, Submitting, WithSession, ScreenInv
<1>11. "stopping" \in Places \ ({"none"} \cup Starting) /\ flows[f].pc \notin {"none", "shown"} \cup Starting
  BY <1>2 DEF Places, Starting
<1>12. QED
  BY <1>1, <1>2, <1>5, <1>6, <1>8, <1>9, <1>10, <1>11, StepInv DEF KioskInv, AppTypes, sessionVars

\* A submission ends without a request: the session is given up, and the screen
\* says so unless the flow was given up before.
LEMMA SubmitFailsInv ==
  ASSUME KioskInv, NEW f \in Flows, flows[f].pc \in {"stopping", "sending"}, SubmitFails(f),
         UNCHANGED <<sourceVars, flow, waiting, shooting>>,
         \/ UNCHANGED <<queue, vision>> /\ flows[f].pc = "sending"
         \/ /\ queue' = Tail(queue) /\ vision' = None
            /\ queue # <<>> /\ Awaited(Head(queue)) /\ Head(queue).flow = f
  PROVE  KioskInv'
<1>1. /\ discarded' = discarded \cup {f} /\ learned' = learned /\ flows' = Moved(f, "over")
      /\ refs' = [refs EXCEPT !.rec = Unless(@, f)]
      /\ evidence' \in {{}, evidence} /\ broken' = broken
      /\ flow # f => ui' = ui
      /\ flow = f => ui' \in {ui, [ui EXCEPT !.analysis = "failed"]}
  BY DEF SubmitFails, SubmitEnds, Set
<1>2. /\ ui' \in UiType /\ ui'.screen = ui.screen /\ ui'.session = ui.session
      /\ ui'.starting = ui.starting /\ ui'.shown = ui.shown
      /\ ui'.analysis \in {ui.analysis, "failed"} /\ (flow # f => SameView)
  BY <1>1 DEF SameView, KioskInv, AppTypes, UiType
<1>3. /\ refs' \in [start : FlowOrNone, rec : FlowOrNone] /\ refs'.start = refs.start
      /\ \A g \in Flows \ {f} : refs.rec = g => refs'.rec = g
  BY <1>1 DEF KioskInv, AppTypes, FlowOrNone, Unless
<1>4. flows'[f].pc = "over"
  BY <1>1, MovedFlow DEF KioskInv, AppTypes, Places
<1>5. queue' \in Seq(VisionOps) /\ vision' \in FlowOrNone /\ QueueInv'
  BY <1>1, QueueIdle, QueueShrinks DEF KioskInv, AppTypes, Places, FlowOrNone
<1>6. OnScreen(f)' /\ CameraOffAtRest'
  BY <1>2, <1>4 DEF OnScreen, Starting, Submitting, WithSession, CameraOffAtRest, KioskInv, sourceVars,
     cameraVars
<1>7. flow = f => ScreenInv'
  <2> SUFFICES ASSUME flow = f PROVE ScreenInv'
    OBVIOUS
  <2>1. ui.screen = "finalizing"
    BY DEF KioskInv, FlowsInv, FlowInv, OnScreen, Submitting
  <2>2. ScreenInv
    BY DEF KioskInv, FlowsInv
  <2>3. QED
    BY <1>2, <2>1, <2>2 DEF ScreenInv
<1>8. "over" \in Places \ ({"none"} \cup Starting) /\ flows[f].pc \notin {"none", "shown"} \cup Starting
      /\ "over" \notin Submitting
  BY DEF Places, Starting, Submitting
<1>9. discarded \subseteq discarded' /\ discarded' \subseteq Flows /\ evidence' \subseteq evidence
  BY <1>1 DEF KioskInv, AppTypes
<1>10. QED
  BY <1>1, <1>2, <1>3, <1>5, <1>6, <1>7, <1>8, <1>9, StepInv

\* Vision has stopped: a submission goes on, when its flow is still current.
LEMMA VisionStopsInv == ASSUME KioskInv, VisionStops PROVE KioskInv'
<1>1. /\ queue # <<>> /\ Head(queue).op = "stop" /\ queue' = Tail(queue) /\ vision' = None
      /\ UNCHANGED <<sourceVars, flow, waiting, shooting>>
  BY DEF VisionStops
<1>2. CASE Head(queue).why = "complete"
  <2>1. Awaited(Head(queue)) /\ Awaits(Head(queue), flows)
    BY <1>1, <1>2, HeadOfQueue DEF Awaited
  <2> PICK f \in Flows : f = Head(queue).flow
    BY <2>1 DEF Awaits
  <2>2. flows[f].pc = "stopping" /\ flows[f].pc \notin {"none", "shown"} \cup Starting
    BY <1>1, <2>1 DEF Awaits, Starting
  <2>3. CASE SubmitFails(f)
    BY <1>1, <2>1, <2>2, <2>3, SubmitFailsInv
  <2>4. CASE /\ flow = f /\ flows' = Moved(f, "sending") /\ Set([ui EXCEPT !.analysis = "requesting"])
             /\ UNCHANGED <<refs, sessionVars>>
    <3>1. FlowInv(f) /\ ScreenInv /\ ui.screen = "finalizing" /\ ui.session = f
      BY <2>2, <2>4 DEF KioskInv, FlowsInv, FlowInv, OnScreen, Submitting, WithSession
    <3>2. /\ ui' \in UiType /\ ui'.screen = "finalizing" /\ ui'.session = f /\ broken' = broken
          /\ ui'.analysis = "requesting"
      BY <2>4, <3>1 DEF Set, KioskInv, AppTypes, UiType, Pending
    <3>3. flows'[f].pc = "sending" /\ (flows[f].aborted => flows'[f].aborted)
      BY <2>2, <2>4, MovedFlow DEF KioskInv, AppTypes, Places
    <3>4. queue' \in Seq(VisionOps) /\ vision' \in FlowOrNone /\ QueueInv'
      BY <1>1, <2>1, <2>2, <2>4, QueueShrinks DEF KioskInv, AppTypes, Places, FlowOrNone
    <3>5. OnScreen(f)' /\ ScreenInv' /\ CameraOffAtRest'
      BY <1>1, <3>1, <3>2, <3>3 DEF OnScreen, Starting, Submitting, WithSession, ScreenInv,
         CameraOffAtRest, KioskInv, sourceVars, cameraVars
    <3>6. ~flows'[f].aborted => refs'.rec = f
      BY <2>2, <2>4, <3>1, <3>3 DEF FlowInv, Submitting
    <3>7. "sending" \in Places \ ({"none"} \cup Starting)
      BY DEF Places, Starting
    <3>8. QED
      BY <1>1, <2>2, <2>4, <3>1, <3>2, <3>4, <3>5, <3>6, <3>7, StepInv DEF KioskInv, AppTypes, sessionVars
  <2>5. CASE flow # f /\ SubmitEnds(f, ui, "over", None) /\ UNCHANGED <<learned, discarded>>
    <3>1. /\ flows' = Moved(f, "over") /\ refs' = [refs EXCEPT !.rec = Unless(@, f)]
          /\ evidence' = evidence /\ ui' = ui /\ broken' = broken /\ SameView
      BY <2>5 DEF SubmitEnds, Set, SameView, KioskInv, AppTypes
    <3>2. /\ refs' \in [start : FlowOrNone, rec : FlowOrNone] /\ refs'.start = refs.start
          /\ \A g \in Flows \ {f} : refs.rec = g => refs'.rec = g
      BY <3>1 DEF KioskInv, AppTypes, FlowOrNone, Unless
    <3>3. queue' \in Seq(VisionOps) /\ vision' \in FlowOrNone /\ QueueInv'
      BY <1>1, <2>1, <2>2, <3>1, QueueShrinks DEF KioskInv, AppTypes, Places, FlowOrNone
    <3>4. CameraOffAtRest'
      BY <1>1, <3>1 DEF CameraOffAtRest, KioskInv, sourceVars, cameraVars
    <3>5. "over" \in Places \ ({"none"} \cup Starting) /\ "over" \notin Submitting
      BY DEF Places, Starting, Submitting
    <3>6. QED
      BY <1>1, <2>2, <2>5, <3>1, <3>2, <3>3, <3>4, <3>5, StepInv DEF KioskInv, AppTypes
  <2>6. QED
    BY <1>2, <2>3, <2>4, <2>5 DEF VisionStops
<1>3. CASE Head(queue).why # "complete"
  <2>1. /\ \/ Set([ui EXCEPT !.error = TRUE])
           \/ UNCHANGED <<ui, broken>>
        /\ UNCHANGED <<flows, refs, sessionVars>>
    BY <1>3 DEF VisionStops
  <2>2. SameView /\ broken' = broken
    BY <2>1 DEF Set, SameView, KioskInv, AppTypes, UiType
  <2>3. queue' \in Seq(VisionOps) /\ QueueInv'
    <3>1. Begun' = Begun
      BY <2>1, BegunKept
    <3>2. /\ Begun \in 0..MaxFlows /\ queue \in Seq(VisionOps) /\ vision \in FlowOrNone
          /\ QueueOk(queue, vision, flows, Begun) /\ None \in FlowOrNone
      BY DEF KioskInv, AppTypes, FlowsInv, BegunInv, QueueInv, FlowOrNone
    <3>3. Tail(queue) \in Seq(VisionOps) /\ QueueOk(Tail(queue), None, flows, Begun)
      BY <1>1, <3>2, QueuePop
    <3>4. QED
      BY <1>1, <2>1, <3>1, <3>3 DEF QueueInv
  <2>4. FlowsInv'
    BY <1>1, <2>1, <2>2, <2>3, ViewKept DEF KioskInv, sessionVars
  <2>5. SourceInv' /\ CameraOffAtRest' /\ capturing' = capturing /\ captures' = captures
    BY <1>1, <2>2, SourceSame
       DEF KioskInv, CameraOffAtRest, SameView, sourceVars, cameraVars, captureVars
  <2>6. \A c \in Captures : ShotInv(c)'
    BY <1>1, <2>5, ShotsKept
  <2>7. AppTypes' /\ EvidenceIsOwn'
    BY <1>1, <2>1, <2>2, <2>3
       DEF KioskInv, AppTypes, FlowOrNone, SameView, EvidenceIsOwn, sessionVars
  <2>8. QED
    BY <2>4, <2>5, <2>6, <2>7 DEF KioskInv
<1>4. QED
  BY <1>2, <1>3

\* The batches and the request are answered; only a flow that was not aborted
\* asks the screen to wait.
LEMMA SendAnswersInv == ASSUME KioskInv, NEW f \in Flows, SendAnswers(f) PROVE KioskInv'
<1>1. /\ Quiet /\ flows[f].pc = "sending" /\ flows[f].pc \notin {"none", "shown"} \cup Starting
      /\ UNCHANGED <<sourceVars, flow, waiting, shooting, queue, vision>>
  BY DEF SendAnswers, Starting
<1>2. CASE SubmitFails(f)
  BY <1>1, <1>2, SubmitFailsInv
<1>3. CASE Accepted(f) /\ UNCHANGED <<learned, discarded>>
  <2>1. FlowInv(f) /\ ~flows[f].aborted
    BY <1>1 DEF KioskInv, FlowsInv, Quiet, Abortable
  <2>2. flow = f /\ ui.screen = "finalizing" /\ ui.session = f
    BY <1>1, <2>1 DEF FlowInv, OnScreen, Submitting, WithSession
  <2>3. /\ flows' = Moved(f, "polling") /\ refs' = [refs EXCEPT !.rec = f]
        /\ evidence' = {} /\ ui' = [ui EXCEPT !.analysis = "generating"] /\ broken' = broken
    BY <1>3, <2>2, NoneIsNoFlow DEF Accepted, SubmitEnds, Set
  <2>4. /\ ui' \in UiType /\ ui'.screen = "finalizing" /\ ui'.session = f
        /\ ui'.analysis = "generating"
    BY <2>2, <2>3 DEF KioskInv, AppTypes, UiType, Pending
  <2>5. refs' \in [start : FlowOrNone, rec : FlowOrNone] /\ refs'.rec = f
    BY <2>3 DEF KioskInv, AppTypes, FlowOrNone
  <2>6. flows'[f].pc = "polling" /\ QueueInv'
    BY <1>1, <2>3, MovedFlow, QueueIdle DEF KioskInv, AppTypes, Places
  <2>7. OnScreen(f)' /\ ScreenInv' /\ CameraOffAtRest'
    BY <1>1, <2>2, <2>4, <2>6 DEF OnScreen, Starting, Submitting, WithSession, ScreenInv,
       CameraOffAtRest, KioskInv, sourceVars, cameraVars
  <2>8. "polling" \in Places \ ({"none"} \cup Starting)
    BY DEF Places, Starting
  <2>9. QED
    BY <1>1, <1>3, <2>2, <2>3, <2>4, <2>5, <2>6, <2>7, <2>8, StepInv DEF KioskInv, AppTypes
<1>4. QED
  BY <1>2, <1>3 DEF SendAnswers

\* A batch that was being sent is given up.
LEMMA SendAbortedInv == ASSUME KioskInv, NEW f \in Flows, SendAborted(f) PROVE KioskInv'
BY SubmitFailsInv DEF SendAborted

\* The recommendation does not come.
LEMMA LoadFailsInv ==
  ASSUME KioskInv, NEW f \in Flows, flows[f].pc \in {"polling", "fetching"}, LoadFails(f),
         UNCHANGED <<sourceVars, flow, waiting, shooting, queue, vision, learned, evidence>>
  PROVE  KioskInv'
<1>1. /\ discarded' \in {discarded, discarded \cup {f}} /\ flows' = Moved(f, "over")
      /\ refs' = [refs EXCEPT !.rec = Unless(@, f)] /\ broken' = broken
      /\ flow # f => ui' = ui
      /\ ui' \in {ui, [ui EXCEPT !.analysis = "failed"]}
  BY DEF LoadFails, LoadEnds, Set
<1>2. /\ ui' \in UiType /\ ui'.screen = ui.screen /\ ui'.session = ui.session
      /\ ui'.starting = ui.starting /\ ui'.shown = ui.shown
      /\ ui'.analysis \in {ui.analysis, "failed"} /\ (flow # f => SameView)
  BY <1>1 DEF SameView, KioskInv, AppTypes, UiType
<1>3. /\ refs' \in [start : FlowOrNone, rec : FlowOrNone] /\ refs'.start = refs.start
      /\ \A g \in Flows \ {f} : refs.rec = g => refs'.rec = g
  BY <1>1 DEF KioskInv, AppTypes, FlowOrNone, Unless
<1>4. flows'[f].pc = "over" /\ QueueInv'
  BY <1>1, MovedFlow, QueueIdle DEF KioskInv, AppTypes, Places
<1>5. OnScreen(f)' /\ CameraOffAtRest'
  BY <1>2, <1>4 DEF OnScreen, Starting, Submitting, WithSession, CameraOffAtRest, KioskInv, sourceVars,
     cameraVars
<1>6. flow = f => ScreenInv'
  <2> SUFFICES ASSUME flow = f PROVE ScreenInv'
    OBVIOUS
  <2>1. ui.screen = "finalizing"
    BY DEF KioskInv, FlowsInv, FlowInv, OnScreen, Submitting
  <2>2. ScreenInv
    BY DEF KioskInv, FlowsInv
  <2>3. QED
    BY <1>2, <2>1, <2>2 DEF ScreenInv
<1>7. "over" \in Places \ ({"none"} \cup Starting) /\ flows[f].pc \notin {"none", "shown"} \cup Starting
      /\ "over" \notin Submitting
  BY DEF Places, Starting, Submitting
<1>8. discarded \subseteq discarded' /\ discarded' \subseteq Flows
  BY <1>1 DEF KioskInv, AppTypes
<1>9. QED
  BY <1>1, <1>2, <1>3, <1>4, <1>5, <1>6, <1>7, <1>8, StepInv DEF KioskInv, AppTypes

\* The recommendation is there, and its product is asked for.
LEMMA PollAnswersInv == ASSUME KioskInv, NEW f \in Flows, PollAnswers(f) PROVE KioskInv'
<1>1. /\ flows[f].pc = "polling" /\ flows[f].pc \notin {"none", "shown"} \cup Starting
      /\ UNCHANGED <<sourceVars, flow, waiting, shooting, queue, vision, learned, evidence>>
  BY DEF PollAnswers, Starting
<1>2. CASE LoadFails(f)
  BY <1>1, <1>2, LoadFailsInv
<1>3. CASE flows' = Moved(f, "fetching") /\ UNCHANGED <<ui, refs, discarded, broken>>
  <2>1. flows'[f].pc = "fetching" /\ QueueInv' /\ SameView
    BY <1>1, <1>3, MovedFlow, QueueIdle DEF KioskInv, AppTypes, Places, SameView
  <2>2. CameraOffAtRest'
    BY <1>1, <1>3 DEF CameraOffAtRest, KioskInv, sourceVars, cameraVars
  <2>3. flow = f => OnScreen(f)' /\ ScreenInv'
    <3>1. flow = f => OnScreen(f) /\ ui.screen = "finalizing"
      BY <1>1 DEF KioskInv, FlowsInv, FlowInv, OnScreen, Submitting
    <3>2. ScreenInv
      BY DEF KioskInv, FlowsInv
    <3>3. QED
      BY <1>1, <1>3, <2>1, <3>1, <3>2 DEF OnScreen, Starting, Submitting, WithSession, ScreenInv
  <2>4. "fetching" \in Places \ ({"none"} \cup Starting) /\ "fetching" \notin Submitting
    BY DEF Places, Starting, Submitting
  <2>5. QED
    BY <1>1, <1>3, <2>1, <2>2, <2>3, <2>4, StepInv DEF KioskInv, AppTypes
<1>4. QED
  BY <1>2, <1>3 DEF PollAnswers

\* So is a request for the recommendation.
LEMMA PollAbortedInv == ASSUME KioskInv, NEW f \in Flows, PollAborted(f) PROVE KioskInv'
BY LoadFailsInv DEF PollAborted

\* The product is shown, to the flow that asked for it.
LEMMA ProductAnswersInv == ASSUME KioskInv, NEW f \in Flows, ProductAnswers(f) PROVE KioskInv'
<1>1. /\ flows[f].pc = "fetching" /\ flows[f].pc \notin {"none", "shown"} \cup Starting
      /\ UNCHANGED <<sourceVars, flow, waiting, shooting, queue, vision, learned, evidence>>
  BY DEF ProductAnswers, Starting
<1>2. CASE LoadFails(f)
  BY <1>1, <1>2, LoadFailsInv
<1>3. CASE flow # f /\ LoadEnds(f, ui, FALSE) /\ UNCHANGED discarded
  <2>1. /\ flows' = Moved(f, "over") /\ refs' = [refs EXCEPT !.rec = Unless(@, f)]
        /\ ui' = ui /\ broken' = broken /\ SameView
    BY <1>3 DEF LoadEnds, Set, SameView, KioskInv, AppTypes
  <2>2. /\ refs' \in [start : FlowOrNone, rec : FlowOrNone] /\ refs'.start = refs.start
        /\ \A g \in Flows \ {f} : refs.rec = g => refs'.rec = g
    BY <2>1 DEF KioskInv, AppTypes, FlowOrNone, Unless
  <2>3. QueueInv' /\ CameraOffAtRest'
    BY <1>1, <2>1, QueueIdle DEF CameraOffAtRest, KioskInv, Places, sourceVars, cameraVars
  <2>4. "over" \in Places \ ({"none"} \cup Starting) /\ "over" \notin Submitting
    BY DEF Places, Starting, Submitting
  <2>5. QED
    BY <1>1, <1>3, <2>1, <2>2, <2>3, <2>4, StepInv DEF KioskInv, AppTypes
<1>4. CASE flow = f /\ LoadEnds(f, [ui EXCEPT !.shown = f], TRUE) /\ UNCHANGED discarded
  <2> DEFINE u == [ui EXCEPT !.shown = f]
  <2>1. /\ flows' = Moved(f, "shown") /\ refs' = [refs EXCEPT !.rec = Unless(@, f)]
        /\ Send(u, "RECOMMENDATION_READY")
    BY <1>4 DEF LoadEnds
  <2>2. ui.screen = "finalizing" /\ ui.session = f /\ ui.analysis # "cancelled"
    BY <1>1, <1>4, NoneIsNoFlow DEF KioskInv, FlowsInv, FlowInv, OnScreen, ScreenInv, Submitting, WithSession
  <2>3. u \in UiType /\ u.screen = "finalizing" /\ u.session = f /\ u.analysis # "cancelled" /\ u.shown = f
    BY <2>2 DEF KioskInv, AppTypes, UiType, FlowOrNone
  <2>4. <<u.screen, "RECOMMENDATION_READY", "report">> \in Goes
    BY <2>3 DEF Goes
  <2> HIDE DEF u
  <2>5. ui' = [u EXCEPT !.screen = "report"] /\ broken' = broken
    BY <2>1, <2>4, SendGoes
  <2>6. /\ ui' \in UiType /\ ui'.screen = "report" /\ ui'.session = f /\ ui'.shown = f
        /\ ui'.analysis # "cancelled"
    BY <2>3, <2>5 DEF UiType, Screens
  <2>7. flows'[f].pc = "shown" /\ QueueInv'
    BY <1>1, <2>1, MovedFlow, QueueIdle DEF KioskInv, AppTypes, Places
  <2>8. camera = None /\ openTask = None
    BY <2>2 DEF KioskInv, CameraOffAtRest
  <2>9. OnScreen(f)' /\ ScreenInv' /\ CameraOffAtRest'
    BY <1>1, <1>4, <2>6, <2>7, <2>8, NoneIsNoFlow DEF OnScreen, Starting, Submitting, WithSession,
       ScreenInv, CameraOffAtRest, sourceVars, cameraVars
  <2>10. refs' \in [start : FlowOrNone, rec : FlowOrNone]
    BY <2>1 DEF KioskInv, AppTypes, FlowOrNone, Unless
  <2>11. "shown" \in Places \ ({"none"} \cup Starting) /\ "shown" \notin Submitting
    BY DEF Places, Starting, Submitting
  <2>12. QED
    BY <1>1, <1>4, <2>1, <2>2, <2>5, <2>6, <2>7, <2>9, <2>10, <2>11, StepInv DEF KioskInv, AppTypes
<1>5. QED
  BY <1>2, <1>3, <1>4 DEF ProductAnswers, ProductCurrent

-----------------------------------------------------------------------------
(* Every behaviour.                                                         *)

\* A page that was just loaded satisfies the invariant.
LEMMA InitKiosk == Init => KioskInv
<1> SUFFICES ASSUME Init PROVE KioskInv
  OBVIOUS
<1>1. SourceInv
  BY SourceInitInv DEF Init
<1>2. AppTypes
  BY DEF Init, AppTypes, UiType, Screens, FlowOrNone, FlowsType, Places, VisionOps
<1>3. \A f \in Flows : flows[f].pc = "none"
  BY DEF Init
<1>4. Begun = 0
  <2>1. 0 \in 0..MaxFlows /\ \A f \in Flows : flows[f].pc # "none" <=> f <= 0
    BY <1>3, KioskAssumption DEF Flows
  <2>2. QED
    BY <2>1, BegunIs
<1>5. BegunInv /\ QueueInv
  BY <1>3, <1>4, KioskAssumption DEF Init, BegunInv, QueueInv, QueueOk, Flows
<1>6. ScreenInv /\ EvidenceIsOwn /\ CameraOffAtRest
  BY DEF Init, SourceInit, ScreenInv, EvidenceIsOwn, CameraOffAtRest
<1>7. \A f \in Flows : FlowInv(f) /\ SessionInv(f)
  BY <1>3, NoneIsNoFlow DEF Init, FlowInv, SessionInv, Starting, Submitting
<1>8. (\A o \in Opens : WaitInv(o)) /\ \A c \in Captures : ShotInv(c)
  BY FrameSourceAssumption DEF Init, SourceInit, WaitInv, ShotInv
<1>9. QED
  BY <1>1, <1>2, <1>5, <1>6, <1>7, <1>8 DEF KioskInv, FlowsInv

\* One step of the kiosk: one lemma for each of its tasks.
LEMMA KioskStep == ASSUME KioskInv, Next PROVE KioskInv'
<1>1. CASE Touch \/ Back \/ Restart \/ CancelConsent \/ ConsentTimesOut \/ CancelRecommendation
  BY <1>1, TouchInv, BackInv, RestartInv, CancelConsentInv, ConsentTimesOutInv, CancelRecommendationInv
<1>2. CASE CameraRetried \/ PlaybackUnavailable \/ VisionLost \/ ShotRefused \/ Browser
  BY <1>2, CameraRetriedInv, PlaybackUnavailableInv, VisionLostInv, ShotRefusedInv, BrowserInv
<1>3. CASE \E f \in Flows : Begin(f) \/ StartTimesOut(f) \/ CalibrationBegins(f) \/ LookbookEnds(f)
  BY <1>3, BeginInv, StartTimesOutInv, CalibrationBeginsInv, LookbookEndsInv
<1>4. CASE \E f \in Flows : Answer(f)
  BY <1>4, CreateAnswersInv, CalibrationAnswersInv, SendAnswersInv, PollAnswersInv, ProductAnswersInv
     DEF Answer
<1>5. CASE \E c \in Captures : ShotBegins(c) \/ ShotSteps(c)
  BY <1>5, ShotBeginsInv, ShotStepsInv
<1>6. CASE RunQueue
  BY <1>6, VisionStartsInv, VisionInfersInv, VisionStopsInv DEF RunQueue
<1>7. CASE Continue
  BY <1>7, StartOpenedInv, StartAbortedInv, SendAbortedInv, PollAbortedInv, RetryOpenedInv, ShotReturnsInv
     DEF Continue
<1>8. QED
  BY <1>1, <1>2, <1>3, <1>4, <1>5, <1>6, <1>7 DEF Next

\* A step that changes nothing keeps it.
LEMMA KioskStutters == ASSUME KioskInv, UNCHANGED vars PROVE KioskInv'
<1>1. SourceInv'
  BY SourceSame DEF vars, KioskInv
<1>2. FlowsInv' /\ AppTypes' /\ EvidenceIsOwn'
  BY AppSame DEF vars, appVars, KioskInv, AppTypes
<1>3. \A c \in Captures : ShotInv(c)'
  BY ShotsKept DEF vars, appVars, sourceVars, captureVars
<1>4. CameraOffAtRest'
  BY DEF KioskInv, CameraOffAtRest, vars, appVars, sourceVars, cameraVars
<1>5. QED
  BY <1>1, <1>2, <1>3, <1>4 DEF KioskInv

\* Every reachable state satisfies it.
LEMMA KioskInvariant == Spec => []KioskInv
<1>1. Init => KioskInv
  BY InitKiosk
<1>2. KioskInv /\ [Next]_vars => KioskInv'
  BY KioskStep, KioskStutters
<1>3. QED
  BY <1>1, <1>2, PTL DEF Spec

\* What the report shows and what the buffers hold is of the session on the
\* screen, and no operation, however late, sends an event the screen cannot
\* take, in any behaviour.
THEOREM DataIsOwn == Spec => []OwnDataOnly
<1>1. KioskInv => OwnDataOnly
  <2> SUFFICES ASSUME KioskInv PROVE OwnDataOnly
    OBVIOUS
  <2>1. TypeOK
    BY ScreensTake DEF KioskInv, SourceInv, AppTypes, TypeOK, UiType, FlowOrNone, FlowsType
  <2>2. NoInvalidEvent /\ EvidenceIsOwn
    BY DEF KioskInv, AppTypes, NoInvalidEvent
  <2>3. ShownIsOwn
    BY DEF KioskInv, AppTypes, FlowOrNone, FlowsInv, ScreenInv, FlowInv, OnScreen, WithSession, ShownIsOwn
  <2>4. QED
    BY <2>1, <2>2, <2>3 DEF OwnDataOnly
<1>2. QED
  BY <1>1, KioskInvariant, PTL

\* A session the server has created is on the screen, about to be, or given up,
\* however its start or its submission ended.
THEOREM SessionsGivenUp == Spec => []SessionsDisposed
<1>1. KioskInv => SessionsDisposed
  <2> SUFFICES ASSUME KioskInv, NEW f \in learned
               PROVE  f \in discarded \/ f = ui.session \/ flows[f].pc \in InProgress \/ flows[f].pc = "shown"
    BY DEF SessionsDisposed
  <2>1. f \in Flows
    BY DEF KioskInv, AppTypes
  <2>2. SessionInv(f)
    BY <2>1 DEF KioskInv, FlowsInv
  <2>3. QED
    BY <2>2 DEF SessionInv, InProgress
<1>2. QED
  BY <1>1, KioskInvariant, PTL

\* The camera is off at rest; the one stream that runs is the source's own and
\* the one frame that is open that of the capture in progress, of that camera.
THEOREM CameraIsReleased == Spec => []CameraReleased
<1>1. KioskInv => CameraReleased
  <2> SUFFICES ASSUME KioskInv PROVE CameraReleased
    OBVIOUS
  <2>1. tracks = {} \/ \E x : tracks = {x} /\ x \in {camera, openTask}
    BY DEF KioskInv, SourceInv, StreamInv
  <2>2. StreamsOwned
    BY <2>1, FS_EmptySet, FS_Singleton DEF StreamsOwned
  <2>3. FramesOwned /\ CaptureOfCamera /\ CameraOffAtRest
    BY DEF KioskInv, SourceInv, SourceTypeOK, CaptureInv, CaptureOfCamera
  <2>4. QED
    BY <2>2, <2>3 DEF CameraReleased
<1>2. QED
  BY <1>1, KioskInvariant, PTL

\* A stop that is at the head of the queue is not older than the session it ends.
LEMMA StopsItsPast == ASSUME KioskInv PROVE StopEndsItsPast
BY HeadOfQueue DEF StopEndsItsPast

\* Once cancelled, the recommendation's flow is nobody's: whatever answers
\* late, the screen says so until the customer goes on.
LEMMA StaysCancelled == ASSUME KioskInv, Next, ui.analysis = "cancelled" PROVE CancelStays
<1>1. ui \in UiType /\ ui.screen = "finalizing" /\ flow = None
  BY DEF KioskInv, AppTypes, FlowsInv, ScreenInv
<1>2. CASE Restart
  <2> DEFINE u == [Reset EXCEPT !.session = None, !.shown = None, !.error = FALSE]
  <2>1. Send(u, "RESTART")
    BY <1>2 DEF Restart, Abandon
  <2>2. u.screen = "finalizing" /\ u \in UiType
    BY <1>1 DEF Reset, UiType, FlowOrNone
  <2>3. <<u.screen, "RESTART", "screensaver">> \in Goes
    BY <2>2 DEF Goes
  <2> HIDE DEF u
  <2>4. ui' = [u EXCEPT !.screen = "screensaver"]
    BY <2>1, <2>3, SendGoes
  <2>5. QED
    BY <2>2, <2>4 DEF CancelStays, UiType
<1>3. CASE Touch \/ Back \/ CancelConsent \/ ConsentTimesOut \/ CancelRecommendation
  BY <1>1, <1>3 DEF Touch, Back, CancelConsent, ConsentTimesOut, CancelRecommendation, Pending
<1>4. CASE CameraRetried \/ PlaybackUnavailable \/ VisionLost \/ ShotRefused \/ Browser
  BY <1>1, <1>4 DEF CameraRetried, PlaybackUnavailable, VisionLost, ShotRefused, Browser, appVars,
     CancelStays
<1>5. ASSUME NEW f \in Flows, NEW cam, NEW q, StartFails(f, cam, q) PROVE CancelStays
  BY <1>1, <1>5, NoneIsNoFlow DEF StartFails, StartEnds, Set, CancelStays
<1>6. ASSUME NEW f \in Flows, NEW q, CalibrationFails(f, q) PROVE CancelStays
  BY <1>1, <1>6, NoneIsNoFlow DEF CalibrationFails, Set, CancelStays
<1>7. ASSUME NEW f \in Flows, SubmitFails(f) PROVE CancelStays
  BY <1>1, <1>7, NoneIsNoFlow DEF SubmitFails, SubmitEnds, Set, CancelStays
<1>8. ASSUME NEW f \in Flows, LoadFails(f) PROVE CancelStays
  BY <1>1, <1>8, NoneIsNoFlow DEF LoadFails, LoadEnds, Set, CancelStays
<1>9. CASE \E f \in Flows : Begin(f) \/ StartTimesOut(f) \/ CalibrationBegins(f) \/ LookbookEnds(f)
  BY <1>1, <1>5, <1>9 DEF Begin, StartTimesOut, CalibrationBegins, LookbookEnds, CancelStays
<1>10. ASSUME NEW f \in Flows, Answer(f) PROVE CancelStays
  <2>1. CASE CreateAnswers(f)
    BY <1>5, <2>1 DEF CreateAnswers, CancelStays
  <2>2. CASE CalibrationAnswers(f)
    BY <1>6, <2>2 DEF CalibrationAnswers, CancelStays
  <2>3. CASE SendAnswers(f)
    <3>1. FlowInv(f) /\ flows[f].pc = "sending" /\ ~flows[f].aborted
      BY <2>3 DEF SendAnswers, KioskInv, FlowsInv, Quiet, Abortable
    <3>2. flow = f
      BY <3>1 DEF FlowInv, Submitting
    <3>3. QED
      BY <1>1, <3>2, NoneIsNoFlow
  <2>4. CASE PollAnswers(f)
    BY <1>8, <2>4 DEF PollAnswers, CancelStays
  <2>5. CASE ProductAnswers(f)
    BY <1>1, <1>8, <2>5, NoneIsNoFlow DEF ProductAnswers, ProductCurrent, LoadEnds, Set, CancelStays
  <2>6. QED
    BY <1>10, <2>1, <2>2, <2>3, <2>4, <2>5 DEF Answer
<1>11. CASE \E c \in Captures : ShotBegins(c) \/ ShotSteps(c)
  BY <1>11 DEF ShotBegins, ShotSteps, appVars, CancelStays
<1>12. CASE RunQueue
  <2>1. CASE VisionStarts
    <3> PICK f \in Flows : f = Head(queue).flow
      BY <2>1, HeadOfQueue DEF VisionStarts
    <3>1. flow # f
      BY <1>1, NoneIsNoFlow
    <3>2. QED
      BY <1>5, <2>1, <3>1 DEF VisionStarts, CancelStays
  <2>2. CASE VisionInfers
    <3> PICK f \in Flows : f = Head(queue).flow
      BY <2>2, HeadOfQueue DEF VisionInfers
    <3>1. flow # f
      BY <1>1, NoneIsNoFlow
    <3>2. QED
      BY <1>6, <2>2, <3>1 DEF VisionInfers, CancelStays
  <2>3. CASE VisionStops
    <3>1. CASE Head(queue).why = "complete"
      <4>1. Awaited(Head(queue)) /\ Awaits(Head(queue), flows)
        BY <2>3, <3>1, HeadOfQueue DEF VisionStops, Awaited
      <4> PICK f \in Flows : f = Head(queue).flow
        BY <4>1 DEF Awaits
      <4>2. flow # f
        BY <1>1, NoneIsNoFlow
      <4>3. QED
        BY <1>7, <2>3, <3>1, <4>2 DEF VisionStops, SubmitEnds, Set, CancelStays
    <3>2. CASE Head(queue).why # "complete"
      BY <1>1, <2>3, <3>2 DEF VisionStops, Set, CancelStays, UiType
    <3>3. QED
      BY <3>1, <3>2
  <2>4. QED
    BY <1>12, <2>1, <2>2, <2>3 DEF RunQueue
<1>13. CASE Continue
  <2>1. ASSUME NEW f \in Flows, NEW o \in Opens, StartOpened(f, o) PROVE CancelStays
    BY <1>1, <1>5, <2>1, NoneIsNoFlow DEF StartOpened, StartEnds, Set, CancelStays
  <2>2. ASSUME NEW f \in Flows, StartAborted(f) \/ SendAborted(f) \/ PollAborted(f) PROVE CancelStays
    BY <1>5, <1>7, <1>8, <2>2 DEF StartAborted, SendAborted, PollAborted
  <2>3. ASSUME NEW o \in Opens, RetryOpened(o) PROVE CancelStays
    BY <1>1, <2>3 DEF RetryOpened, Set, CancelStays, UiType
  <2>4. ASSUME NEW c \in Captures, ShotReturns(c) PROVE CancelStays
    BY <1>1, <2>4 DEF ShotReturns, Set, CancelStays, UiType
  <2>5. QED
    BY <1>13, <2>1, <2>2, <2>3, <2>4 DEF Continue
<1>14. QED
  BY <1>2, <1>3, <1>4, <1>9, <1>10, <1>11, <1>12, <1>13 DEF Next

\* No stop that is left over ends the session of a later customer, and no late
\* answer revives a recommendation that was cancelled.
THEOREM EndsOwnSessionOnly == Spec => EndsOnlyItsOwn
<1>1. KioskInv /\ [Next]_vars => [StopEndsItsPast /\ CancelStays]_vars
  BY StopsItsPast, StaysCancelled DEF CancelStays
<1>2. QED
  BY <1>1, KioskInvariant, PTL DEF Spec, EndsOnlyItsOwn
=============================================================================
