------------------------------ MODULE KioskFlow ------------------------------
(***************************************************************************)
(* The kiosk application (apps/kiosk/src/App.tsx with app/kiosk-machine,    *)
(* async-flow-controller, consent-flow, central-recommendation-flow and     *)
(* recommendation-polling) and the camera it owns.  A step is a task of the *)
(* browser: a touch, a timer, an answer.  Continuations of settled promises *)
(* run before the next task (Quiet), and React's state is what it committed.*)
(*                                                                         *)
(* A flow is one call of beginSession and what follows from it; it names    *)
(* the session it creates.  Operations compare the generation they captured *)
(* with the controller's: theirs is current when flow is theirs.  The       *)
(* calibration promise is that of the flow on the calibration screen.  The  *)
(* Vision client is external here: it has one session, which may be lost.   *)
(* Messages that differ in their wording only are one: the issues of a start *)
(* that failed, the camera denied or in error, insufficient data or failed.  *)
(***************************************************************************)
EXTENDS FrameSource, Sequences

CONSTANTS
  MaxFlows,  \* bound: calls of beginSession
  MaxQueue   \* bound: Vision operations queued when a flow is given up

ASSUME KioskAssumption == MaxFlows \in Nat /\ MaxQueue \in Nat /\ Opens \subseteq Nat /\ None \notin Nat

Flows == 1..MaxFlows

VARIABLES
  ui,         \* the state of the App component
  flow,       \* the flow whose generation is the controller's, or None
  flows,      \* what each flow waits for, and whether its signal is aborted
  refs,       \* sessionStartAbortController, recommendationAbortController
  waiting,    \* the flow that awaits an open, and why
  shooting,   \* the flow that awaits a capture from the lookbook or calibration
  queue,      \* AsyncFlowController: the serialized Vision operations
  vision,     \* external: the session of the Vision client
  learned,    \* the sessions whose creation was answered
  discarded,  \* the sessions a DELETE was sent for
  evidence,   \* the sessions whose observations the buffers hold
  broken      \* transitionKioskScreen has thrown

sessionVars == <<learned, discarded, evidence>>
appVars == <<ui, flow, flows, refs, waiting, shooting, queue, vision, sessionVars, broken>>
vars == <<sourceVars, appVars>>

Pending == {"preparing", "requesting", "generating"}
Settled == {"open", "cancelled", "failed"}
Shot == {"delivered", "cancelled", "failed"}

Init ==
  /\ SourceInit
  /\ ui = [screen |-> "screensaver", analysis |-> "idle", camera |-> "idle", issue |-> "none",
           starting |-> FALSE, session |-> None, shown |-> None, error |-> FALSE]
  /\ flow = None
  /\ flows = [f \in Flows |-> [pc |-> "none", aborted |-> FALSE]]
  /\ refs = [start |-> None, rec |-> None]
  /\ waiting = [o \in Opens |-> [flow |-> None, why |-> "none"]]
  /\ shooting = [c \in Captures |-> [flow |-> None, lookbook |-> FALSE]]
  /\ queue = <<>> /\ vision = None
  /\ learned = {} /\ discarded = {} /\ evidence = {}
  /\ broken = FALSE

-----------------------------------------------------------------------------
(* The screens, the controller and the queue.                               *)

Goes == {<<"screensaver", "START", "menu">>, <<"menu", "SELECT_CATEGORY", "consent">>,
         <<"consent", "AGREE", "calibration">>, <<"consent", "BACK", "menu">>,
         <<"calibration", "CALIBRATION_SUCCESS", "lookbook">>,
         <<"lookbook", "LOOKBOOK_FINISHED", "finalizing">>,
         <<"finalizing", "RECOMMENDATION_READY", "report">>}
        \cup {<<s, "CANCEL", "screensaver">> : s \in {"menu", "consent", "calibration", "lookbook", "finalizing"}}
        \cup {<<s, "RESTART", "screensaver">> :
                s \in {"screensaver", "menu", "consent", "calibration", "lookbook", "finalizing", "report"}}

\* send(event), with the rest of the state already set in u.
Send(u, event) ==
  IF \E s \in {"screensaver", "menu", "consent", "calibration", "lookbook", "finalizing", "report"} :
       <<u.screen, event, s>> \in Goes
  THEN /\ ui' = [u EXCEPT !.screen = CHOOSE s \in {g[3] : g \in Goes} : <<u.screen, event, s>> \in Goes]
       /\ UNCHANGED broken
  ELSE ui' = u /\ broken' = TRUE

Set(u) == ui' = u /\ UNCHANGED broken

Abortable == {"creating", "joining", "sending", "polling"}

\* No continuation of a settled promise is left to run.
Quiet ==
  /\ \A o \in Opens : waiting[o].flow # None => opens[o].pc \notin Settled
  /\ \A c \in Captures : shooting[c].flow # None => captures[c].pc \notin Shot
  /\ \A f \in Flows : ~(flows[f].aborted /\ flows[f].pc \in Abortable)

\* A new generation: what was queued reports its failure no more.
Outdated(q) == [i \in DOMAIN q |-> [q[i] EXCEPT !.current = FALSE]]

Begun == Cardinality({f \in Flows : flows[f].pc # "none"})

Vision(op, f, why) == [op |-> op, flow |-> f, why |-> why, current |-> TRUE]

\* Mutant: an operation does not wait for those before it.
RunAtOnce(q, e) == <<e>> \o q

RunSerialized(q, e) == Append(q, e)

Moved(f, pc) == [flows EXCEPT ![f] = [pc |-> pc, aborted |-> pc # "over" /\ flows[f].aborted]]

-----------------------------------------------------------------------------
(* beginSession.                                                            *)

Begin(f) ==
  /\ Quiet /\ f = Begun + 1
  /\ ui.screen = "consent" /\ ~ui.error /\ ~ui.starting /\ ui.issue # "idle-timeout"
  /\ refs.start = None
  /\ \E o \in Opens :
       /\ \A p \in Opens : p < o => opens[p].pc # "none"
       /\ OpenBegins(o)
       /\ waiting' = [waiting EXCEPT ![o] = [flow |-> f, why |-> "start"]]
  /\ flow' = f /\ flows' = Moved(f, "opening")
  /\ refs' = [refs EXCEPT !.start = f]
  /\ queue' = Outdated(queue)
  /\ Set([ui EXCEPT !.starting = TRUE, !.issue = "none", !.camera = "requesting", !.analysis = "idle"])
  /\ evidence' = {}
  /\ UNCHANGED <<shooting, vision, learned, discarded>>

\* The finally block.
StartEnds(f, u, pc) ==
  /\ refs' = [refs EXCEPT !.start = Unless(@, f)]
  /\ flows' = Moved(f, pc)
  /\ Set(IF flow = f THEN [u EXCEPT !.starting = FALSE] ELSE u)

\* Mutant: the session that was created is not given up.
StartFailsAlone(f, cam, q) ==
  /\ Stop
  /\ queue' = IF flow = f THEN RunSerialized(q, Vision("stop", Begun, "start")) ELSE q
  /\ StartEnds(f, IF flow = f THEN [ui EXCEPT !.camera = cam, !.issue = "start"] ELSE ui, "over")
  /\ UNCHANGED <<flow, shooting, sessionVars>>

\* The catch block stops the camera, whoever uses it now.
StartFails(f, cam, q) ==
  /\ Stop
  /\ discarded' = IF f \in learned THEN discarded \cup {f} ELSE discarded
  /\ queue' = IF flow = f THEN RunSerialized(q, Vision("stop", Begun, "start")) ELSE q
  /\ StartEnds(f, IF flow = f THEN [ui EXCEPT !.camera = cam, !.issue = "start"] ELSE ui, "over")
  /\ UNCHANGED <<flow, shooting, learned, evidence>>

StartOpened(f, o) ==
  /\ waiting[o] = [flow |-> f, why |-> "start"] /\ opens[o].pc \in Settled
  /\ waiting' = [waiting EXCEPT ![o].flow = None]
  /\ CASE opens[o].pc = "open" /\ flow = f ->
            /\ Set([ui EXCEPT !.camera = "ready"]) /\ flows' = Moved(f, "creating")
            /\ UNCHANGED <<sourceVars, flow, refs, shooting, queue, sessionVars>>
       [] opens[o].pc = "open" /\ flow # f ->
            /\ Stop /\ StartEnds(f, ui, "over")
            /\ UNCHANGED <<flow, shooting, queue, sessionVars>>
       [] OTHER -> StartFails(f, "error", queue)
  /\ UNCHANGED vision

\* The manifest and the session: two requests, of which the second has an effect.
CreateAnswers(f) ==
  /\ Quiet /\ flows[f].pc = "creating"
  /\ \/ /\ learned' = learned \cup {f} /\ flows' = Moved(f, "joining")
        /\ queue' = RunSerialized(queue, Vision("start", f, "start"))
        /\ UNCHANGED <<sourceVars, ui, flow, refs, shooting, discarded, evidence, broken>>
     \/ StartFails(f, "idle", queue)
  /\ UNCHANGED <<waiting, vision>>

\* SESSION_START_TIMEOUT_MS.  The Vision operation stays queued, its signal aborted.
StartTimesOut(f) ==
  /\ Quiet /\ flows[f].pc \in {"creating", "joining"}
  /\ StartFails(f, "idle", queue)
  /\ UNCHANGED <<waiting, vision>>

StartAborted(f) ==
  /\ flows[f].pc \in {"creating", "joining"} /\ flows[f].aborted
  /\ StartFails(f, "idle", queue)
  /\ UNCHANGED <<waiting, vision>>

\* visionClient.startSession, at the head of the queue.
VisionStarts ==
  /\ Quiet /\ queue # <<>> /\ Head(queue).op = "start"
  /\ LET f == Head(queue).flow IN
     \/ /\ flows[f].pc = "joining" /\ vision = None
        /\ vision' = f /\ queue' = Tail(queue)
        /\ refs' = [refs EXCEPT !.start = Unless(@, f)]
        /\ IF flow = f
           THEN /\ flows' = Moved(f, "ready")
                /\ Send([ui EXCEPT !.session = f, !.starting = FALSE], "AGREE")
           ELSE flows' = Moved(f, "over") /\ UNCHANGED <<ui, broken>>
        /\ UNCHANGED <<sourceVars, flow, shooting, sessionVars>>
     \/ /\ IF flows[f].pc = "joining"
           THEN StartFails(f, "idle", Tail(queue))
           ELSE /\ queue' = Tail(queue)
                /\ UNCHANGED <<sourceVars, ui, flow, flows, refs, shooting, sessionVars, broken>>
        /\ UNCHANGED vision
  /\ UNCHANGED waiting

-----------------------------------------------------------------------------
(* Calibration.                                                             *)

CalibrationBegins(f) ==
  /\ Quiet /\ ui.screen = "calibration" /\ ~ui.error /\ flow = f /\ flows[f].pc = "ready"
  /\ flows' = Moved(f, "calibrating")
  /\ UNCHANGED <<sourceVars, ui, flow, refs, waiting, shooting, queue, vision, sessionVars, broken>>

\* The catch block of completeCalibration.
CalibrationFails(f, q) ==
  /\ Stop /\ queue' = q /\ flows' = Moved(f, "over")
  /\ Set(IF flow = f THEN [ui EXCEPT !.camera = "error", !.error = TRUE] ELSE ui)
  /\ UNCHANGED <<flow, refs, shooting, sessionVars>>

\* onComplete is called when the screen is still there.
CalibrationAnswers(f) ==
  /\ Quiet /\ flows[f].pc = "calibrating"
  /\ IF flow # f
     THEN flows' = Moved(f, "over") /\ UNCHANGED <<sourceVars, ui, flow, refs, shooting, queue, sessionVars, broken>>
     ELSE \/ /\ vision = f
             /\ flows' = Moved(f, "inferring")
             /\ queue' = RunSerialized(queue, Vision("infer", f, "calibration"))
             /\ UNCHANGED <<sourceVars, ui, flow, refs, shooting, sessionVars, broken>>
          \/ CalibrationFails(f, queue)
  /\ UNCHANGED <<waiting, vision>>

VisionInfers ==
  /\ Quiet /\ queue # <<>> /\ Head(queue).op = "infer"
  /\ LET f == Head(queue).flow IN
     \/ /\ vision = f /\ queue' = Tail(queue)
        /\ IF flow = f
           THEN flows' = Moved(f, "ready") /\ Send(ui, "CALIBRATION_SUCCESS")
           ELSE flows' = Moved(f, "over") /\ UNCHANGED <<ui, broken>>
        /\ UNCHANGED <<sourceVars, flow, refs, shooting, sessionVars>>
     \/ CalibrationFails(f, Tail(queue))
  /\ UNCHANGED <<waiting, vision>>

VisionLost ==
  /\ Quiet /\ vision # None /\ vision' = None
  /\ UNCHANGED <<sourceVars, ui, flow, flows, refs, waiting, shooting, queue, sessionVars, broken>>

-----------------------------------------------------------------------------
(* Captures, from the calibration screen and from the playing lookbook.     *)

Capturing(f) ==
  /\ flow = f /\ ~ui.error
  /\ \/ ui.screen = "calibration" /\ flows[f].pc = "calibrating"
     \/ ui.screen = "lookbook" /\ ui.camera = "ready"

ShotBegins(c) ==
  /\ Quiet /\ flow # None /\ Capturing(flow)
  /\ CaptureBegins(c)
  /\ shooting' = [shooting EXCEPT ![c] = [flow |-> flow, lookbook |-> ui.screen = "lookbook"]]
  /\ UNCHANGED <<ui, flow, flows, refs, waiting, queue, vision, sessionVars, broken>>

\* There is no camera: FrameSource refuses, and the lookbook shows it.
ShotRefused ==
  /\ Quiet /\ flow # None /\ Capturing(flow)
  /\ ui.screen = "lookbook" /\ camera = None
  /\ Stop /\ Set([ui EXCEPT !.camera = "error"])
  /\ UNCHANGED <<flow, flows, refs, waiting, shooting, queue, vision, sessionVars>>

\* The consumer is visionClient.sendFrame, which refuses a frame of another session.
ShotSteps(c) ==
  /\ Quiet
  /\ \/ FrameMade(c) \/ CaptureFails(c)
     \/ vision = shooting[c].flow /\ FrameConsumed(c)
  /\ UNCHANGED appVars

\* Mutant: a delivery is noted for a capture that was cancelled, too.
ShotNoted(c) == shooting[c].lookbook /\ captures[c].pc # "failed"

ShotCounts(c) == shooting[c].lookbook /\ captures[c].pc = "delivered"

ShotReturns(c) ==
  LET f == shooting[c].flow IN
  /\ f # None /\ captures[c].pc \in Shot
  /\ shooting' = [shooting EXCEPT ![c].flow = None]
  /\ evidence' = IF ShotCounts(c) THEN evidence \cup {f} ELSE evidence
  /\ IF shooting[c].lookbook /\ captures[c].pc = "failed" /\ flow = f
     THEN Stop /\ Set([ui EXCEPT !.camera = "error"])
     ELSE UNCHANGED <<sourceVars, ui, broken>>
  /\ UNCHANGED <<flow, flows, refs, waiting, queue, vision, learned, discarded>>

\* retryCamera.  The camera is off by then: its stop has nothing to stop.
CameraRetried ==
  /\ Quiet /\ ui.screen = "lookbook" /\ ~ui.error /\ ui.camera = "error"
  /\ \E o \in Opens :
       /\ \A p \in Opens : p < o => opens[p].pc # "none"
       /\ OpenBegins(o)
       /\ waiting' = [waiting EXCEPT ![o] = [flow |-> flow, why |-> "retry"]]
  /\ Set([ui EXCEPT !.camera = "requesting"])
  /\ UNCHANGED <<flow, flows, refs, shooting, queue, vision, sessionVars>>

RetryOpened(o) ==
  LET f == waiting[o].flow IN
  /\ f # None /\ waiting[o].why = "retry" /\ opens[o].pc \in Settled
  /\ waiting' = [waiting EXCEPT ![o].flow = None]
  /\ IF flow = f
     THEN /\ Set([ui EXCEPT !.camera = IF opens[o].pc = "open" THEN "ready" ELSE "error"])
          /\ UNCHANGED sourceVars
     ELSE /\ IF opens[o].pc = "open" THEN Stop ELSE UNCHANGED sourceVars
          /\ UNCHANGED <<ui, broken>>
  /\ UNCHANGED <<flow, flows, refs, shooting, queue, vision, sessionVars>>

\* handlePlaybackUnavailable: the player has no video to go on with.
PlaybackUnavailable ==
  /\ Quiet /\ ui.screen = "lookbook" /\ ~ui.error /\ ui.camera # "idle"
  /\ Stop /\ Set([ui EXCEPT !.camera = "idle"])
  /\ UNCHANGED <<flow, flows, refs, waiting, shooting, queue, vision, sessionVars>>

-----------------------------------------------------------------------------
(* completeLookbook and loadRecommendation.                                 *)

LookbookEnds(f) ==
  /\ Quiet /\ ui.screen = "lookbook" /\ ~ui.error /\ ui.camera = "ready" /\ flow = f
  /\ Stop
  /\ refs' = [refs EXCEPT !.rec = f]
  /\ flows' = Moved(f, "stopping")
  /\ queue' = RunSerialized(queue, Vision("stop", Begun, "complete"))
  /\ Send([ui EXCEPT !.camera = "idle", !.analysis = "preparing"], "LOOKBOOK_FINISHED")
  /\ UNCHANGED <<flow, waiting, shooting, vision, sessionVars>>

\* Nothing that was observed is kept once a current submission has ended.
SubmitEnds(f, u, pc, rec) ==
  /\ flows' = Moved(f, pc)
  /\ refs' = [refs EXCEPT !.rec = IF rec # None THEN rec ELSE Unless(@, f)]
  /\ evidence' = IF flow = f THEN {} ELSE evidence
  /\ Set(u)

\* Mutant: a failure is shown without looking at the generation.
SubmitFailsLoud(f) ==
  /\ discarded' = discarded \cup {f}
  /\ SubmitEnds(f, [ui EXCEPT !.analysis = "failed"], "over", None)
  /\ UNCHANGED learned

SubmitFails(f) ==
  /\ discarded' = discarded \cup {f}
  /\ SubmitEnds(f, IF flow = f /\ ~flows[f].aborted THEN [ui EXCEPT !.analysis = "failed"] ELSE ui, "over", None)
  /\ UNCHANGED learned

\* visionClient.stopSession, at the head of the queue, and what awaited it.
VisionStops ==
  /\ Quiet /\ queue # <<>> /\ Head(queue).op = "stop"
  /\ queue' = Tail(queue) /\ vision' = None
  /\ LET e == Head(queue)
         f == e.flow
     IN  IF e.why = "complete"
         THEN \/ IF flow = f
                 THEN /\ flows' = Moved(f, "sending") /\ Set([ui EXCEPT !.analysis = "requesting"])
                      /\ UNCHANGED <<refs, sessionVars>>
                 ELSE SubmitEnds(f, ui, "over", None) /\ UNCHANGED <<learned, discarded>>
              \/ SubmitFails(f)
         ELSE /\ \/ e.current /\ e.why # "cancel" /\ Set([ui EXCEPT !.error = TRUE])
                 \/ UNCHANGED <<ui, broken>>
              /\ UNCHANGED <<flows, refs, sessionVars>>
  /\ UNCHANGED <<sourceVars, flow, waiting, shooting>>

\* Mutant: pollingSessionId still names the session, and the effect returns.
AlreadyPolled(f) == SubmitEnds(f, [ui EXCEPT !.analysis = "generating"], "over", None)

\* The effect on "generating" starts to poll.
Accepted(f) == SubmitEnds(f, [ui EXCEPT !.analysis = "generating"], "polling", f)

\* The batches, and the request for a recommendation.
SendAnswers(f) ==
  /\ Quiet /\ flows[f].pc = "sending"
  /\ \/ /\ Accepted(f)
        /\ UNCHANGED <<learned, discarded>>
     \/ SubmitFails(f)
  /\ UNCHANGED <<sourceVars, flow, waiting, shooting, queue, vision>>

SendAborted(f) ==
  /\ flows[f].pc = "sending" /\ flows[f].aborted
  /\ SubmitFails(f)
  /\ UNCHANGED <<sourceVars, flow, waiting, shooting, queue, vision>>

LoadEnds(f, u, sends) ==
  /\ flows' = Moved(f, IF sends THEN "shown" ELSE "over")
  /\ refs' = [refs EXCEPT !.rec = Unless(@, f)]
  /\ IF sends THEN Send(u, "RECOMMENDATION_READY") ELSE Set(u)

LoadFails(f) ==
  /\ discarded' = IF flows[f].aborted THEN discarded ELSE discarded \cup {f}
  /\ LoadEnds(f, IF flows[f].aborted \/ flow # f THEN ui ELSE [ui EXCEPT !.analysis = "failed"], FALSE)

PollAnswers(f) ==
  /\ Quiet /\ flows[f].pc = "polling"
  /\ \/ flows' = Moved(f, "fetching") /\ UNCHANGED <<ui, refs, discarded, broken>>
     \/ LoadFails(f)
  /\ UNCHANGED <<sourceVars, flow, waiting, shooting, queue, vision, learned, evidence>>

PollAborted(f) ==
  /\ flows[f].pc = "polling" /\ flows[f].aborted
  /\ LoadFails(f)
  /\ UNCHANGED <<sourceVars, flow, waiting, shooting, queue, vision, learned, evidence>>

\* Mutant: the product is shown without looking at the generation again.
ProductAnyway(f) == flow # None \/ ui.screen = "finalizing"

ProductCurrent(f) == flow = f

\* The product's request has no signal: it may answer after a restart.
ProductAnswers(f) ==
  /\ Quiet /\ flows[f].pc = "fetching"
  /\ \/ /\ IF ProductCurrent(f)
           THEN LoadEnds(f, [ui EXCEPT !.shown = f], TRUE)
           ELSE LoadEnds(f, ui, FALSE)
        /\ UNCHANGED discarded
     \/ LoadFails(f)
  /\ UNCHANGED <<sourceVars, flow, waiting, shooting, queue, vision, learned, evidence>>

-----------------------------------------------------------------------------
(* Touches and the consent timer.                                           *)

Aborted(set) ==
  [f \in Flows |-> IF f \in set /\ flows[f].pc # "none" THEN [flows[f] EXCEPT !.aborted = TRUE] ELSE flows[f]]

Reset == [ui EXCEPT !.analysis = "idle", !.camera = "idle", !.issue = "none", !.starting = FALSE]

\* A new generation, the camera and the observations given up, Vision stopped.
Abandon(why, aborted, u, event) ==
  /\ Len(queue) < MaxQueue
  /\ flow' = None
  /\ flows' = Aborted(aborted)
  /\ refs' = [start |-> None, rec |-> IF why = "timeout" THEN refs.rec ELSE None]
  /\ Stop /\ evidence' = {}
  /\ queue' = RunSerialized(Outdated(queue), Vision("stop", Begun, why))
  /\ IF event = "none" THEN Set(u) ELSE Send(u, event)
  /\ UNCHANGED <<waiting, shooting, vision, learned>>

\* Mutant: it is not asked whether there is a session.
RestartDiscardsAny == discarded \cup {ui.session}

RestartDiscards ==
  IF ui.session # None /\ ui.screen # "report" THEN discarded \cup {ui.session} ELSE discarded

Restart ==
  /\ Quiet
  /\ \/ ui.error
     \/ ui.screen \in {"menu", "consent", "calibration", "lookbook", "report"}
     \/ ui.screen = "finalizing" /\ ui.analysis \notin Pending
  /\ discarded' = RestartDiscards
  /\ Abandon("teardown", {refs.start, refs.rec},
             [Reset EXCEPT !.session = None, !.shown = None, !.error = FALSE], "RESTART")

CancelConsent ==
  /\ Quiet /\ ui.screen = "consent" /\ ~ui.error /\ (ui.starting => ui.issue # "none")
  /\ Abandon("teardown", {refs.start, refs.rec},
             [Reset EXCEPT !.session = None, !.shown = None], "CANCEL")
  /\ UNCHANGED discarded

\* CONSENT_IDLE_TIMEOUT_MS
ConsentTimesOut ==
  /\ Quiet /\ ui.screen = "consent" /\ ~ui.error /\ ~ui.starting /\ ui.issue = "none"
  /\ Abandon("timeout", {refs.start}, [Reset EXCEPT !.issue = "idle-timeout"], "none")
  /\ UNCHANGED discarded

CancelRecommendation ==
  /\ Quiet /\ ui.screen = "finalizing" /\ ~ui.error /\ ui.analysis \in Pending
  /\ Abandon("cancel", {refs.rec}, [ui EXCEPT !.camera = "idle", !.analysis = "cancelled"], "none")
  /\ discarded' = IF ui.session = None THEN discarded ELSE discarded \cup {ui.session}

Touch ==
  /\ Quiet /\ ~ui.error
  /\ \/ ui.screen = "screensaver" /\ Send(ui, "START")
     \/ ui.screen = "menu" /\ Send([ui EXCEPT !.issue = "none"], "SELECT_CATEGORY")
     \/ ui.screen = "consent" /\ ui.issue = "idle-timeout" /\ Set([ui EXCEPT !.issue = "none"])
  /\ UNCHANGED <<sourceVars, flow, flows, refs, waiting, shooting, queue, vision, sessionVars>>

\* The camera and the display are put away; the generation stays.
Back ==
  /\ Quiet /\ ui.screen = "consent" /\ ~ui.error /\ ~ui.starting /\ ui.issue = "none"
  /\ Stop /\ Send([ui EXCEPT !.camera = "idle"], "BACK")
  /\ UNCHANGED <<flow, flows, refs, waiting, shooting, queue, vision, sessionVars>>

Browser == \E o \in Opens : Quiet /\ OpenStep(o) /\ UNCHANGED appVars

Continue ==
  \/ \E f \in Flows : \/ \E o \in Opens : StartOpened(f, o)
                      \/ StartAborted(f) \/ SendAborted(f) \/ PollAborted(f)
  \/ \E o \in Opens : RetryOpened(o)
  \/ \E c \in Captures : ShotReturns(c)

Answer(f) == CreateAnswers(f) \/ CalibrationAnswers(f) \/ SendAnswers(f) \/ PollAnswers(f) \/ ProductAnswers(f)

RunQueue == VisionStarts \/ VisionInfers \/ VisionStops

Next ==
  \/ Touch \/ Back \/ Restart \/ CancelConsent \/ ConsentTimesOut \/ CancelRecommendation
  \/ CameraRetried \/ PlaybackUnavailable \/ VisionLost \/ ShotRefused
  \/ \E f \in Flows : Begin(f) \/ StartTimesOut(f) \/ CalibrationBegins(f) \/ LookbookEnds(f) \/ Answer(f)
  \/ \E c \in Captures : ShotBegins(c) \/ ShotSteps(c)
  \/ Browser \/ RunQueue \/ Continue

\* Promises that are settled are continued; requests, captures and Vision
\* operations end by their own timeouts or answers.
Fairness ==
  /\ WF_vars(Continue) /\ WF_vars(RunQueue) /\ WF_vars(Browser)
  /\ \A f \in Flows : WF_vars(Answer(f))

Spec == Init /\ [][Next]_vars /\ Fairness
-----------------------------------------------------------------------------
TypeOK ==
  /\ SourceTypeOK
  /\ ui \in [screen : {g[1] : g \in Goes}, camera : {"idle", "requesting", "ready", "error"},
             analysis : Pending \cup {"idle", "cancelled", "failed"}, issue : {"none", "idle-timeout", "start"},
             starting : BOOLEAN, session : Flows \cup {None}, shown : Flows \cup {None}, error : BOOLEAN]
  /\ flow \in Flows \cup {None} /\ vision \in Flows \cup {None}
  /\ \A f \in Flows : flows[f].aborted \in BOOLEAN
  /\ \A o \in Opens : waiting[o].flow \in Flows \cup {None}
  /\ \A c \in Captures : shooting[c].flow \in Flows \cup {None}
  /\ learned \cup discarded \cup evidence \subseteq Flows

\* No operation, however late, sends an event the screen cannot take.
NoInvalidEvent == ~broken

InProgress == {"creating", "joining"}

\* A session the kiosk knows of is being started, is the one on the screen, or
\* was given up; also when the start fails or is timed out halfway, or a
\* submission fails after a restart.
SessionsDisposed ==
  \A f \in learned : f \in discarded \/ f = ui.session \/ flows[f].pc \in InProgress
                     \/ flows[f].pc = "shown"

\* The report shows the recommendation of the session on the screen.
ShownIsOwn == ui.screen = "report" => ui.shown = ui.session /\ ui.shown # None

\* The observations in the buffers are those of the current flow.
EvidenceIsOwn == evidence \subseteq {flow}

\* The camera is on, or being switched on, only for a start in progress, the
\* calibration and the lookbook; and never for a flow that was given up.
CameraOffAtRest ==
  camera # None \/ openTask # None =>
    /\ flow # None
    /\ ui.screen = "consent" => ui.starting
    /\ ui.screen \in {"consent", "calibration", "lookbook"}

\* What the screen shows and what is sent for it is of one session.
OwnDataOnly == TypeOK /\ NoInvalidEvent /\ ShownIsOwn /\ EvidenceIsOwn

\* No stream, no track and no frame outlives what it was opened for.
CameraReleased == CameraOffAtRest /\ StreamsOwned /\ FramesOwned /\ CaptureOfCamera

StopEndsItsPast ==
  vision # None /\ queue # <<>> /\ Head(queue).op = "stop" /\ queue' = Tail(queue) /\ vision' = None
    => vision <= Head(queue).flow

CancelStays ==
  ui.analysis = "cancelled" => ui'.analysis = "cancelled" \/ ui'.screen = "screensaver"

\* A stop that was queued before a session was started does not end that
\* session, and a recommendation that was cancelled stays so until the customer
\* goes on.
EndsOnlyItsOwn == [][StopEndsItsPast /\ CancelStays]_vars

\* A start ends, and a customer who waits for the recommendation hears of it.
NobodyWaits ==
  /\ ui.starting ~> ~ui.starting
  /\ (ui.screen = "finalizing" /\ ui.analysis \in Pending)
       ~> ~(ui.screen = "finalizing" /\ ui.analysis \in Pending)

\* The calibration begins with the camera preview: the catch block of a start or
\* a calibration that was given up may have switched the camera off.
CalibrationSeesCustomer ==
  ui.screen = "calibration" /\ ~ui.error /\ Quiet => camera # None
=============================================================================
