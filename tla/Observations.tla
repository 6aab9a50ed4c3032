---------------------------- MODULE Observations ----------------------------
(* The way of an observation: the stream that admits a frame and the live    *)
(* session that sends it in, the player and the app that make it, the        *)
(* buffer that takes it in and the loop that analyses what the buffer hands  *)
(* over, what is shown where it looks, and the decision that comes of it. A  *)
(* behaviour is of one part, track; the other parts stay as they begin. In   *)
(* track "player" the app's batches go to the buffer.                        *)
EXTENDS EvidenceWindows, GroundedDecision, Polygon, MediaFile, LookbookContent

CONSTANTS
  MaxBuffered, Values, MissingReasons, Batches, Envelopes,       \* of the buffer
  Length, Gap, Chunk, MaxLayouts, MaxClock, MaxCalls, MaxSeeks,  \* of the player and the app
  MaxKept,                                                       \* frames the API keeps of them
  Hellos, Messages, Memory, FrameGap, MaxTime, MaxAdmitted,      \* of the stream
  MaxImages, MaxFaults                                           \* of the live session

VARIABLES
  track,
  phase, timeline, sequences, highest, fingerprints, numbers, given, taken,
  clock, video, playing, epoch, next, shot, samples, missing, layouts, seeks,
  stage, batches, sent,
  token, hello, now, inference, calibrating, gap, stream, sequence, received, order, keys, busy,
  closing, admitted, opened, told,
  live, camera, session, gateway, eye, worker, restart, offered, waiting, inFlight, image, ends,
  uploads, cancelled, closed, known, events, completed, stuck, faults

Buffer == INSTANCE ObservationBuffer WITH Reasons <- MissingReasons
bufferVars == <<phase, timeline, sequences, highest, fingerprints, numbers, given, taken>>

Kiosk == INSTANCE ObservationBatching
playerVars == <<clock, video, playing, epoch, next, shot, samples, missing, layouts, seeks,
                stage, batches, sent>>

\* What the API makes of the app's batches.
Store == INSTANCE ObservationBuffer WITH MaxBuffered <- MaxKept,
  Values <- {"v"}, Reasons <- {"no_face", "not_observed"}, Batches <- {}, Envelopes <- {}

Admission == INSTANCE StreamAdmission WITH
  Gap <- FrameGap, MaxClock <- MaxTime, MaxFrames <- MaxAdmitted,
  stage <- hello, clock <- now, epoch <- stream

Live == INSTANCE LiveSession WITH batches <- uploads

ASSUME ObservationsAssumption ==
  /\ Buffer!BufferAssumption /\ Admission!AdmissionAssumption /\ Live!LiveAssumption
  /\ Kiosk!BatchingAssumption /\ MaxKept \in Nat \ {0}

-----------------------------------------------------------------------------
(* The app hands its batches to the API.                                    *)

\* A batch as the API takes it: a valid gaze is a value.
Received(o) ==
  [context |-> [epoch |-> o.epoch, frame |-> o.seq, seq |-> o.seq, at |-> o.at,
                offset |-> o.offset, video |-> o.video],
   sample |-> [m \in {"gaze", "expression"} |->
     IF m = "expression" THEN "not_observed"
     ELSE IF Kiosk!Valid(o) THEN "v" ELSE o.gaze]]

Request ==
  LET b == batches[sent + 1]
  IN [id |-> b.id, seq |-> b.number, obs |-> [i \in 1..Len(b.obs) |-> Received(b.obs[i])]]

PlayerNext ==
  \/ Kiosk!Watch /\ UNCHANGED bufferVars
  \/ Kiosk!Accepted /\ Kiosk!Admitted(batches[sent + 1]) /\ Store!Append202(Request)
  \/ Kiosk!Refused /\ ~Kiosk!Admitted(batches[sent + 1]) /\ UNCHANGED bufferVars
  \/ Kiosk!Refused /\ Kiosk!Admitted(batches[sent + 1]) /\ Store!AppendRefused(Request)
  \/ Kiosk!Completed /\ Store!Complete
  \/ Kiosk!Discarded /\ (Store!Forget \/ (phase = "none" /\ UNCHANGED bufferVars))

-----------------------------------------------------------------------------
(* All the parts.                                                           *)

admissionVars == <<token, hello, now, inference, calibrating, gap, stream, sequence, received, order,
                   keys, busy, closing, admitted, opened, told>>
liveVars == <<live, camera, session, gateway, eye, worker, restart, offered, waiting, inFlight,
              image, ends, uploads, cancelled, closed, known, events, completed, stuck, faults>>

apiVars == <<bufferVars, playerVars, decisionVars>>
gatewayVars == <<admissionVars, liveVars>>
lookbookVars == <<polygonVars, mediaVars, contentVars>>
observationVars == <<track, vars, apiVars, gatewayVars, lookbookVars>>

\* A part that is not looked at begins in one way.
ObservationsInit ==
  /\ track \in {"windows", "buffer", "player", "decision", "admission", "live", "polygon", "media",
                "content"}
  /\ Init /\ Buffer!Init /\ Kiosk!Init
  /\ IF track = "decision" THEN DecisionInit
     ELSE /\ client = "stub" /\ variant = "C" /\ sourced = FALSE /\ demo = FALSE
          /\ looks = <<>> /\ request = "none" /\ decision = NoDecision
  /\ Admission!Init /\ (track # "admission" => token = "issued")
  /\ Live!SessionInit /\ (track # "live" => live = "new")
  /\ PolygonInit
  /\ MediaInit
  /\ track # "media" => length = (CHOOSE size \in FileSizes : TRUE) /\ movie = CHOOSE m \in Movies : TRUE
  /\ ContentInit /\ (track # "content" => environment = CHOOSE e \in Environments : TRUE)

\* What the API does with an observation.
ApiNext ==
  \/ track = "windows" /\ Next /\ UNCHANGED apiVars
  \/ track = "buffer" /\ Buffer!Next /\ UNCHANGED <<vars, playerVars, decisionVars>>
  \/ track = "player" /\ PlayerNext /\ UNCHANGED <<vars, decisionVars>>
  \/ track = "decision" /\ DecisionNext /\ UNCHANGED <<vars, bufferVars, playerVars>>

GatewayNext ==
  \/ track = "admission" /\ Admission!Next /\ UNCHANGED liveVars
  \/ track = "live" /\ Live!SessionNext /\ UNCHANGED admissionVars

LookbookNext ==
  \/ track = "polygon" /\ PolygonNext /\ UNCHANGED <<mediaVars, contentVars>>
  \/ track = "media" /\ MediaNext /\ UNCHANGED <<polygonVars, contentVars>>
  \/ track = "content" /\ ContentNext /\ UNCHANGED <<polygonVars, mediaVars>>

ObservationsNext ==
  \/ ApiNext /\ UNCHANGED <<track, gatewayVars, lookbookVars>>
  \/ GatewayNext /\ UNCHANGED <<track, vars, apiVars, lookbookVars>>
  \/ LookbookNext /\ UNCHANGED <<track, vars, apiVars, gatewayVars>>

ObservationsSpec == ObservationsInit /\ [][ObservationsNext]_observationVars

-----------------------------------------------------------------------------
(* Properties.                                                              *)

\* Stated at the ends of ObservationBuffer and StreamAdmission: what was
\* taken in, and why. A part that has not begun is left out.
KeptExactly ==
  /\ track = "buffer" => Buffer!KeptExactly
  /\ track = "admission" => Admission!AdmissionIsSound
LogSpec == Buffer!LogSpec

\* Stated at the end of ObservationBatching.
RunsAreTrue == Kiosk!RunsAreTrue

\* Stated at the ends of GroundedDecision, and of the modules of what the
\* decision's areas come from: Polygon, MediaFile and LookbookContent.
DecisionsGrounded ==
  /\ track = "decision" => DecisionIsGrounded
  /\ track = "polygon" => InsideIsRight
  /\ track = "media" => MediaIsRight
  /\ track = "content" => ContentIsSound

\* What the API is handed at the end is every frame the kiosk had a result
\* for, once, in its own context and with a gaze exactly if it was valid. Its
\* batches never contradict each other, and the API refuses none of them
\* unless the session has more frames than it keeps or a frame was taken at
\* the video's very end (buildObservationBatchesV2, append_batch). The frames
\* of a live session: as LiveSession states at its end.
SubmissionExact ==
  /\ track = "live" => Live!SessionIsSound
  /\ ~Kiosk!Conflict
  /\ \A k \in 1..Len(batches) : Len(batches[k].obs) \in 1..Chunk
  /\ stage = "refused" =>
       \/ Len(Kiosk!Frames) > MaxKept
       \/ \E f \in Kiosk!Collected : f.video = Length
  /\ stage = "completed" =>
       /\ Cardinality(DOMAIN given) = Cardinality(Kiosk!Collected)
       /\ \A f \in Kiosk!Collected :
            /\ <<f.epoch, f.seq>> \in DOMAIN given
            /\ LET o == given[<<f.epoch, f.seq>>] IN
                 /\ o.context.at = f.at /\ o.context.video = f.video
                 /\ o.sample["gaze"] = "v" <=> Kiosk!Valid(f)
=============================================================================
