------------------------ MODULE ObservationBatching -------------------------
(***************************************************************************)
(* How the kiosk makes observations: the player that gives each captured    *)
(* frame its context (LookbookPlayer, video-context), the lists the app      *)
(* collects results in (App), and the batches built from them when the       *)
(* video has ended (observation-batch-v2, central-recommendation-flow).      *)
(*                                                                         *)
(* A frame's identifier is its sequence.  The app hands over no expression   *)
(* samples, so that half of the builder is left out; a replaced source does  *)
(* not occur, since a session has one video.                                 *)
(***************************************************************************)
EXTENDS Integers, FiniteSets, SequencesExt

CONSTANTS
  Length,      \* the video's duration
  Gap,         \* CONTINUITY_GAP_MS
  Chunk,       \* MAX_OBSERVATIONS_PER_BATCH
  MaxLayouts,  \* MAX_CAPTURED_FRAME_LAYOUTS
  MaxClock, MaxCalls, MaxSeeks   \* bounds: time, captures asked for, seeks

BatchingAssumption ==
  /\ Length \in Nat /\ Gap \in Nat /\ Chunk \in Nat \ {0} /\ MaxLayouts \in Nat
  /\ MaxClock \in Nat /\ MaxCalls \in Nat /\ MaxSeeks \in Nat

Valid(f) == f.gaze = "point"        \* wherever in the layout it lies
Nothing == [seq |-> -1]

VARIABLES
  clock,     \* performance.now
  video,     \* video.currentTime
  playing,   \* isPlaying
  epoch,     \* playbackEpochRef
  next,      \* nextVisionFrameSequence
  shot,      \* the context of the frame at work, or Nothing
  samples,   \* gazeSamples
  missing,   \* gazeUnavailableSamples
  layouts,   \* videoLayoutsByFrameId: the frames in it, oldest first
  seeks,     \* history: how often playback has jumped
  stage,     \* "watching", "ended", "sending", "completed", "refused", "discarded"
  batches,   \* what is submitted
  sent       \* how many of them are accepted

player == <<clock, video, playing, epoch, next, shot, layouts, seeks>>
results == <<samples, missing>>
submission == <<stage, batches, sent>>

Init ==
  /\ clock = 0 /\ video = 0 /\ playing = FALSE /\ epoch = 0 /\ next = 0
  /\ shot = Nothing /\ samples = <<>> /\ missing = <<>> /\ layouts = <<>> /\ seeks = 0
  /\ stage = "watching" /\ batches = <<>> /\ sent = 0

-----------------------------------------------------------------------------
(* The player.                                                              *)

Least(a, b) == IF a < b THEN a ELSE b

\* The video follows the clock while it plays, and may wait for data.
TimePasses(d) ==
  /\ stage = "watching" /\ clock + d <= MaxClock
  /\ clock' = clock + d
  /\ \/ UNCHANGED video
     \/ playing /\ video' = Least(video + d, Length)
  /\ UNCHANGED <<playing, epoch, next, shot, layouts, seeks, results, submission>>

Pause ==
  /\ stage = "watching" /\ playing
  /\ playing' = FALSE
  /\ UNCHANGED <<clock, video, epoch, next, shot, layouts, seeks, results, submission>>

\* Mutant: playback starts over in the same epoch.
PlayAgainSameEpoch ==
  /\ stage = "watching" /\ ~playing
  /\ playing' = TRUE
  /\ IF video = Length
     THEN video' = 0 /\ seeks' = seeks + 1
     ELSE UNCHANGED <<video, seeks>>
  /\ UNCHANGED <<clock, epoch, next, shot, layouts, results, submission>>

\* togglePlayback: an ended video starts over in a new epoch.
Play ==
  /\ stage = "watching" /\ ~playing
  /\ playing' = TRUE
  /\ IF video = Length
     THEN epoch' = epoch + 1 /\ video' = 0 /\ seeks' = seeks + 1
     ELSE UNCHANGED <<epoch, video, seeks>>
  /\ UNCHANGED <<clock, next, shot, layouts, results, submission>>

\* Mutant: the epoch only advances on a seek backward.
SeekBackOnly(t) ==
  /\ stage = "watching" /\ seeks < MaxSeeks
  /\ epoch' = (IF t < video THEN epoch + 1 ELSE epoch) /\ video' = t /\ seeks' = seeks + 1
  /\ UNCHANGED <<clock, playing, next, shot, layouts, results, submission>>

Seek(t) ==
  /\ stage = "watching" /\ seeks < MaxSeeks
  /\ epoch' = epoch + 1 /\ video' = t /\ seeks' = seeks + 1
  /\ UNCHANGED <<clock, playing, next, shot, layouts, results, submission>>

\* readFrameContext
Context == [seq |-> next, at |-> clock, video |-> video, epoch |-> epoch, seeks |-> seeks]

\* rememberCapturedFrameLayout
Remembered(l) == IF Len(l) > MaxLayouts THEN Tail(l) ELSE l

\* captureCurrentFrame uses up a sequence even when the frame source drops
\* the call because a frame is at work; the context is read only if not.
Capture ==
  /\ stage = "watching" /\ playing /\ next < MaxCalls
  /\ next' = next + 1
  /\ IF shot = Nothing
     THEN shot' = Context /\ layouts' = Remembered(Append(layouts, next))
     ELSE UNCHANGED <<shot, layouts>>
  /\ UNCHANGED <<clock, video, playing, epoch, seeks, results, submission>>

-----------------------------------------------------------------------------
(* Results.                                                                 *)

AtWork == shot # Nothing /\ stage \in {"watching", "ended"} /\ shot' = Nothing

With(result) == [seq |-> shot.seq, at |-> shot.at, video |-> shot.video,
                 epoch |-> shot.epoch, seeks |-> shot.seeks, gaze |-> result]

\* The gaze listener: a point, or an invalid sample with its reason.
Heard(result) ==
  /\ AtWork
  /\ samples' = Append(samples, With(result))
  /\ UNCHANGED <<clock, video, playing, epoch, next, layouts, seeks, missing, submission>>

\* The unavailable listener, or the consumer that finds no result after the
\* delivery.
NotHeard ==
  /\ AtWork
  /\ missing' = Append(missing, With("not_observed"))
  /\ UNCHANGED <<clock, video, playing, epoch, next, layouts, seeks, samples, submission>>

\* The delivery fails: the camera stops, and a camera that is not ready
\* pauses the video.
Fails ==
  /\ AtWork
  /\ playing' = FALSE
  /\ UNCHANGED <<clock, video, epoch, next, layouts, seeks, results, submission>>

\* handleEnded, once; completeLookbook stops the camera.
Ended ==
  /\ stage = "watching" /\ video = Length
  /\ stage' = "ended" /\ playing' = FALSE
  /\ UNCHANGED <<clock, video, epoch, next, shot, layouts, seeks, results, batches, sent>>

-----------------------------------------------------------------------------
(* The batches.                                                             *)

Collected == ToSet(samples) \cup ToSet(missing)

\* fuseByFrameId raises on two results, contexts or owners of one sequence.
Conflict == \E a, b \in Collected : a.seq = b.seq /\ a # b

\* In the order of their sequences.
Frames ==
  LET Place(f) == Cardinality({g \in Collected : g.seq <= f.seq})
  IN [i \in 1..Cardinality(Collected) |-> CHOOSE f \in Collected : Place(f) = i]

\* isContinuityReset
ContinuityReset(prev, f) ==
  \/ f.epoch # prev.epoch
  \/ f.at <= prev.at \/ f.at - prev.at > Gap
  \/ f.video < prev.video

\* mapAttention
Attention(f) ==
  IF ~Valid(f) THEN "source_gaze_unavailable"
  ELSE IF f.seq \notin ToSet(layouts) THEN "capture_layout_unavailable"
  ELSE f.gaze

\* buildGazeDerived, and what is left of an observation when the frame has no
\* valid gaze.
Derived(prev, started, f, isFirst) ==
  IF ~Valid(f) THEN [for |-> -1, moved |-> FALSE, why |-> "source_gaze_unavailable"]
  ELSE IF prev = Nothing \/ ContinuityReset(prev, f)
  THEN [for |-> 0, moved |-> FALSE,
        why |-> IF isFirst THEN "no_previous_observation" ELSE "continuity_reset"]
  ELSE [for |-> f.at - started, moved |-> TRUE, why |-> "backend_aoi_required"]

\* One frame of buildObservations.  forced is gazeWasReset.
Observed(d, f) ==
  LET valid == Valid(f)
      derived == Derived(d.prev, d.started, f, d.prev = Nothing /\ ~d.forced)
      passed == f.at - d.origin
      offset == IF passed > d.offset THEN passed ELSE d.offset
  IN [prev |-> IF valid THEN f ELSE Nothing,
      started |-> IF derived.moved THEN d.started ELSE f.at,
      forced |-> ~valid, offset |-> offset, origin |-> d.origin,
      out |-> Append(d.out, [seq |-> f.seq, at |-> f.at, offset |-> offset, video |-> f.video,
                             epoch |-> f.epoch, gaze |-> f.gaze, attention |-> Attention(f),
                             derived |-> derived])]

Observations ==
  LET frames == Frames
      observed[n \in 0..Len(frames)] ==
        IF n = 0
        THEN [prev |-> Nothing, started |-> 0, forced |-> FALSE, offset |-> 0,
              origin |-> frames[1].at, out |-> <<>>]
        ELSE Observed(observed[n - 1], frames[n])
  IN IF frames = <<>> THEN <<>> ELSE observed[Len(frames)].out

\* buildObservationBatchesV2
BatchesOf(obs) ==
  [k \in 1..((Len(obs) + Chunk - 1) \div Chunk) |->
    [id |-> k, number |-> k - 1,
     obs |-> SubSeq(obs, (k - 1) * Chunk + 1, Least(k * Chunk, Len(obs)))]]

\* The stream has stopped: what was heard until now is what is submitted.
Build ==
  /\ stage = "ended"
  /\ IF Conflict
     THEN stage' = "discarded" /\ UNCHANGED batches
     ELSE stage' = "sending" /\ batches' = BatchesOf(Observations)
  /\ shot' = Nothing
  /\ UNCHANGED <<clock, video, playing, epoch, next, layouts, seeks, results, sent>>

-----------------------------------------------------------------------------
(* The submission.                                                          *)

Sending == stage = "sending" /\ sent < Len(batches)

\* append_batch before its lock: attention belongs to a gaze, and a frame to
\* the media.
Admitted(batch) ==
  \A o \in ToSet(batch.obs) :
    /\ o.attention = "point" => Valid(o)
    /\ o.video < Length

Accepted == Sending /\ sent' = sent + 1 /\ UNCHANGED <<player, results, stage, batches>>

\* The app completes; it clears its lists, which history keeps here.
Completed ==
  /\ stage = "sending" /\ sent = Len(batches)
  /\ stage' = "completed"
  /\ UNCHANGED <<player, results, batches, sent>>

\* Any answer but 2xx, a lost answer or an abort: the session is discarded.
Refused == Sending /\ stage' = "refused" /\ UNCHANGED <<player, results, batches, sent>>
Discarded ==
  /\ stage = "sending" /\ stage' = "discarded"
  /\ UNCHANGED <<player, results, batches, sent>>

Watch ==
  \/ \E d \in 1..2 : TimePasses(d)
  \/ Pause \/ Play
  \/ \E t \in 0..Length : Seek(t)
  \/ Capture
  \/ \E r \in {"point", "no_face"} : Heard(r)
  \/ NotHeard \/ Fails
  \/ Ended
  \/ Build

-----------------------------------------------------------------------------
(* Properties.                                                              *)

\* Two neighbouring frames with a valid gaze, no seek or restart between them
\* and no more than the continuity gap.  Whether the video played in between
\* the player does not say.
Unbroken(a, b) ==
  /\ Valid(a) /\ Valid(b)
  /\ a.seeks = b.seeks
  /\ a.at < b.at /\ b.at - a.at <= Gap

\* A reported stretch of continuous observation and a reported movement never
\* bridge a seek, a restart, a frame without a valid gaze or more than the
\* continuity gap between two captures, whatever the order of seeks, results
\* and captures (buildObservations); and what is unbroken is reported whole.
\* A pause or a stalled video ends a stretch by the gap it leaves, so that one
\* shorter than the gap is part of the stretch, as it is in the code.
RunsAreTrue ==
  LET frames == Frames
      obs == Observations
      starts(i) == CHOOSE j \in 1..i :
        /\ \A k \in (j + 1)..i : Unbroken(frames[k - 1], frames[k])
        /\ j = 1 \/ ~Unbroken(frames[j - 1], frames[j])
  IN stage # "watching" /\ ~Conflict =>
       \A i \in 1..Len(frames) : Valid(frames[i]) =>
         /\ obs[i].derived.for = frames[i].at - frames[starts(i)].at
         /\ obs[i].derived.moved <=> starts(i) # i
         /\ obs[i].derived.why = "no_previous_observation" <=> i = 1
=============================================================================
