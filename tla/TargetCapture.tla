---------------------------- MODULE TargetCapture ----------------------------
(***************************************************************************)
(* Which frames become samples of a calibration target                      *)
(* (SynchronizedCapture.capture) and when a face counts as in place           *)
(* (PositioningGate).                                                         *)
(*                                                                         *)
(* A frame is one that passed the first guards: of this target, fresh, of the *)
(* same presentation and viewport, and later than the last one; the others    *)
(* are dropped without a trace.  Time runs from the presentation.  The        *)
(* profile is adaptive; a raise leaves nothing.                               *)
(***************************************************************************)
EXTENDS Integers, FiniteSets, Sequences

CONSTANTS
  Settle, Still,      \* settle_ms and the 150 ms of a still pose
  Enough, Span,       \* MIN_SAMPLES, and the 500 ms they must span
  Hold, FrameGap,     \* POSITIONING_HOLD_MS, and the 250 ms between frames
  MaxSeen             \* bound: frames of one capture

Unset == -1
Poses == {"here", "there"}       \* positions of a head that are too far from each other
Nowhere == "nowhere"
Faces == Poses \cup {"no_face", "blink", "invalid_features"}

VARIABLES
  phase,      \* "positioning", "training" or "validation"
  seen,       \* history: the frames, [at, face]
  features,   \* the frames that are samples, by number
  total, invalid,
  anchor,     \* pose_anchor, or the gate's anchor
  since,      \* stable_since, or the gate's started_ms
  first,      \* first_sample_ms
  required, extended,
  stable,     \* the gate's stable_ms
  over

capture == <<phase, seen, features, total, invalid, anchor, since, first, required, extended,
             stable, over>>

Init ==
  /\ phase \in {"positioning", "training", "validation"}
  /\ seen = <<>> /\ features = <<>> /\ total = 0 /\ invalid = 0
  /\ anchor = Nowhere /\ since = Unset /\ first = Unset
  /\ required = Enough /\ extended = FALSE /\ stable = 0 /\ over = FALSE

Last == IF seen = <<>> THEN 0 ELSE seen[Len(seen)].at
N == Len(seen) + 1

-----------------------------------------------------------------------------
(* A frame of a training or validation target.                              *)

\* No eyes, or no usable features: counted once the target has settled; in
\* training, missing eyes end the still stretch.
Unusable(f) ==
  /\ f.face \notin Poses
  /\ total' = (IF f.at >= Settle THEN total + 1 ELSE total)
  /\ invalid' = (IF f.at >= Settle THEN invalid + 1 ELSE invalid)
  /\ since' = IF phase = "training" /\ f.face # "invalid_features" THEN Unset ELSE since
  /\ UNCHANGED <<features, anchor, first, required, extended, over>>

\* Mutant: validation starts its count again when the head moves.
ForgetsAlways == TRUE

\* A head that moves spoils the training samples it gave, and no validation
\* sample.
Forgets == phase = "training"

Usable(f) ==
  /\ f.face \in Poses
  /\ LET moved == anchor # Nowhere /\ anchor # f.face
         start == IF moved \/ since = Unset THEN f.at ELSE since
         kept == IF moved /\ Forgets THEN <<>> ELSE features
         count == IF moved /\ Forgets THEN 0 ELSE total
         spoiled == IF moved /\ Forgets THEN 0 ELSE invalid
         began == IF moved /\ Forgets THEN Unset ELSE first
         begun == IF began = Unset THEN f.at ELSE began
         more == /\ phase = "validation" /\ ~extended
                 /\ Len(kept) + 1 >= Enough /\ f.at - begun >= Span
                 \* below 85 % of all frames
                 /\ 100 * (Len(kept) + 1) < 85 * (count + 1)
         needed == IF more THEN 2 * Enough ELSE required
     IN /\ anchor' = f.face
        /\ since' = start
        /\ IF f.at < Settle \/ f.at - start < Still
           THEN LET counted == phase = "validation" /\ f.at >= Settle IN
                /\ features' = kept /\ first' = began
                /\ total' = (IF counted THEN count + 1 ELSE count)
                /\ invalid' = (IF counted THEN spoiled + 1 ELSE spoiled)
                /\ UNCHANGED <<required, extended, over>>
           ELSE /\ features' = Append(kept, N) /\ first' = begun
                /\ total' = count + 1 /\ invalid' = spoiled
                /\ required' = needed /\ extended' = (extended \/ more)
                /\ over' = (Len(kept) + 1 >= needed /\ f.at - begun >= Span)

-----------------------------------------------------------------------------
(* PositioningGate.observe, and what capture does with its answer.          *)

\* A face that is missing, or not where or how it should be.
OutOfPlace(f) ==
  /\ f.face \notin Poses
  /\ anchor' = Nowhere /\ since' = Unset /\ stable' = 0
  /\ features' = <<>> /\ total' = 0
  /\ over' = FALSE

\* A drift from the anchor or a gap starts the hold again, and with it the
\* samples.
InPlace(f) ==
  /\ f.face \in Poses
  /\ LET again == anchor = Nowhere \/ f.face # anchor \/ f.at - Last > FrameGap
         start == IF again THEN f.at ELSE since
         held == IF f.at - start < Hold THEN f.at - start ELSE Hold
         kept == IF held = 0 THEN <<>> ELSE features
     IN /\ anchor' = (IF again THEN f.face ELSE anchor) /\ since' = start
        /\ stable' = held
        /\ features' = Append(kept, N) /\ total' = Len(kept) + 1
        /\ over' = (held >= Hold /\ Len(kept) + 1 >= Enough)

See(f) ==
  /\ ~over /\ Len(seen) < MaxSeen
  /\ seen' = Append(seen, f)
  /\ IF phase = "positioning"
     THEN (OutOfPlace(f) \/ InPlace(f)) /\ UNCHANGED <<invalid, first, required, extended>>
     ELSE (Unusable(f) \/ Usable(f)) /\ UNCHANGED stable
  /\ UNCHANGED phase

Next == \E d \in 1..(FrameGap + 1), face \in Faces : See([at |-> Last + d, face |-> face])

-----------------------------------------------------------------------------
(* Properties.                                                              *)

Settled == {i \in 1..Len(seen) : seen[i].at >= Settle}
At(i) == seen[i].at
Same(i, j) == \A k \in i..j : seen[k].face \in Poses => seen[k].face = seen[j].face

\* Every sample was taken after the target had settled and after the head had
\* been still for as long as it takes; the samples of a training target are of
\* one position, with no blink since that stillness began (capture).
SamplesAreStill ==
  phase \in {"training", "validation"} =>
    \A n \in 1..Len(features) :
      LET i == features[n] IN
      /\ seen[i].face \in Poses /\ At(i) >= Settle
      /\ \E j \in 1..i :
           /\ seen[j].face \in Poses /\ At(i) - At(j) >= Still /\ Same(j, i)
           /\ phase = "training" => \A k \in j..i : seen[k].face \notin {"no_face", "blink"}
      /\ phase = "training" => Same(i, features[Len(features)])

\* A validation target counts every frame since it settled, seen or not, so
\* that losing the eyes or moving the head can only lower its share; more is
\* asked for at most once (capture).
NothingUncounted ==
  /\ total = Len(features) + invalid
  /\ phase = "validation" => total = Cardinality(Settled)
  /\ over /\ phase # "positioning" =>
       Len(features) >= (IF extended THEN 2 * Enough ELSE Enough)

\* A face is in place when every frame of the last Hold shows it near one
\* position, without a longer gap, and the samples are those frames
\* (PositioningGate.observe).
HeldInPlace ==
  phase = "positioning" /\ over =>
    LET i == features[1]  n == Len(seen) IN
    /\ At(n) - At(i) >= Hold
    /\ features = [k \in 1..(n - i + 1) |-> i + k - 1]
    /\ \A k \in i..n : seen[k].face = seen[n].face
    /\ \A k \in i..(n - 1) : At(k + 1) - At(k) <= FrameGap

CaptureIsSound == SamplesAreStill /\ NothingUncounted /\ HeldInPlace
=============================================================================
