--------------------------- MODULE EvidenceWindows ---------------------------
(***************************************************************************)
(* The loop of summarize_observations (v2_evidence.py), which folds the     *)
(* ordered timeline of a session into evidence windows, dwell times and     *)
(* return candidates.  One step of the loop is one action; the timeline is  *)
(* revealed frame by frame, so that every timeline the buffer can hand over *)
(* is explored.                                                            *)
(*                                                                         *)
(* Which product a frame's gaze falls on is decided elsewhere (v2_aoi.py)   *)
(* and given here: a product, "elsewhere" (outside every area, or two       *)
(* products at once) or "unseen" (no valid gaze).  session_offset_ms        *)
(* follows the order of the frames (ObservationBuffer) and is left out, as  *)
(* are the confidences, movements and expressions, which are averaged.      *)
(***************************************************************************)
EXTENDS Integers, FiniteSets, SequencesExt

CONSTANTS
  Products,
  Epochs, Times, Numbers, Positions,  \* playback_epoch, captured_at_mono_ms, sequence, video_time_ms
  MaxGap,     \* max_continuous_gap_ms
  MaxFrames   \* bound: frames of the timeline

ASSUME EvidenceAssumption ==
  /\ Products \cap {"none", "elsewhere", "unseen"} = {}
  /\ Epochs \subseteq Nat /\ Times \subseteq Nat /\ Numbers \subseteq Nat /\ Positions \subseteq Nat
  /\ MaxGap \in Nat /\ MaxFrames \in Nat \ {0}

Frame == [epoch : Epochs, at : Times, seq : Numbers, video : Positions,
          look : Products \cup {"elsewhere", "unseen"}]

VARIABLES
  frames,      \* the frames analysed so far; the last one is `previous`
  product,     \* previous_product
  seen,        \* seen_products
  window,      \* the open window, or NoWindow
  windows,     \* windows_raw
  dwell,       \* dwell_ms
  returns,     \* returns
  comparisons, \* return_comparisons
  resets,      \* continuity_reset_count
  done         \* the loop has ended

vars == <<frames, product, seen, window, windows, dwell, returns, comparisons, resets, done>>

None == "none"
NoWindow == [product |-> None]

Init ==
  /\ frames = <<>> /\ product = None /\ seen = {}
  /\ window = NoWindow /\ windows = <<>>
  /\ dwell = [p \in Products |-> 0]
  /\ returns = [p \in Products |-> 0]
  /\ comparisons = [p \in Products |-> 0]
  /\ resets = 0 /\ done = FALSE

-----------------------------------------------------------------------------
\* What the buffer guarantees of the frames it hands over: analysis order,
\* unique sequences, and a video that moves forward within an epoch.
Before(a, b) ==
  \/ a.epoch < b.epoch
  \/ /\ a.epoch = b.epoch
     /\ (a.at < b.at \/ (a.at = b.at /\ a.seq < b.seq))

MayFollow(f) ==
  \A i \in DOMAIN frames :
    LET e == frames[i] IN
      /\ Before(e, f) /\ e.seq # f.seq
      /\ e.epoch = f.epoch => (IF e.seq < f.seq THEN e.video <= f.video ELSE f.video <= e.video)

\* Mutant: only seeks and gaps are looked for.
DiscontinuousByGap(e, f) == f.epoch # e.epoch \/ f.at - e.at > MaxGap

Discontinuous(e, f) ==
  \/ f.epoch # e.epoch
  \/ f.video < e.video
  \/ f.seq <= e.seq
  \/ f.at - e.at < 0
  \/ f.at - e.at > MaxGap

\* _mapped_product_id
Mapped(f) == IF f.look \in Products THEN f.look ELSE None

\* Mutant: a window that ends on no product is forgotten.
ClosingOnProduct(open, w, ws) ==
  IF w = NoWindow \/ open \in {None, w.product} THEN ws ELSE Append(ws, w)

\* Mutant: close_window does not ask whether a window is open.
ClosingAnything(open, w, ws) == IF open = w.product THEN ws ELSE Append(ws, w)

\* close_window
Closing(open, w, ws) == IF w = NoWindow \/ open = w.product THEN ws ELSE Append(ws, w)

\* Mutant: seen_products survives a discontinuity.
KnownForGood(break) == seen

Known(break) == IF break THEN {} ELSE seen

\* Mutant: an interval is credited to where it ends.
WatchedAnyway(before, p, e, f) == f.at - e.at

\* The time between two continuous frames counts if it begins and ends on the
\* product.
Watched(before, p, e, f) == IF before = p THEN f.at - e.at ELSE 0

Bump(f, p, n) == IF p = None THEN f ELSE [f EXCEPT ![p] = @ + n]

Analyse(f) ==
  LET first == frames = <<>>
      last == frames[Len(frames)]
      break == ~first /\ Discontinuous(last, f)
      continues == ~first /\ ~break
      p == Mapped(f)
      before == IF break THEN None ELSE product
      known == Known(break)
      open == IF break THEN NoWindow ELSE window
      cut == IF break THEN Closing(None, window, windows) ELSE windows
      back == continues /\ before # p /\ p \in known
      returned == p # None /\ (back \/ returns[p] > 0)
  IN
    /\ frames' = Append(frames, f)
    /\ resets' = IF break THEN resets + 1 ELSE resets
    /\ product' = p
    /\ seen' = IF p = None THEN known ELSE known \cup {p}
    /\ dwell' = IF continues THEN Bump(dwell, p, Watched(before, p, last, f)) ELSE dwell
    /\ comparisons' = IF continues THEN Bump(comparisons, p, 1) ELSE comparisons
    /\ returns' = IF back THEN Bump(returns, p, 1) ELSE returns
    /\ windows' = Closing(p, open, cut)
    /\ window' =
         CASE p = None -> NoWindow
           [] p # None /\ open.product = p -> [open EXCEPT !.end = f, !.returned = @ \/ returned]
           [] OTHER -> [product |-> p, start |-> f, end |-> f, returned |-> returned]

Step ==
  /\ ~done /\ Len(frames) < MaxFrames
  /\ \E f \in Frame : MayFollow(f) /\ Analyse(f)
  /\ UNCHANGED done

\* The close_window after the loop.
Finish ==
  /\ ~done /\ frames # <<>>
  /\ done' = TRUE
  /\ windows' = Closing(None, window, windows) /\ window' = NoWindow
  /\ UNCHANGED <<frames, product, seen, dwell, returns, comparisons, resets>>

Next == Step \/ Finish

Spec == Init /\ [][Next]_vars

-----------------------------------------------------------------------------
(* Properties, stated on the timeline as a whole.                           *)

Window == [product : Products, start : Frame, end : Frame, returned : BOOLEAN]

\* The variables have their types.
TypeOK ==
  /\ frames \in Seq(Frame) /\ Len(frames) <= MaxFrames
  /\ product \in Products \cup {None} /\ seen \subseteq Products
  /\ window \in Window \cup {NoWindow} /\ windows \in Seq(Window)
  /\ dwell \in [Products -> Nat] /\ returns \in [Products -> Nat]
  /\ comparisons \in [Products -> Nat]
  /\ resets \in Nat /\ done \in BOOLEAN

Indices == DOMAIN frames
Look(i) == Mapped(frames[i])

\* Frame i is compared with no earlier one.
Starts(i) == i = 1 \/ Discontinuous(frames[i - 1], frames[i])

\* Frames i..j are one stretch of one product.
Stretch(i, j) ==
  /\ i <= j /\ Look(i) # None
  /\ \A k \in i..j : Look(k) = Look(i) /\ (k # i => ~Starts(k))

\* i..j cannot be extended.
Maximal(i, j) ==
  /\ Stretch(i, j)
  /\ i = 1 \/ ~Stretch(i - 1, j)
  /\ j = Len(frames) \/ ~Stretch(i, j + 1)

AllWindows == IF window = NoWindow THEN windows ELSE Append(windows, window)

\* A window is a maximal stretch of continuous frames of one product, every
\* such stretch has its window, and windows come in the order of the frames:
\* no window crosses a seek, a gap or a frame that is not on its product.
WindowsAreStretches ==
  /\ {<<w.start, w.end>> : w \in ToSet(AllWindows)}
       = {<<frames[s[1]], frames[s[2]]>> : s \in {r \in Indices \X Indices : Maximal(r[1], r[2])}}
  /\ \A k \in DOMAIN AllWindows :
       /\ AllWindows[k].product = Mapped(AllWindows[k].start)
       /\ k > 1 => Before(AllWindows[k - 1].end, AllWindows[k].start)

\* EvidenceWindowV2 refuses a window that goes backward, and its exception
\* would end the completion after the session became pending: no timeline the
\* buffer hands over makes one.
WindowsGoForward ==
  \A w \in ToSet(AllWindows) :
    /\ w.start.epoch = w.end.epoch
    /\ w.start.at <= w.end.at /\ w.start.video <= w.end.video

\* The moments of the windows of a product.
Moments(w) == {w.start.epoch} \X (w.start.at .. (w.end.at - 1))
Covered(p) == UNION {Moments(w) : w \in {v \in ToSet(AllWindows) : v.product = p}}

\* The dwell time reported for a product is the length of its windows together:
\* nothing is counted across a discontinuity and nothing is counted twice.
DwellIsCovered == \A p \in Products : dwell[p] = Cardinality(Covered(p))

\* The product was seen before frame i without a discontinuity in between.
SeenBefore(i) == \E k \in 1..(i - 1) : Look(k) = Look(i) /\ \A m \in (k + 1)..i : ~Starts(m)

Comebacks(p) ==
  {i \in Indices : Look(i) = p /\ ~Starts(i) /\ Look(i - 1) # p /\ SeenBefore(i)}

\* A return candidate, as the loop counts it, is a frame on a product after
\* one that is not, where the product was seen since the last discontinuity.
\* A frame without a valid gaze is no discontinuity to the loop but a frame
\* off the product, although the contract says otherwise (see
\* ReturnsAreWatched).  A window is marked from the first candidate of its
\* product on, and where there is one the count is not withheld.
ReturnsAreComebacks ==
  /\ \A p \in Products :
       /\ returns[p] = Cardinality(Comebacks(p))
       /\ returns[p] > 0 => comparisons[p] > 0
  /\ \A w \in ToSet(AllWindows) :
       w.returned <=> \E i \in Comebacks(w.product) : ~Before(w.end, frames[i])

\* Windows, dwell times and return candidates are those of the timeline as a
\* whole, where an epoch, a step back of the video or of the order, or a gap
\* parts it.
WindowsExact == TypeOK /\ WindowsAreStretches /\ DwellIsCovered /\ ReturnsAreComebacks

-----------------------------------------------------------------------------
(* What the documentation says and the code does not do.                    *)

\* Gaze was valid from a frame of the same product up to frame i.
WatchedBefore(i) ==
  \E k \in 1..(i - 1) :
    /\ Look(k) = Look(i)
    /\ \A m \in (k + 1)..i : ~Starts(m) /\ frames[m].look # "unseen"

\* "invalid, missing modality ... reset the state before" (contracts/README.md,
\* of return candidates among others): whoever was not seen has not looked
\* away.  The code clears seen_products for discontinuities only, and counts
\* the frame after a blink as a return.
ReturnsAreWatched ==
  \A p \in Products :
    returns[p] <= Cardinality({i \in Comebacks(p) : WatchedBefore(i)})
=============================================================================
