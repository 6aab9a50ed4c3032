--------------------------- MODULE GazeStabilizer ---------------------------
(***************************************************************************)
(* Which live gaze points the eye worker shows (gaze_stabilizer.py): a jump  *)
(* too fast to be an eye's is held back until a second point confirms it.    *)
(* Screens have one dimension here.  Points, valid or not, come with any     *)
(* time: frames may be late.                                                 *)
(***************************************************************************)
EXTENDS Integers, FiniteSets, Sequences

CONSTANTS
  Width,          \* of the viewport
  JumpDistance, JumpSpeed,        \* RAPID_SHIFT_DISTANCE, RAPID_SHIFT_SPEED
  NearBy, ConfirmWindow,          \* RAPID_SHIFT_CONFIRM_DISTANCE, .._WINDOW_MS
  ResetGap,                       \* INVALID_RESET_GAP_MS
  MaxTime, MaxLooks               \* bounds: times of frames, frames

Unknown == [x |-> -1, at |-> -1]

VARIABLES
  smoother,     \* the points the filter remembers; none before it is made
  pending,      \* the jump that waits to be confirmed
  confirmed,    \* _last_confirmed_point and _last_confirmed_at_ms
  lastInput,    \* _last_valid_input_at_ms, or -1
  looks         \* history: each frame and the decision about it

Init ==
  /\ smoother = <<>> /\ pending = Unknown /\ confirmed = Unknown /\ lastInput = -1
  /\ looks = <<>>

Told(f, why) == looks' = Append(looks, [x |-> f.x, at |-> f.at, why |-> why])

Distance(a, b) == IF a.x < b.x THEN b.x - a.x ELSE a.x - b.x

\* _evaluate_from_confirmed: a point that is not later has infinite speed.
TooFast(a, b) ==
  Distance(a, b) >= JumpDistance /\ (b.at <= a.at \/ Distance(a, b) >= JumpSpeed * (b.at - a.at))

Long(at) == lastInput # -1 /\ at - lastInput > ResetGap

\* observe_invalid: only clocks run.
Invalid(at) ==
  /\ IF Long(at)
     THEN smoother' = <<>> /\ pending' = Unknown /\ confirmed' = Unknown /\ lastInput' = -1
     ELSE /\ pending' = IF pending # Unknown /\ at - pending.at > ConfirmWindow
                        THEN Unknown ELSE pending
          /\ UNCHANGED <<smoother, confirmed, lastInput>>
  /\ Told([x |-> -1, at |-> at], "no_face")

\* process_valid with a point outside the viewport, or an old one.
Unusable(f) ==
  /\ f.x > Width \/ f.at < lastInput
  /\ UNCHANGED <<smoother, pending, confirmed, lastInput>>
  /\ Told(f, IF f.x > Width THEN "outside_viewport" ELSE "out_of_order")

\* _accept: the filter starts over after a jump, and may overshoot later.
Accept(f, again) ==
  /\ confirmed' = f
  /\ smoother' = (IF again THEN <<f.x>> ELSE Append(smoother, f.x))
  /\ Told(f, "shown") \/ (~again /\ Told(f, "overshot"))

\* Mutant: a candidate is confirmed however late.
ConfirmsAnytime(p, f) == p # Unknown /\ Distance(p, f) <= NearBy

Confirms(p, f) ==
  p # Unknown /\ f.at - p.at <= ConfirmWindow /\ Distance(p, f) <= NearBy

\* process_valid.  After a long time without a usable point nothing is known.
Usable(f) ==
  /\ f.x <= Width /\ f.at >= lastInput
  /\ lastInput' = f.at
  /\ LET known == IF Long(f.at) THEN Unknown ELSE confirmed
         waiting == IF Long(f.at) THEN Unknown ELSE pending
     IN IF Confirms(waiting, f) \/ known = Unknown
        THEN pending' = Unknown /\ Accept(f, TRUE)
        ELSE IF TooFast(known, f)
        THEN pending' = f /\ Told(f, "rapid_shift_pending") /\ UNCHANGED <<smoother, confirmed>>
        ELSE pending' = Unknown /\ Accept(f, FALSE)

\* reset, by a new session or calibration: history starts again too.
Reset ==
  /\ smoother' = <<>> /\ pending' = Unknown /\ confirmed' = Unknown /\ lastInput' = -1
  /\ looks' = <<>>

Next ==
  \/ /\ Len(looks) < MaxLooks
     /\ \E at \in 0..MaxTime :
          \/ Invalid(at)
          \/ \E x \in 0..(Width + 1) :
               Unusable([x |-> x, at |-> at]) \/ Usable([x |-> x, at |-> at])
  \/ Reset

-----------------------------------------------------------------------------
(* Properties.                                                              *)

Taken(i) == looks[i].why \in {"shown", "overshot"}
Counted(i) == looks[i].why \in {"shown", "overshot", "rapid_shift_pending"}
PastTaken(i) == {j \in 1..(i - 1) : Taken(j)}
Before(i) == CHOOSE j \in PastTaken(i) : \A k \in PastTaken(i) : k <= j

\* No frame between a and b that counts; the gap between two that count.
Neighbours(a, b) == a < b /\ \A k \in (a + 1)..(b - 1) : ~Counted(k)
Paused(j, i) ==
  \E a \in j..(i - 1), m \in (j + 1)..i :
    a < m /\ Counted(a) /\ (\A k \in (a + 1)..(m - 1) : ~Counted(k)) /\ looks[m].x <= Width
    /\ looks[m].at - looks[a].at > ResetGap

\* A jump is shown only when a second point nearby has confirmed it in time,
\* or after a pause; and the point that confirms it is never held back too,
\* whatever invalid, late and stray frames come between (process_valid,
\* observe_invalid).
JumpsConfirmed ==
  \A i \in 1..Len(looks) :
    LET held == {k \in 1..(i - 1) : /\ looks[k].why = "rapid_shift_pending"
                                    /\ Neighbours(k, i)
                                    /\ Distance(looks[k], looks[i]) <= NearBy
                                    /\ looks[i].at - looks[k].at <= ConfirmWindow}
    IN /\ Taken(i) /\ PastTaken(i) # {} =>
            \/ ~TooFast(looks[Before(i)], looks[i])
            \/ held # {}
            \/ Paused(Before(i), i)
       /\ looks[i].why = "rapid_shift_pending" =>
            /\ PastTaken(i) # {}
            /\ TooFast(looks[Before(i)], looks[i])
            /\ \A k \in held : \E m \in (k + 1)..(i - 1) :
                 looks[m].x = -1 /\ looks[m].at - looks[k].at > ConfirmWindow

\* How many points were taken from the i-th look on.
TakenSince(i) == Cardinality({j \in i..Len(looks) : Taken(j)})

\* What the filter remembers are the last points taken, and there is no jump
\* among them (_accept, reset).
FilterIsOfOneStretch ==
  LET n == Len(smoother)
      mine == {i \in 1..Len(looks) : Taken(i) /\ TakenSince(i) <= n}
  IN /\ Cardinality(mine) = n
     /\ \A i \in mine : looks[i].x = smoother[n + 1 - TakenSince(i)]
     /\ \A i, j \in mine :
          TakenSince(i) = TakenSince(j) + 1 => ~TooFast(looks[i], looks[j])

GazeIsSteady == JumpsConfirmed /\ FilterIsOfOneStretch
=============================================================================
