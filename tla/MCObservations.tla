--------------------------- MODULE MCObservations ---------------------------
(* The frames, batches, messages, polygons, video files and lookbook content *)
(* on which the parts of Observations are explored.                          *)
EXTENDS Observations

-----------------------------------------------------------------------------
(* One frame in several versions, later frames, a seek, and what goes wrong *)
(* with each. It is the same moment in the session, unless said otherwise.  *)

Obs(e, frame, n, position, gaze, expression) ==
  [context |-> [epoch |-> e, frame |-> frame, seq |-> n, at |-> n, offset |-> n, video |-> position],
   sample |-> [m \in {"gaze", "expression"} |-> IF m = "gaze" THEN gaze ELSE expression]]

gazed == Obs(0, "a", 1, 1, "v", "join_pending")
faced == Obs(0, "a", 1, 1, "join_pending", "v")
blind == Obs(0, "a", 1, 1, "no_face", "no_face")
other == Obs(0, "a", 1, 1, "w", "join_pending")
moved == Obs(0, "a", 2, 1, "v", "v")             \* the same frame, another context
second == Obs(0, "b", 2, 2, "v", "v")
reused == Obs(0, "c", 2, 2, "v", "v")            \* sequence 2 again
regressed == Obs(0, "d", 3, 0, "v", "v")         \* video time goes back, no new epoch
sought == Obs(1, "e", 4, 0, "v", "no_face")      \* a seek
early == [Obs(1, "f", 5, 1, "v", "v") EXCEPT !.context.offset = 1]

Single == {gazed, faced, blind, other, moved, second, reused, regressed, sought, early}
MCBatches ==
  {<<o>> : o \in Single}
  \cup {<<o, p>> : o \in {gazed, second, sought}, p \in {faced, second, sought, regressed, early}}

MCValues == {"v", "w"}
MCMissingReasons == {"no_face", "join_pending"}
MCEnvelopes == {<<"b1", 1>>, <<"b2", 2>>, <<"b3", 3>>, <<"b3", 1>>}

-----------------------------------------------------------------------------
(* Area "b" lies within "a", of the same product; "c" is another's. Source   *)
(* AOI "t" is known to be unlike both products.                              *)

MCCatalog == <<"p", "q">>
MCPoints == {{}, {"a"}, {"a", "b"}, {"c"}, {"a", "c"}}
MCProductOf == [x \in {"a", "b", "c"} |-> IF x = "c" THEN "q" ELSE "p"]
MCSourceOf == [x \in {"a", "b", "c"} |-> IF x = "c" THEN "t" ELSE "s"]
MCTraits ==
  [x \in {"s", "t", "p", "q"} |->
    CASE x = "s" -> {"monogram", "brown"} [] x = "t" -> {"solid", "unknown"}
      [] x = "p" -> {"monogram", "unknown"} [] x = "q" -> {"black", "brown"}]
MCWeight ==
  [x \in {"monogram", "solid", "unknown", "brown", "black"} |->
    IF x \in {"brown", "black"} THEN 3 ELSE 2]

-----------------------------------------------------------------------------
(* A stream's messages: frames in order, again, over another epoch and not   *)
(* whole; a lookbook's polygons, video file and content.                     *)

Message(e, id, n, marked, failed) ==
  [epoch |-> e, id |-> id, sequence |-> n, marked |-> marked, failed |-> failed]

MCHellos == {{}, {"fields"}, {"claims"}, {"supported"}, {"type", "claims"}}
MCMessages ==
  {Message(0, "a", 0, FALSE, {}), Message(0, "b", 1, FALSE, {}), Message(0, "a", 2, FALSE, {}),
   Message(0, "b", 3, FALSE, {}), Message(1, "a", 1, TRUE, {}), Message(1, "c", 3, FALSE, {}),
   Message(0, "a", 0, FALSE, {"frame_size", "json"}),
   Message(0, "a", 0, FALSE, {"truncated", "frame_size"}),
   Message(0, "a", 0, FALSE, {"binding"})}

MCCorners == {<<0, 0>>, <<2, 0>>, <<4, 0>>, <<0, 4>>, <<2, 4>>, <<4, 2>>}
MCSpots == (0..4) \X (0..4)

Track(complete, pictures, readable, area, rate) ==
  [complete |-> complete, video |-> pictures, readable |-> readable, area |-> area, rate |-> rate]

MCTracks ==
  {Track(TRUE, TRUE, TRUE, 4, 1), Track(TRUE, TRUE, TRUE, 2, 1), Track(TRUE, TRUE, TRUE, 4, 2),
   Track(TRUE, TRUE, FALSE, 4, 1), Track(TRUE, FALSE, TRUE, 8, 1), Track(FALSE, TRUE, TRUE, 8, 1)}
MCIdentity == [duration |-> 3, area |-> 4, rate |-> 1]

Exposure(id, parent, rank, from, to, area, item, tags) ==
  [id |-> id, parent |-> parent, rank |-> rank, from |-> from, to |-> to, area |-> area,
   product |-> item, tags |-> tags]

\* A general area, one in it and one in that, and some that do not fit: of
\* another product, too long, in each other, beyond the video's end.
MCExposures ==
  {Exposure(1, 0, 0, 0, 3, {1, 2}, "x", {"u"}), Exposure(1, 2, 1, 0, 3, {1, 2}, "x", {"u"}),
   Exposure(1, 0, 0, 0, 4, {1, 2}, "x", {"u"}), Exposure(2, 1, 1, 0, 3, {2}, "x", {"u"}),
   Exposure(2, 1, 1, 1, 2, {2}, "y", {"v"}), Exposure(2, 0, 0, 0, 3, {2, 3}, "y", {"v"}),
   Exposure(2, 3, 1, 0, 3, {2}, "x", {"u"}), Exposure(3, 2, 2, 1, 2, {2, 3}, "x", {"u"}),
   Exposure(3, 2, 2, 1, 2, {3}, "y", {"v"}), Exposure(3, 1, 1, 0, 3, {1}, "x", {"v"})}

Files(missing_, demonstration, shown, required) ==
  [file |-> "file" \notin missing_, approved |-> "approved" \notin missing_,
   manifest |-> "manifest" \notin missing_, catalogs |-> "catalogs" \notin missing_,
   taxonomy |-> "taxonomy" \notin missing_, demo |-> demonstration, video |-> shown,
   required |-> required]

MCProductTags == [x \in {"x", "y"} |-> IF x = "x" THEN {"u"} ELSE {"u", "v"}]
MCDefinitions ==
  {[source |-> "s", prefixes |-> <<<<"a">>>>],
   [source |-> "t", prefixes |-> <<<<"b">>, <<"a", "b">>>>],
   [source |-> "s", prefixes |-> <<<<"a">>, <<"b">>>>]}
MCNames == {<<"a", "b", "c">>, <<"b", "d">>}
MCEnvironments ==
  {Files({}, FALSE, "none", FALSE), Files({}, FALSE, "none", TRUE), Files({}, TRUE, "reviewed", TRUE),
   Files({}, FALSE, "other", FALSE), Files({"taxonomy"}, FALSE, "reviewed", TRUE),
   Files({"file", "approved"}, FALSE, "none", FALSE)}
  \cup {Files({x}, FALSE, "none", FALSE) : x \in {"approved", "manifest", "catalogs"}}
MCMappedFrames ==
  {[gaze |-> g, attention |-> a, point |-> p, time |-> t] :
    <<g, a, p, t>> \in
      {<<FALSE, "none", 0, 0>>, <<TRUE, "none", 0, 0>>, <<TRUE, "outside", 0, 1>>,
       <<TRUE, "point", 2, 1>>, <<TRUE, "point", 2, 3>>, <<TRUE, "point", 1, 0>>,
       <<TRUE, "point", 3, 1>>}}

\* Bounds of a timeline.  Only differences of times and changes of epoch count:
\* both are counted from the first frame.  To the loop a frame without a gaze is
\* one off the products: there is one such frame, or any number off the products.
\* The order of the sequence goes back once at most: one step back is one break.
TimelineBound ==
  frames # <<>> =>
    LET away == {i \in DOMAIN frames : frames[i].look \notin Products}
    IN /\ frames[1].at = 0 /\ frames[1].epoch = 0
       /\ \A i \in away : frames[i].look = "unseen" => away = {i}
       /\ \A i, j \in 2..Len(frames) :
            /\ frames[i].seq < frames[i - 1].seq
            /\ frames[j].seq < frames[j - 1].seq
            => i = j

\* Products are interchangeable.
Symmetry == Permutations(Products)
=============================================================================
