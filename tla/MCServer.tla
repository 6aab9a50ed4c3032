-------------------------------- MODULE MCServer ------------------------------
(* The parts of the servers on small instances: what the v1 store is given.  *)
EXTENDS Server

(* The v1 store: three products and a name that is not in the catalog; looks *)
(* at one, at two and at nothing, several in a bucket, in two playback       *)
(* epochs and with gaps, cut into batches that overlap.                      *)

Look(id, epoch, bucket, candidates, confidence) ==
  [id |-> id, seq |-> id, epoch |-> epoch, bucket |-> bucket,
   candidates |-> candidates, confidence |-> confidence]

a1 == Look(1, 0, 0, <<1>>, 1)
a2 == Look(2, 0, 0, <<3, 2, 1>>, 2)     \* in the same bucket, shared
a3 == Look(3, 0, 4, <<2>>, 1)
a4 == Look(4, 0, 8, <<2, 2>>, 2)        \* far from the bucket before
a5 == Look(5, 1, 2, <<1, 2>>, 0)        \* after a seek
a6 == Look(8, 0, 3, <<4>>, 2)
a7 == Look(6, 0, 3, <<>>, 2)            \* not a valid gaze
clash == [Look(7, 0, 9, <<1>>, 2) EXCEPT !.seq = 3]

Reactions ==
  {[id |-> 1, events |-> <<a2, a1>>], [id |-> 2, events |-> <<a1, a3, a4>>],
   [id |-> 3, events |-> <<a5, a4, a6, a7>>], [id |-> 4, events |-> <<clash>>],
   [id |-> 1, events |-> <<a7>>]}
=============================================================================
