------------------------------ MODULE MediaFile ------------------------------
(***************************************************************************)
(* Is the video file the reviewed one (v2_aoi.py)?  Its boxes are read one  *)
(* after the other, and what they say of the video is compared with the     *)
(* identity in the metadata.  A track is known by the fields that count; the *)
(* boxes within it are read as the outer ones are.                          *)
(***************************************************************************)
EXTENDS Naturals, Sequences

CONSTANTS
  FileSizes,   \* of the file
  BoxSizes,   \* what a size field may say
  Tracks,     \* records [complete, video, readable, area, rate]
  Movies,     \* what mvhd says: a duration, 0 if it says none
  Identity,   \* the reviewed [duration, area, rate]
  MaxTracks   \* bound

ASSUME MediaAssumption == FileSizes \subseteq Nat /\ BoxSizes \subseteq Nat

VARIABLES
  length, offset, boxes,
  probe,      \* "boxes", "tracks", "probed" or "refused"
  movie, tracks, found

mediaVars == <<length, offset, boxes, probe, movie, tracks, found>>

Kinds == {"moov", "other"}

MediaInit ==
  /\ length \in FileSizes /\ offset = 0 /\ boxes = <<>> /\ probe = "boxes"
  /\ movie \in Movies /\ tracks = <<>> /\ found = <<>>

Left == length - offset

\* A box's size: in the 64-bit field, the rest of the file, or as it stands.
Header(field) == IF field = 1 THEN 16 ELSE 8
Size(field, large) == IF field = 1 THEN large ELSE IF field = 0 THEN Left ELSE field

\* Mutant: an end beyond the file is not noticed.
FitsHeader(field, large) == Left >= 8 /\ Header(field) <= Size(field, large)

Fits(field, large) ==
  /\ Left >= Header(field)
  /\ Header(field) <= Size(field, large) /\ Size(field, large) <= Left

\* One turn of the loop of _mp4_boxes.
ReadBox(kind, field, large) ==
  /\ probe = "boxes" /\ offset < length
  /\ IF Fits(field, large)
       THEN /\ boxes' = Append(boxes, [kind |-> kind, from |-> offset + Header(field),
                                       to |-> offset + Size(field, large)])
            /\ offset' = offset + Size(field, large) /\ UNCHANGED probe
       ELSE probe' = "refused" /\ UNCHANGED <<boxes, offset>>
  /\ UNCHANGED <<length, movie, tracks, found>>

\* The first moov box and its mvhd.
FindMovie ==
  /\ probe = "boxes" /\ offset = length
  /\ probe' = IF movie > 0 /\ \E i \in DOMAIN boxes : boxes[i].kind = "moov"
              THEN "tracks" ELSE "refused"
  /\ UNCHANGED <<length, offset, boxes, movie, tracks, found>>

ReadTrack(t) ==
  /\ probe = "tracks" /\ Len(tracks) < MaxTracks /\ tracks' = Append(tracks, t)
  /\ UNCHANGED <<length, offset, boxes, probe, movie, found>>

Candidate(i) == tracks[i].complete /\ tracks[i].video
VideoTracks == {i \in DOMAIN tracks : Candidate(i)}

\* The track with the greatest picture, the first of several.
Largest(i) ==
  /\ i \in VideoTracks
  /\ \A k \in VideoTracks : tracks[k].area <= tracks[i].area /\ (k < i => tracks[k].area < tracks[i].area)

\* The rest of probe_mp4_media: a field that cannot be read refuses the file.
Probe ==
  /\ probe = "tracks"
  /\ IF VideoTracks = {} \/ \E i \in VideoTracks : ~tracks[i].readable
       THEN probe' = "refused" /\ UNCHANGED found
       ELSE /\ probe' = "probed"
            /\ \E i \in VideoTracks : Largest(i) /\ found' = <<i>>
  /\ UNCHANGED <<length, offset, boxes, movie, tracks>>

\* verify_media_file, of a file whose length and digest are right.
Verified ==
  /\ probe = "probed"
  /\ [duration |-> movie, area |-> tracks[found[1]].area, rate |-> tracks[found[1]].rate] = Identity

MediaNext ==
  \/ \E kind \in Kinds, field, large \in BoxSizes :
       ReadBox(kind, field, large)
  \/ \E t \in Tracks : ReadTrack(t)
  \/ FindMovie \/ Probe

-----------------------------------------------------------------------------
(* Properties.                                                              *)

\* The boxes lie in the file one after the other, none before the one that
\* was read before it, and fill it when the file is taken up (_mp4_boxes).
BoxesFill ==
  /\ \A i \in DOMAIN boxes :
       /\ boxes[i].from <= boxes[i].to /\ boxes[i].to <= length
       /\ boxes[i].from - (IF i = 1 THEN 0 ELSE boxes[i - 1].to) \in {8, 16}
  /\ offset = IF boxes = <<>> THEN 0 ELSE boxes[Len(boxes)].to
  /\ probe \in {"tracks", "probed"} => offset = length

\* A verified file plays the reviewed picture: no other video track is larger,
\* and none was passed over because it could not be read (probe_mp4_media).
PlaysReviewed ==
  Verified =>
    \A i \in DOMAIN tracks :
      tracks[i].complete /\ tracks[i].video => tracks[i].readable /\ tracks[i].area <= Identity.area

MediaIsRight == BoxesFill /\ PlaysReviewed
=============================================================================
