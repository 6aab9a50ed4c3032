--------------------------- MODULE LookbookContent ---------------------------
(***************************************************************************)
(* What the API knows of a lookbook: the reviewed areas of its video        *)
(* (v2_aoi.py), the source areas its manifest's exposures are bound to      *)
(* (source_aoi.py), and the checks the repository makes of both, and of its *)
(* catalogs and the video, before it starts (v2_store.py); then what a      *)
(* frame is mapped to.  An area is the set of points Polygon finds in it, a  *)
(* name the sequence of its parts, and the content is written before the    *)
(* start, an exposure after those of smaller ids.                           *)
(***************************************************************************)
EXTENDS Naturals, Sequences, FiniteSets, SequencesExt

CONSTANTS
  ProductTags,  \* the controlled tags of the catalog's products
  Exposures,    \* AoiExposureV2: [id, parent, rank, from, to, area, product, tags]; parent 0: none
  Definitions,  \* SourceAoiDefinitionV1: [source, prefixes]
  Names,        \* exposure ids of the playback manifest
  Environments, \* records [file, approved, manifest, catalogs, taxonomy, demo, video, required]
  Duration,     \* of the video, in the metadata
  MappedFrames, \* records [gaze, attention, point, time]
  MaxExposures, MaxDefinitions  \* bounds

\* Ids are positive, and times and ranks are not negative (AoiExposureV2).
ASSUME ContentAssumption ==
  /\ \A e \in Exposures :
       /\ e.id \in Nat \ {0} /\ {e.parent, e.rank, e.from, e.to} \subseteq Nat
  /\ \A f \in MappedFrames : f.time \in Nat
  /\ Duration \in Nat

VARIABLES
  exposures,    \* of the AOI metadata, if environment.file
  definitions,  \* of the source AOI metadata; none: there is no such file
  environment,
  repository,   \* "none", "ready" or "refused"
  mapped        \* the frame mapped last

contentVars == <<exposures, definitions, environment, repository, mapped>>

NoFrame == [attention |-> "none", gaze |-> FALSE, point |-> 0, time |-> 0]

ContentInit ==
  /\ exposures = <<>> /\ definitions = <<>>
  /\ environment \in Environments /\ repository = "none" /\ mapped = NoFrame

Write(e) ==
  /\ repository = "none" /\ environment.file /\ Len(exposures) < MaxExposures
  /\ exposures # <<>> => exposures[Len(exposures)].id <= e.id
  /\ exposures' = Append(exposures, e)
  /\ UNCHANGED <<definitions, environment, repository, mapped>>

Define(d) ==
  /\ repository = "none" /\ Len(definitions) < MaxDefinitions
  /\ definitions' = Append(definitions, d)
  /\ UNCHANGED <<exposures, environment, repository, mapped>>

-----------------------------------------------------------------------------
(* What the repository checks.                                              *)

Written == {exposures[i] : i \in DOMAIN exposures}

\* Mutant: a child may be of another product than its parent.
NestsAcrossProducts(e, parent) ==
  parent.rank < e.rank /\ parent.from <= e.from /\ e.to <= parent.to

\* A child's product and time are within its parent's; their areas are not
\* compared.
Nests(e, parent) ==
  /\ parent.product = e.product /\ parent.rank < e.rank
  /\ parent.from <= e.from /\ e.to <= parent.to

\* LookbookAoiMetadataV2. The parent is the last exposure with its id.
MetadataValid ==
  /\ environment.approved <=> exposures # <<>>
  /\ Cardinality({e.id : e \in Written}) = Len(exposures)
  /\ \A e \in Written :
       /\ e.from < e.to /\ e.to <= Duration
       /\ IF e.parent = 0 THEN e.rank = 0
          ELSE \E parent \in Written : parent.id = e.parent /\ Nests(e, parent)

\* validate_aoi_metadata_for_catalog
MetadataFits ==
  /\ environment.manifest
  /\ \A e \in Written : e.product \in DOMAIN ProductTags /\ e.tags \subseteq ProductTags[e.product]

PrefixesOf(d) == {d.prefixes[i] : i \in DOMAIN d.prefixes}
Defined == {definitions[i] : i \in DOMAIN definitions}

\* SourceAoiMetadataV1: sources and prefixes are unique.
SourcesValid ==
  /\ \A i, j \in DOMAIN definitions : i # j =>
       /\ definitions[i].source # definitions[j].source
       /\ PrefixesOf(definitions[i]) \cap PrefixesOf(definitions[j]) = {}
  /\ \A d \in Defined : Cardinality(PrefixesOf(d)) = Len(d.prefixes)

MatchingSources(name) == {d \in Defined : \E prefix \in PrefixesOf(d) : IsStrictPrefix(prefix, name)}

\* Mutant: the first definition that matches is taken.
BoundToSome(name) == MatchingSources(name) # {}

\* bind_source_aois, for one exposure of the manifest
Bound(name) == Cardinality(MatchingSources(name)) = 1

\* The demo's static areas are used without source areas.
SourcesUsed == ~environment.demo /\ definitions # <<>>

\* __init__ of the repository.
Sound ==
  /\ environment.catalogs
  /\ environment.file => MetadataValid /\ MetadataFits
  /\ SourcesUsed =>
       /\ SourcesValid /\ \A name \in Names : Bound(name)
       /\ environment.manifest /\ environment.taxonomy
  /\ environment.video = "none" => ~environment.required
  /\ environment.video # "none" => environment.file /\ environment.video = "reviewed"

Start ==
  /\ repository = "none" /\ repository' = IF Sound THEN "ready" ELSE "refused"
  /\ UNCHANGED <<exposures, definitions, environment, mapped>>

-----------------------------------------------------------------------------
(* What a frame is mapped to (map_frame_to_aoi), and its source.            *)

Map(f) ==
  /\ repository = "ready" /\ environment.file /\ mapped' = f
  /\ UNCHANGED <<exposures, definitions, environment, repository>>

Matches(f) == {e \in Written : e.from <= f.time /\ f.time < e.to /\ f.point \in e.area}

Result(f) ==
  IF ~environment.approved THEN "aoi_metadata_unapproved"
  ELSE IF ~f.gaze THEN "gaze_unavailable"
  ELSE IF f.attention = "none" THEN "video_point_unavailable"
  ELSE IF f.attention = "outside" THEN "outside_video"
  ELSE IF f.time >= Duration THEN "video_time_out_of_range"
  ELSE IF Matches(f) = {} THEN "no_aoi_match"
  ELSE IF Cardinality({e.product : e \in Matches(f)}) # 1 THEN "ambiguous_product"
  ELSE "matched"

\* The sort key is the rank, then the id.
Precedes(a, b) == a.rank < b.rank \/ (a.rank = b.rank /\ a.id < b.id)

\* The general area first: the i-th has i - 1 before it.
FrameCandidates(f) ==
  [i \in 1..Cardinality(Matches(f)) |->
     CHOOSE e \in Matches(f) : Cardinality({o \in Matches(f) : Precedes(o, e)}) = i - 1]

ContentNext ==
  \/ \E e \in Exposures : Write(e)
  \/ \E d \in Definitions : Define(d)
  \/ Start \/ \E f \in MappedFrames : Map(f)

-----------------------------------------------------------------------------
(* Properties.                                                              *)

Started == repository = "ready" /\ environment.file

\* The exposures above e, up to the n-th.
Above(e) ==
  LET up[n \in 0..Len(exposures)] ==
        IF n = 0 THEN {e}
        ELSE up[n - 1] \cup {p \in Written : \E c \in up[n - 1] : c.parent = p.id}
  IN up[Len(exposures)]

\* Every area stands under one root, of its product and for all of its time,
\* and none is above itself: the loop that looks for cycles finds none the
\* ranks had not excluded (validate_approval_and_hierarchy).
HierarchyHolds ==
  Started =>
    \A e \in Written :
      /\ Cardinality({p \in Above(e) : p.parent = 0}) = 1
      /\ \A p \in Above(e) :
           /\ p.product = e.product /\ p.from <= e.from /\ e.to <= p.to
           /\ p # e => e \notin Above(p)

\* A frame's candidates are of one product of the catalog, shown with tags of
\* its own, a general area before what lies in it; after the video's end
\* there are none in any case (map_frame_to_aoi).
MappedIsGrounded ==
  Started =>
    LET c == FrameCandidates(mapped) IN
      /\ Result(mapped) = "matched" =>
           /\ \A i, j \in DOMAIN c : c[i].product = c[j].product /\ (i < j => c[j] \notin Above(c[i]))
           /\ \A i \in DOMAIN c : c[i].tags \subseteq ProductTags[c[1].product]
      /\ Result(mapped) = "video_time_out_of_range" => Matches(mapped) = {}

\* A repository that starts has at most one source for an exposure, and the
\* reviewed video if it has any (bind_source_aois, _verify_configured_media).
SourcesAreSingle ==
  repository = "ready" =>
    /\ SourcesUsed =>
         \A name \in Names : \E d \in Defined :
           \A other \in Defined, prefix \in UNION {PrefixesOf(x) : x \in Defined} :
             IsStrictPrefix(prefix, name) /\ prefix \in PrefixesOf(other) => other = d
    /\ environment.required => environment.video = "reviewed" /\ environment.file

ContentIsSound == HierarchyHolds /\ MappedIsGrounded /\ SourcesAreSingle
=============================================================================
