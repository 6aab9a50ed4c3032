-------------------------- MODULE GroundedDecision --------------------------
(***************************************************************************)
(* What a session's recommendation may say: from the areas the customer's   *)
(* gaze fell on (v2_aoi.py, source_aoi.py), over the evidence made of them  *)
(* (v2_evidence.py) and the decision to ask the central model at all        *)
(* (begin_completion, v2_store.py), to the checks its answer has to pass    *)
(* (v2_central.py, v2_models.py) before it becomes the decision.  How the   *)
(* job that does this is started, cancelled and lost is RecommendationJobs. *)
(*                                                                         *)
(* The frames follow each other without a gap; what a gap changes is        *)
(* EvidenceWindows.  A frame is known by its index, an evidence window by   *)
(* the index of its first frame.  Return candidates and face actions are    *)
(* computed, claimed and checked as gaze movement is, and left out; so are  *)
(* texts.  The evidence items of an answer cite one reference: each is      *)
(* checked by itself.                                                       *)
(***************************************************************************)
EXTENDS Naturals, Sequences, FiniteSets

CONSTANTS
  Catalog,             \* the products, in catalog order
  Points,              \* sets of areas a point of the video may lie in
  ProductOf, SourceOf, \* the product and the source AOI of an area
  Traits, Weight,      \* visual features of products and source AOIs, and what one counts
  MaxLooks             \* bound: frames of a session

VARIABLES
  client,   \* "luna", "hosted" (the self-hosted endpoint) or "stub" (the local demo)
  variant,  \* CENTRAL_AI_INPUT_VARIANT
  sourced,  \* the video has approved source AOI metadata, not product areas
  demo,     \* MCM_LOCAL_DEMO_ALLOW_INSUFFICIENT_SIGNAL
  looks,    \* the frames of the session
  request,  \* "none", "asked" or "answered"
  decision

decisionVars == <<client, variant, sourced, demo, looks, request, decision>>

Nothing == "none"
Offered == {Catalog[i] : i \in DOMAIN Catalog}

\* The catalog is not empty, an area is a product's of it, and what is known
\* of a product counts one to four.
ASSUME GroundedAssumption ==
  /\ Offered # {} /\ Nothing \notin Offered
  /\ \A hits \in Points : IsFiniteSet(hits) /\ \A a \in hits : ProductOf[a] \in Offered
  /\ IsFiniteSet(DOMAIN Weight) /\ \A t \in DOMAIN Weight : Weight[t] \in 1..4
  /\ \A p \in Offered : Traits[p] \subseteq DOMAIN Weight

\* A frame: has it a valid gaze, which areas does the gaze lie in, and did it
\* move since the frame before.
Glance == [gaze : BOOLEAN, hits : Points, moved : BOOLEAN]

NoDecision == [status |-> Nothing]
Without(status, code) == [status |-> status, code |-> code]

\* The configurations the API starts with: Luna takes variant C only, and the
\* fallback is for the local demo.
DecisionInit ==
  /\ client \in {"luna", "hosted", "stub"} /\ variant \in {"A", "B", "C"}
  /\ client = "luna" => variant = "C"
  /\ sourced \in BOOLEAN /\ demo \in BOOLEAN
  /\ demo => client = "stub"
  /\ looks = <<>> /\ request = "none" /\ decision = NoDecision

-----------------------------------------------------------------------------
(* The evidence.                                                            *)

Looked == DOMAIN looks

\* map_frame_to_aoi: the areas of a frame become its candidates if they are of
\* one product.  With source AOIs there are no product areas.
Candidates(l) ==
  IF ~sourced /\ Cardinality({ProductOf[a] : a \in l.hits}) = 1 THEN l.hits ELSE {}

Seen(i) ==
  LET products == {ProductOf[a] : a \in Candidates(looks[i])}
  IN IF products = {} THEN Nothing ELSE CHOOSE p \in products : TRUE

Eligible == {Seen(i) : i \in Looked} \ {Nothing}

\* An evidence window is a longest stretch of frames of one product.
EvidenceWindow(i, j) ==
  /\ i <= j /\ Seen(i) # Nothing /\ \A k \in i..j : Seen(k) = Seen(i)
  /\ i = 1 \/ Seen(i - 1) # Seen(i)
  /\ j = Len(looks) \/ Seen(j + 1) # Seen(i)

Windows == {i \in Looked : \E j \in Looked : EvidenceWindow(i, j)}
End(i) == CHOOSE j \in Looked : EvidenceWindow(i, j)

\* Mutant: a window claims what any frame of the session showed.
CodesOfAll(i) ==
  {"observed_attention"} \cup
    (IF \E k \in Looked : looks[k].moved THEN {"gaze_movement"} ELSE {})

\* Movement is collected per product: a later window of the product claims
\* that of an earlier one too.
Codes(i) ==
  {"observed_attention"} \cup
    (IF \E k \in 1..End(i) : Seen(k) = Seen(i) /\ looks[k].moved
     THEN {"gaze_movement"} ELSE {})

Variant == IF Windows # {} THEN variant ELSE "B"

GazeSeen == \E i \in Looked : looks[i].gaze   \* gaze_valid_ratio > 0

\* resolve_source_aoi_hits, and the frames build_source_visual_evidence keeps:
\* those that lie in exactly one source AOI.
Sources(l) == IF sourced THEN {SourceOf[a] : a \in l.hits} ELSE {}
Grounded == {i \in Looked : Cardinality(Sources(looks[i])) = 1}

\* Mutant: "unknown" matches "unknown".
SharedAny(p, i) == Traits[p] \cap UNION {Traits[s] : s \in Sources(looks[i])}

Shared(p, i) == (Traits[p] \cap UNION {Traits[s] : s \in Sources(looks[i])}) \ {"unknown"}

\* product_feature_match_score: every grounded frame counts for every feature
\* the product shares with its source AOI.
Score(p) ==
  Cardinality({m \in Grounded \X (DOMAIN Weight) \X (1..4) :
                 m[2] \in Shared(p, m[1]) /\ m[3] <= Weight[m[2]]})

-----------------------------------------------------------------------------
(* Asking: begin_completion.                                                *)

\* A frame of the session, as append_batch lets it in: a point of the video
\* needs a valid gaze.
Watch(l) ==
  /\ request = "none" /\ Len(looks) < MaxLooks
  /\ ~l.gaze => l.hits = {} /\ ~l.moved
  /\ looks = <<>> \/ sourced => ~l.moved   \* with source AOIs nothing looks at it
  /\ looks' = Append(looks, l)
  /\ UNCHANGED <<client, variant, sourced, demo, request, decision>>

LowSignal == client = "luna" /\ Variant = "B"

Ready ==
  \/ Grounded # {} /\ GazeSeen
  \/ ~sourced /\ GazeSeen /\ Eligible # {}
  \/ LowSignal

\* _demo_fallback_decision: the catalog's first product, or the one looked at,
\* with a frame or window that was captured.
Fallback ==
  LET first == CHOOSE i \in Windows : \A k \in Windows : i <= k
  IN [status |-> "completed", fallback |-> TRUE,
      product |-> IF Variant = "B" THEN Catalog[1] ELSE Seen(first),
      reasons |-> {"catalog_tag_alignment"}, codes |-> {"product_tag_match"},
      ref |-> IF Variant = "B" THEN <<"frame", 1>> ELSE <<"window", first>>]

\* The first session call of complete; a session without frames, or without
\* evidence the client may be asked about, gets its decision at once.
Begin ==
  /\ request = "none"
  /\ IF looks # <<>> /\ Ready
     THEN request' = "asked" /\ UNCHANGED decision
     ELSE /\ request' = "answered"
          /\ decision' =
               IF looks # <<>> /\ client = "stub" /\ demo THEN Fallback
               ELSE Without("insufficient_data",
                            IF GazeSeen THEN "no_eligible_product" ELSE "insufficient_valid_signal")
  /\ UNCHANGED <<client, variant, sourced, demo, looks>>

-----------------------------------------------------------------------------
(* Answering.                                                               *)

Reasons == (SUBSET {"observed_attention_lead", "catalog_tag_alignment"}) \ {{}}
Claims ==
  (SUBSET {"observed_attention", "gaze_movement", "product_tag_match", "data_quality"}) \ {{}}

\* _openai_output_schema finds nothing the answer could cite: there was a
\* gaze, but neither a window nor a source AOI.
LunaRefuses == client = "luna" /\ Variant = "B" /\ Grounded = {} /\ GazeSeen

Favourites == {p \in Eligible :
  \A q \in Eligible : Cardinality({i \in Looked : Seen(i) = q}) <= Cardinality({i \in Looked : Seen(i) = p})}

Matching == {p \in Offered : Score(p) > 0 /\ \A q \in Offered : Score(q) <= Score(p)}

First(indices) == {<<"frame", i>> : i \in {j \in indices : \A k \in indices : j <= k}}

\* Mutant: the stub cites a frame that has a candidate.
StubCitesAny(p) == First({i \in Looked : Seen(i) = p})

\* What the stub cites for a product it saw looked at.
StubCites(p) ==
  IF Variant = "B"
  THEN First({i \in Looked : Seen(i) = p /\ Cardinality(Candidates(looks[i])) = 1})
  ELSE {<<"window", i>> : i \in {j \in Windows : Seen(j) = p /\ \A k \in Windows : Seen(k) = p => j <= k}}

\* DeterministicCentralStub.recommend
StubAnswers ==
  LET both == {"observed_attention_lead", "catalog_tag_alignment"}
  IN IF Grounded # {}
     THEN {[product |-> p, reasons |-> both, codes |-> {"observed_attention", "product_tag_match"},
            ref |-> r] : p \in Matching, r \in First(Grounded)}
     ELSE UNION {{[product |-> p, reasons |-> both, codes |-> {"observed_attention"},
                   ref |-> r] : r \in StubCites(p)} : p \in Favourites}

StubFails == (Grounded # {} /\ Matching = {}) \/ \E p \in Favourites : StubCites(p) = {}

\* The product shares a feature with a source AOI that was looked at, the
\* answer says so, and cites a frame in which one was ...
FitSources ==
  [product : {p \in Offered : Score(p) > 0},
   reasons : {r \in Reasons : {"observed_attention_lead", "catalog_tag_alignment"} \subseteq r},
   codes : {c \in Claims : {"observed_attention", "product_tag_match"} \subseteq c},
   ref : {"frame"} \X Grounded]

\* Mutant: what must be said is looked for, what must not is not.
FitLowSignalLoosely ==
  [product : Offered,
   reasons : {r \in Reasons : "catalog_tag_alignment" \in r},
   codes : {c \in Claims : "data_quality" \in c},
   ref : {"frame"} \X Looked]

\* ... or no gaze was seen and none is claimed ...
FitLowSignal ==
  [product : Offered, reasons : {{"catalog_tag_alignment"}},
   codes : {c \in Claims : "data_quality" \in c /\ c \subseteq {"data_quality", "product_tag_match"}},
   ref : {"frame"} \X Looked]

\* Mutant: a frame may have several candidates.
FitFrameNested ==
  {a \in [product : Eligible, reasons : Reasons, codes : Claims, ref : {"frame"} \X Looked] :
     /\ Seen(a.ref[2]) = a.product
     /\ "gaze_movement" \in a.codes => looks[a.ref[2]].moved}

\* ... or the frame it cites has one candidate, the product ...
FitFrame ==
  {a \in [product : Eligible, reasons : Reasons, codes : Claims, ref : {"frame"} \X Looked] :
     /\ Cardinality(Candidates(looks[a.ref[2]])) = 1 /\ Seen(a.ref[2]) = a.product
     /\ "gaze_movement" \in a.codes => looks[a.ref[2]].moved}

\* ... or the window it cites is the product's and shows what is claimed.
FitWindow ==
  {a \in [product : Eligible, reasons : Reasons, codes : Claims, ref : {"window"} \X Windows] :
     /\ Seen(a.ref[2]) = a.product
     /\ a.codes \cap {"observed_attention", "gaze_movement"} \subseteq Codes(a.ref[2])}

\* validate_central_output: the answers that pass. Others have a wrong form,
\* a tag or evidence of another product, a diagnosis or nothing that grounds
\* them, and fail.
Fitting ==
  CASE Grounded # {} -> FitSources
    [] Grounded = {} /\ Variant = "B" /\ ~GazeSeen -> FitLowSignal
    [] Grounded = {} /\ Variant = "B" /\ GazeSeen -> FitFrame
    [] OTHER -> FitWindow

\* enforce_top_one: a reference of the other kind is refused; its exception
\* ends as an unexpected failure of the client does.
KindFits(a) == a.ref[1] = IF Variant = "B" THEN "frame" ELSE "window"

Decided(a) ==
  IF KindFits(a)
  THEN [status |-> "completed", fallback |-> FALSE, product |-> a.product,
        reasons |-> a.reasons, codes |-> a.codes, ref |-> a.ref]
  ELSE Without("failed", "model_unavailable")

Closed(d) ==
  /\ request' = "answered" /\ decision' = d
  /\ UNCHANGED <<client, variant, sourced, demo, looks>>

\* An answer that passes.
Answer ==
  /\ request = "asked" /\ ~LunaRefuses
  /\ \E a \in Fitting : (client = "stub" => a \in StubAnswers) /\ Closed(Decided(a))

\* The provider does not answer, or with something that does not pass.
Fails ==
  /\ request = "asked"
  /\ client = "stub" => StubFails \/ ~(StubAnswers \subseteq Fitting)
  /\ \E code \in {"model_unavailable", "invalid_model_output", "catalog_mismatch"} :
       /\ client = "stub" \/ LunaRefuses => code = "invalid_model_output"
       /\ Closed(Without("failed", code))

DecisionNext == (\E l \in Glance : Watch(l)) \/ Begin \/ Answer \/ Fails

-----------------------------------------------------------------------------
(* Properties, stated on the areas the frames lie in.                       *)

Recommended == decision.status = "completed" /\ ~decision.fallback

\* The frame lies in areas of the product and of no other.
OnProduct(i, p) == looks[i].hits # {} /\ \A a \in looks[i].hits : ProductOf[a] = p

\* The window that begins with frame i, as the areas show it.
Span(i) == {j \in i..Len(looks) : \A k \in i..j : OnProduct(k, decision.product)}

\* What a recommendation cites was captured.  With product areas it is a frame,
\* or a window that begins with one, in which the customer looked at the
\* product and nothing else, and movement is claimed only where there was some
\* (in a window of variant A or C it may be that of an earlier look at it).
\* With source AOIs it is a frame that lies in exactly one of them, and the
\* product shares a known feature with a source AOI looked at in some frame,
\* not necessarily in this one: the checks of validate_central_output ask no
\* more.  (contracts/README.md asks that a cited frame's candidate be the
\* product; with source AOIs a frame has none.)
CitesWhatWasSeen ==
  Recommended =>
    LET i == decision.ref[2] IN
      /\ i \in Looked
      /\ GazeSeen /\ ~sourced => OnProduct(i, decision.product)
      /\ GazeSeen /\ ~sourced /\ "gaze_movement" \in decision.codes =>
           \/ decision.ref[1] = "frame" /\ looks[i].moved
           \/ /\ decision.ref[1] = "window"
              /\ \E k \in (1..i) \cup Span(i) : OnProduct(k, decision.product) /\ looks[k].moved
      /\ sourced /\ GazeSeen =>
           /\ looks[i].hits # {} /\ \A a, b \in looks[i].hits : SourceOf[a] = SourceOf[b]
           /\ \E k \in Looked, t \in Traits[decision.product] \ {"unknown"} :
                /\ looks[k].hits # {} /\ \A a \in looks[k].hits : t \in Traits[SourceOf[a]]

\* Nobody is told of an observation if none of the frames had a valid gaze.
NoGazeNoClaim ==
  decision.status = "completed" /\ ~GazeSeen =>
    /\ decision.reasons = {"catalog_tag_alignment"}
    /\ decision.codes \subseteq {"product_tag_match", "data_quality"}

\* Requests that no answer can satisfy: Luna with a gaze that fell on nothing,
\* source AOIs that share no feature with any product, and variant B where the
\* product was looked at only through a component inside another area of it.
DeadEnd ==
  \/ LunaRefuses
  \/ /\ Grounded # {}
     /\ \A i \in Grounded : \A p \in Offered, s \in Sources(looks[i]) :
          Traits[p] \cap Traits[s] \subseteq {"unknown"}
  \/ /\ ~sourced /\ variant = "B" /\ GazeSeen
     /\ \A i \in Looked : Cardinality(looks[i].hits) # 1

\* Whatever else is asked has an answer that becomes a decision, every answer
\* that passes the checks does, and the stub's answers pass.
AnswerableUnlessDeadEnd ==
  request = "asked" =>
    /\ Fitting # {} /\ ~LunaRefuses <=> ~DeadEnd
    /\ \A a \in Fitting : KindFits(a)
    /\ client = "stub" => StubAnswers \subseteq Fitting

DecisionIsGrounded == CitesWhatWasSeen /\ NoGazeNoClaim /\ AnswerableUnlessDeadEnd
=============================================================================
