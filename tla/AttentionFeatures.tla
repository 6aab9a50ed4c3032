-------------------------- MODULE AttentionFeatures --------------------------
(* What the v1 API keeps of a session's reactions, and how an engine ranks   *)
(* products from it (services/recommendation/engine): every valid gaze event *)
(* is folded into one aggregate per product and its payload is forgotten.    *)
(* A share of one gaze observation is counted in twelfths (Unit), so that    *)
(* halves, thirds and the caps of the checked instances are whole numbers;   *)
(* a confidence is a whole number out of MaxConfidence. An event is          *)
(*   [id, seq, epoch, bucket, candidates, confidence]                        *)
(* where candidates, the named products in order, is empty when the event    *)
(* is not a valid gaze inside the video, and bucket is the video time in     *)
(* attention buckets.                                                        *)
EXTENDS Integers, FiniteSets, Sequences, FiniteSetsExt, Functions

CONSTANTS Products,        \* the catalog: a set of integers, in product_id order
          MaxContiguousGap \* buckets a continuous look may span (_max_contiguous_bucket_gap)

Unit == 12
MaxConfidence == 2

\* A product nobody looked at yet is not in _features: count 0.
NoAttention == [count |-> 0, confidence |-> 0, first |-> <<>>, buckets |-> {}]
NoFeatures == [p \in Products |-> NoAttention]

\* The products an event names, unknown names and repetitions dropped.
Named(e) == {e.candidates[i] : i \in DOMAIN e.candidates} \cap Products
IndexIn(e, p) == Min({i \in DOMAIN e.candidates : e.candidates[i] = p}) - 1
Share(e) == Unit \div Cardinality(Named(e))

Earlier(a, b) == a[1] < b[1] \/ (a[1] = b[1] /\ a[2] < b[2])

Larger(a, b) == IF a >= b THEN a ELSE b

\* Mutant: the bucket keeps the last sample instead of the largest.
ObservedLast(buckets, key, share, confident) ==
  {b \in buckets : b.key # key} \cup {[key |-> key, share |-> share, confident |-> confident]}
\* _record_attention_bucket: several samples in one bucket keep the largest share.
Observed(buckets, key, share, confident) ==
  LET here == {b \in buckets : b.key = key}
  IN (buckets \ here)
     \cup (IF here = {} THEN {[key |-> key, share |-> share, confident |-> confident]}
           ELSE {[key |-> key, share |-> Larger(b.share, share),
                  confident |-> Larger(b.confident, confident)] : b \in here})

\* ProductFeatureAccumulator.accept
Accept(features, e) ==
  [p \in Products |->
    IF p \notin Named(e) THEN features[p]
    ELSE LET f == features[p]
             seen == <<e.seq, IndexIn(e, p)>>
         IN [count |-> f.count + 1,
             confidence |-> f.confidence + e.confidence * Share(e),
             first |-> IF f.count = 0 \/ Earlier(seen, f.first) THEN seen ELSE f.first,
             buckets |-> Observed(f.buckets, <<e.epoch, e.bucket>>, Share(e), e.confidence * Share(e))]]

-----------------------------------------------------------------------------
(* snapshot *)

BucketTotal(features, key) ==
  SumFunction([p \in Products |->
    SumFunction([b \in {c \in features[p].buckets : c.key = key} |-> b.share])])

\* Mutant: the shares of a bucket are not capped.
ScaledNot(features, key, share) == share
\* _bucket_scales: all products together never fill more than one bucket.
Scaled(features, key, share) ==
  LET total == BucketTotal(features, key)
  IN IF total <= Unit THEN share ELSE (share * Unit) \div total

AttentionTime(features, p) ==
  SumFunction([b \in features[p].buckets |-> Scaled(features, b.key, b.share)])
ConfidentTime(features, p) ==
  SumFunction([b \in features[p].buckets |-> Scaled(features, b.key, b.confident)])

\* Mutant: the gap is compared one bucket too wide.
RunsWide(features, p) ==
  LET keys == {b.key : b \in features[p].buckets}
  IN {k \in keys : \A j \in keys : j[1] = k[1] => j[2] >= k[2] \/ k[2] - j[2] > MaxContiguousGap + 1}
\* A run starts at a bucket with no bucket of its epoch close enough before it.
Runs(features, p) ==
  LET keys == {b.key : b \in features[p].buckets}
  IN {k \in keys : \A j \in keys : j[1] = k[1] => j[2] >= k[2] \/ k[2] - j[2] > MaxContiguousGap}
RevisitCount(features, p) == Larger(0, Cardinality(Runs(features, p)) - 1)

-----------------------------------------------------------------------------
(* The engines. Both answer the two first products of their order, or that   *)
(* there was not enough attention.                                           *)

FirstSeen(features, p, q) ==
  \/ Earlier(features[p].first, features[q].first)
  \/ features[p].first = features[q].first /\ p < q

\* The two first of a set of candidates under a strict total order.
TopTwo(candidates, Before(_, _)) ==
  IF Cardinality(candidates) < 2 THEN <<>>
  ELSE LET best == CHOOSE p \in candidates : \A q \in candidates \ {p} : Before(p, q)
           next == CHOOSE p \in candidates \ {best} : \A q \in candidates \ {best, p} : Before(p, q)
       IN <<best, next>>

\* MockRecommendationEngine.run: the products in the order they were first seen.
MockItems(features) ==
  TopTwo({p \in Products : features[p].count > 0}, LAMBDA p, q : FirstSeen(features, p, q))

Scored(features) == {p \in Products : AttentionTime(features, p) > 0}

\* _score, as a fraction: 0.65 of the longest look, 0.25 of the confidence,
\* 0.10 of the largest number of revisits.
ScoreNumerator(features, p) ==
  LET longest == Max({AttentionTime(features, q) : q \in Scored(features)})
      most == Larger(1, Max({RevisitCount(features, q) : q \in Scored(features)}))
      time == AttentionTime(features, p)
  IN 65 * MaxConfidence * time * time * most
     + 25 * ConfidentTime(features, p) * longest * most
     + 10 * MaxConfidence * RevisitCount(features, p) * longest * time
\* The common factors of the fractions' denominators are left out.
ScoreDenominator(features, p) == AttentionTime(features, p)

\* Mutant: the scores are sorted upwards.
BetterAscending(features, p, q) ==
  LET a == ScoreNumerator(features, p) * ScoreDenominator(features, q)
      b == ScoreNumerator(features, q) * ScoreDenominator(features, p)
  IN a < b \/ (a = b /\ FirstSeen(features, p, q))

Better(features, p, q) ==
  LET a == ScoreNumerator(features, p) * ScoreDenominator(features, q)
      b == ScoreNumerator(features, q) * ScoreDenominator(features, p)
  IN a > b \/ (a = b /\ FirstSeen(features, p, q))

\* ResearchGazeScoreEngine.run
ResearchItems(features) == TopTwo(Scored(features), LAMBDA p, q : Better(features, p, q))

=============================================================================
