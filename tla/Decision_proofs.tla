--------------------------- MODULE Decision_proofs ---------------------------
(***************************************************************************)
(* What the loop analyses, its windows, and what a decision rests on: areas, *)
(* polygons, the video file and the lookbook's content, of any size.        *)
(***************************************************************************)
EXTENDS EvidenceWindows, GroundedDecision, Polygon, MediaFile, LookbookContent, Integers,
        FiniteSetTheorems, FunctionTheorems, SequenceTheorems, WellFoundedInduction, TLAPS

\* A set of natural numbers has a least one.
LEMMA Least ==
  ASSUME NEW T \in SUBSET Nat, T # {}
  PROVE  \E m \in T : \A n \in T : m <= n
<1>1. IsWellFoundedOn(OpToRel(<, Nat), Nat)
  BY NatLessThanWellFounded
<1>2. PICK x \in T : \A y \in T : ~(<<y, x>> \in OpToRel(<, Nat))
  BY <1>1, WFMin
<1>3. \A y \in T : ~(y < x)
  BY <1>2 DEF OpToRel
<1> QED BY <1>3

\* A set of numbers up to n has a greatest one.
LEMMA Greatest ==
  ASSUME NEW n \in Nat, NEW T \in SUBSET (0..n), T # {}
  PROVE  \E m \in T : \A k \in T : k <= m
<1> DEFINE R == {n - k : k \in T}
<1>1. R \in SUBSET Nat /\ R # {}
  <2>1. \A k \in T : k \in 0..n
    OBVIOUS
  <2>2. \A k \in 0..n : n - k \in Nat
    OBVIOUS
  <2> QED BY <2>1, <2>2
<1>2. PICK r \in R : \A k \in R : r <= k
  BY <1>1, Least
<1>3. PICK m \in T : r = n - m
  BY <1>2
<1>4. ASSUME NEW k \in T PROVE k <= m
  <2>1. n - k \in R
    OBVIOUS
  <2>2. n - m <= n - k
    BY <1>2, <1>3, <2>1
  <2>3. n \in Int /\ k \in Int /\ m \in Int
    OBVIOUS
  <2> QED BY <2>2, <2>3
<1> QED BY <1>4

\* What a function makes of finitely many members is finitely many.
LEMMA ImageFinite ==
  ASSUME NEW f, NEW S, IsFiniteSet(S)
  PROVE  IsFiniteSet({f[x] : x \in S})
<1> DEFINE g == [x \in S |-> f[x]]
           T == {f[x] : x \in S}
<1>1. g \in Surjection(S, T)
  BY DEF Surjection
<1> QED BY <1>1, FS_Surjection

\* One element, in other words.
LEMMA OneOf ==
  ASSUME NEW S, IsFiniteSet(S)
  PROVE  Cardinality(S) = 1 <=> \E x : S = {x}
  BY FS_Singleton

LEMMA TriplesFinite ==
  ASSUME NEW A, NEW B, NEW C, IsFiniteSet(A), IsFiniteSet(B), IsFiniteSet(C)
  PROVE  IsFiniteSet(A \X B \X C)
<1> DEFINE P == (A \X B) \X C
           f == [x \in P |-> <<x[1][1], x[1][2], x[2]>>]
<1>1. IsFiniteSet(A \X B)
  BY FS_Product
<1>2. IsFiniteSet(P)
  BY <1>1, FS_Product
<1>3. f \in [P -> A \X B \X C]
  OBVIOUS
<1>4. ASSUME NEW t \in A \X B \X C PROVE \E x \in P : f[x] = t
  <2>1. <<<<t[1], t[2]>>, t[3]>> \in P
    OBVIOUS
  <2>2. f[<<<<t[1], t[2]>>, t[3]>>] = t
    BY <2>1
  <2> QED BY <2>1, <2>2
<1>5. f \in Surjection(P, A \X B \X C)
  BY <1>3, <1>4, Zenon DEF Surjection
<1> QED BY <1>2, <1>5, FS_Surjection

LEMMA Steps ==
  ASSUME NEW n \in Nat, NEW T \in SUBSET (0..n), 0 \in T, \A i \in T : i < n => i + 1 \in T
  PROVE  T = 0..n
<1> SUFFICES ASSUME NEW x \in 0..n, x \notin T PROVE FALSE
  OBVIOUS
<1> DEFINE R == (0..n) \ T
<1>1. R \in SUBSET Nat /\ R # {}
  <2>1. x \in R
    OBVIOUS
  <2>2. 0..n \subseteq Nat
    OBVIOUS
  <2> QED
    BY <2>1, <2>2, Zenon
<1>2. PICK m \in R : \A k \in R : m <= k
  BY <1>1, Least
<1>3. m # 0 /\ m \in 0..n /\ m \notin T
  BY <1>2
<1>4. m - 1 \in 0..n /\ m - 1 \notin R
  BY <1>2, <1>3
<1>5. m - 1 \in T /\ m - 1 < n
  BY <1>3, <1>4
<1>6. (m - 1) + 1 \in T
  BY <1>5
<1> QED
  BY <1>3, <1>6

-----------------------------------------------------------------------------
(* The evidence *)

\* What a frame of a session is.
LooksType == looks \in Seq(Glance)

LEMMA LookIs ==
  ASSUME LooksType, NEW i \in Looked
  PROVE  /\ looks[i] \in Glance /\ looks[i].hits \in Points /\ IsFiniteSet(looks[i].hits)
         /\ looks[i].gaze \in BOOLEAN /\ looks[i].moved \in BOOLEAN
         /\ \A a \in looks[i].hits : ProductOf[a] \in Offered
<1>1. looks[i] \in Glance
  BY DEF LooksType, Looked
<1>2. looks[i].hits \in Points /\ looks[i].gaze \in BOOLEAN /\ looks[i].moved \in BOOLEAN
  BY <1>1 DEF Glance
<1> QED BY <1>1, <1>2, GroundedAssumption
LEMMA IndicesAre ==
  ASSUME LooksType
  PROVE  /\ Looked = 1..Len(looks) /\ Len(looks) \in Nat /\ IsFiniteSet(Looked)
         /\ looks # <<>> => 1 \in Looked
<1>1. Looked = 1..Len(looks) /\ Len(looks) \in Nat
  BY DEF LooksType, Looked
<1>2. looks # <<>> => Len(looks) # 0
  BY EmptySeq DEF LooksType
<1> QED BY <1>1, <1>2, FS_Interval

\* The product a frame has areas of, and of no other.
LEMMA SeenIs ==
  ASSUME LooksType, NEW i \in Looked, Seen(i) # Nothing
  PROVE  /\ ~sourced /\ Candidates(looks[i]) = looks[i].hits
         /\ Seen(i) \in Offered /\ OnProduct(i, Seen(i)) /\ Seen(i) \in Eligible
<1> DEFINE l == looks[i]
           products == {ProductOf[a] : a \in l.hits}
<1>1. IsFiniteSet(l.hits) /\ \A a \in l.hits : ProductOf[a] \in Offered
  BY LookIs
<1>2. IsFiniteSet(products)
  BY <1>1, ImageFinite
<1>3. Candidates(l) # {}
  <2>1. SUFFICES ASSUME Candidates(l) = {} PROVE FALSE
    OBVIOUS
  <2>2. {ProductOf[a] : a \in Candidates(l)} = {}
    BY <2>1
  <2> QED BY <2>2 DEF Seen
<1>4. ~sourced /\ Cardinality(products) = 1 /\ Candidates(l) = l.hits
  BY <1>3 DEF Candidates
<1>5. PICK p : products = {p}
  BY <1>2, <1>4, OneOf
<1>6. Seen(i) = p
  <2>1. {ProductOf[a] : a \in Candidates(looks[i])} = {p}
    BY <1>4, <1>5
  <2> QED BY <2>1 DEF Seen
<1>7. l.hits # {} /\ \A a \in l.hits : ProductOf[a] = p
  BY <1>5
<1>8. p \in Offered
  BY <1>1, <1>7
<1> QED BY <1>4, <1>6, <1>7, <1>8 DEF OnProduct, Eligible

\* An area of a single product is seen.
LEMMA OneAreaSeen ==
  ASSUME LooksType, ~sourced, NEW i \in Looked, Cardinality(looks[i].hits) = 1
  PROVE  Cardinality(Candidates(looks[i])) = 1 /\ Seen(i) # Nothing
<1> DEFINE l == looks[i]
<1>1. IsFiniteSet(l.hits) /\ \A a \in l.hits : ProductOf[a] \in Offered
  BY LookIs
<1>2. PICK a : l.hits = {a}
  BY <1>1, OneOf
<1>3. {ProductOf[b] : b \in l.hits} = {ProductOf[a]}
  BY <1>2
<1>4. Cardinality({ProductOf[b] : b \in l.hits}) = 1
  BY <1>3, FS_Singleton
<1>5. Candidates(l) = l.hits
  BY <1>4 DEF Candidates
<1>6. Seen(i) = ProductOf[a]
  BY <1>3, <1>5 DEF Seen
<1>7. ProductOf[a] # Nothing
  BY <1>1, <1>2, GroundedAssumption
<1> QED BY <1>5, <1>6, <1>7

\* One candidate is one area.
LEMMA OneCandidate ==
  ASSUME LooksType, NEW i \in Looked, Cardinality(Candidates(looks[i])) = 1
  PROVE  ~sourced /\ Candidates(looks[i]) = looks[i].hits /\ Seen(i) # Nothing
<1>1. Candidates(looks[i]) # {}
  BY FS_EmptySet
<1>2. ~sourced /\ Candidates(looks[i]) = looks[i].hits
  BY <1>1 DEF Candidates
<1> QED BY <1>2, OneAreaSeen

\* With source AOIs no product is seen; without, there is no source.
LEMMA SourcedSeesNone ==
  ASSUME LooksType, sourced
  PROVE  /\ \A i \in Looked : Seen(i) = Nothing
         /\ Eligible = {} /\ Windows = {} /\ Variant = "B"
<1>1. \A i \in Looked : Seen(i) = Nothing
  BY SeenIs
<1>2. Eligible = {}
  BY <1>1 DEF Eligible
<1>3. Windows = {}
  BY <1>1 DEF Windows, EvidenceWindow
<1> QED BY <1>1, <1>2, <1>3 DEF Variant

LEMMA UnsourcedGroundsNone ==
  ASSUME ~sourced
  PROVE  Grounded = {}
<1>1. \A l : Sources(l) = {}
  BY DEF Sources
<1> QED BY <1>1, FS_EmptySet DEF Grounded

\* A product that is seen is seen in a window.
LEMMA SeenInWindow ==
  ASSUME LooksType, NEW i \in Looked, Seen(i) # Nothing
  PROVE  \E a \in Windows : Seen(a) = Seen(i)
<1> DEFINE p == Seen(i)
<1>0. PICK n \in Nat : n = Len(looks) /\ Looked = 1..n
  BY IndicesAre
<1>i. i \in 1..n /\ i \in Int
  BY <1>0
<1> DEFINE S == {a \in 1..i : \A k \in a..i : Seen(k) = p}
           T == {b \in i..n : \A k \in i..b : Seen(k) = p}
<1>1. S \in SUBSET Nat /\ i \in S
  <2>1. i..i = {i}
    BY <1>i
  <2>2. S \subseteq 1..i /\ 1..i \subseteq Nat
    BY <1>i
  <2>3. i \in 1..i /\ \A k \in i..i : Seen(k) = p
    BY <2>1, <1>i
  <2> QED BY <2>2, <2>3
<1>2. PICK a \in S : \A x \in S : a <= x
  BY <1>1, Least
<1>3. T \in SUBSET (0..n) /\ i \in T
  <2>1. i..i = {i}
    BY <1>i
  <2>2. T \subseteq i..n /\ i..n \subseteq 0..n
    BY <1>i
  <2>3. i \in i..n /\ \A k \in i..i : Seen(k) = p
    BY <2>1, <1>i
  <2> QED BY <2>2, <2>3
<1>4. PICK b \in T : \A x \in T : x <= b
  BY <1>3, Greatest
<1>5. a \in 1..i /\ b \in i..n /\ a \in Int /\ b \in Int /\ n \in Int /\ a \in 1..n /\ b \in 1..n /\ a <= b
  BY <1>i
<1>6. \A k \in a..b : Seen(k) = p
  <2>1. (\A k \in a..i : Seen(k) = p) /\ \A k \in i..b : Seen(k) = p
    BY <1>2, <1>4
  <2>2. \A k \in a..b : k \in a..i \/ k \in i..b
    BY <1>5, <1>i
  <2> QED BY <2>1, <2>2
<1>7. a \in a..b
  BY <1>5
<1>8. Seen(a) = p
  BY <1>6, <1>7
<1>9. a = 1 \/ Seen(a - 1) # p
  <2>1. SUFFICES ASSUME a # 1, Seen(a - 1) = p PROVE FALSE
    OBVIOUS
  <2>2. a - 1 \in 1..i /\ a - 1 < a
    BY <2>1, <1>5, <1>i
  <2>3. \A k \in (a - 1)..i : k = a - 1 \/ k \in a..i
    BY <1>5, <1>i
  <2>4. \A k \in (a - 1)..i : Seen(k) = p
    BY <2>1, <2>3, <1>2
  <2>5. a - 1 \in S
    BY <2>2, <2>4
  <2>6. a <= a - 1
    BY <2>5, <1>2
  <2> QED BY <2>6, <1>5
<1>10. b = n \/ Seen(b + 1) # p
  <2>1. SUFFICES ASSUME b # n, Seen(b + 1) = p PROVE FALSE
    OBVIOUS
  <2>2. b + 1 \in i..n /\ b < b + 1
    BY <2>1, <1>5, <1>i
  <2>3. \A k \in i..(b + 1) : k = b + 1 \/ k \in i..b
    BY <1>5, <1>i
  <2>4. \A k \in i..(b + 1) : Seen(k) = p
    BY <2>1, <2>3, <1>4
  <2>5. b + 1 \in T
    BY <2>2, <2>4
  <2>6. b + 1 <= b
    BY <2>5, <1>4
  <2> QED BY <2>6, <1>5
<1>11. EvidenceWindow(a, b)
  BY <1>0, <1>5, <1>6, <1>8, <1>9, <1>10 DEF EvidenceWindow
<1>12. a \in Windows
  BY <1>0, <1>5, <1>11 DEF Windows
<1> QED BY <1>8, <1>12

\* What a window is.
LEMMA WindowIs ==
  ASSUME LooksType, NEW i \in Windows
  PROVE  /\ i \in Looked /\ End(i) \in Looked /\ i <= End(i)
         /\ Seen(i) # Nothing /\ \A k \in i..End(i) : Seen(k) = Seen(i)
<1>1. i \in Looked /\ \E j \in Looked : EvidenceWindow(i, j)
  BY DEF Windows
<1>2. End(i) \in Looked /\ EvidenceWindow(i, End(i))
  BY <1>1 DEF End
<1> QED BY <1>1, <1>2 DEF EvidenceWindow

-----------------------------------------------------------------------------
(* Source AOIs *)

\* A grounded frame lies in areas of one source AOI.
LEMMA GroundedIs ==
  ASSUME LooksType, NEW i \in Grounded
  PROVE  /\ sourced /\ i \in Looked /\ looks[i].hits # {}
         /\ \E s : Sources(looks[i]) = {s} /\ \A a \in looks[i].hits : SourceOf[a] = s
<1>1. sourced
  BY UnsourcedGroundsNone
<1>2. i \in Looked /\ Cardinality(Sources(looks[i])) = 1
  BY DEF Grounded
<1>3. Sources(looks[i]) = {SourceOf[a] : a \in looks[i].hits}
  BY <1>1 DEF Sources
<1>4. IsFiniteSet({SourceOf[a] : a \in looks[i].hits})
  BY <1>2, LookIs, ImageFinite
<1>5. PICK s : {SourceOf[a] : a \in looks[i].hits} = {s}
  BY <1>2, <1>3, <1>4, OneOf
<1>6. looks[i].hits # {} /\ \A a \in looks[i].hits : SourceOf[a] = s
  BY <1>5
<1> QED BY <1>1, <1>2, <1>3, <1>5, <1>6

LEMMA GroundedAreFinite ==
  ASSUME LooksType
  PROVE  IsFiniteSet(Grounded) /\ Grounded \subseteq Looked
<1>1. Grounded \in SUBSET Looked
  BY DEF Grounded
<1> QED BY <1>1, IndicesAre, FS_Subset

\* A product's score is positive exactly if it shares a feature with the
\* source AOI of a grounded frame.
LEMMA ScoreIs ==
  ASSUME LooksType, NEW p \in Offered
  PROVE  Score(p) > 0 <=> \E i \in Grounded : \E t : t \in Shared(p, i)
<1> DEFINE All == Grounded \X (DOMAIN Weight) \X (1..4)
           M == {m \in All : m[2] \in Shared(p, m[1]) /\ m[3] <= Weight[m[2]]}
<1>1. IsFiniteSet(All)
  <2>1. IsFiniteSet(1..4)
    <3>1. 1 \in Int /\ 4 \in Int
      OBVIOUS
    <3> QED BY <3>1, FS_Interval
  <2> QED BY <2>1, GroundedAreFinite, GroundedAssumption, TriplesFinite
<1>2. IsFiniteSet(M)
  <2>1. M \in SUBSET All
    OBVIOUS
  <2> QED BY <1>1, <2>1, FS_Subset
<1>3. Score(p) = Cardinality(M)
  BY DEF Score
<1>4. Cardinality(M) \in Nat /\ (Cardinality(M) = 0 <=> M = {})
  BY <1>2, FS_CardinalityType, FS_EmptySet
<1>5. ASSUME NEW m \in M PROVE m[1] \in Grounded /\ m[2] \in Shared(p, m[1])
  OBVIOUS
<1>6. ASSUME NEW i \in Grounded, NEW t \in Shared(p, i) PROVE <<i, t, 1>> \in M
  <2>1. t \in Traits[p]
    BY DEF Shared
  <2>2. t \in DOMAIN Weight /\ Weight[t] \in 1..4
    BY <2>1, GroundedAssumption
  <2>3. 1 <= Weight[t] /\ 1 \in 1..4
    BY <2>2
  <2>4. <<i, t, 1>> \in All
    BY <2>2, <2>3
  <2> QED BY <2>3, <2>4
<1>7. M # {} <=> \E i \in Grounded : \E t : t \in Shared(p, i)
  BY <1>5, <1>6
<1>8. Score(p) > 0 <=> M # {}
  BY <1>3, <1>4
<1> QED BY <1>7, <1>8

-----------------------------------------------------------------------------
(* The answers that pass *)

BothReasons == {"observed_attention_lead", "catalog_tag_alignment"}

\* An answer that passes is one of the four kinds, each in its own case.
LEMMA FittingIs ==
  /\ Grounded # {} => Fitting = FitSources
  /\ Grounded = {} /\ Variant = "B" /\ ~GazeSeen => Fitting = FitLowSignal
  /\ Grounded = {} /\ Variant = "B" /\ GazeSeen => Fitting = FitFrame
  /\ Grounded = {} /\ Variant # "B" => Fitting = FitWindow
<1> DEFINE a == Grounded # {}
           b == Grounded = {} /\ Variant = "B" /\ ~GazeSeen
           c == Grounded = {} /\ Variant = "B" /\ GazeSeen
<1>1. Fitting = CASE a -> FitSources [] b -> FitLowSignal [] c -> FitFrame [] OTHER -> FitWindow
  BY DEF Fitting
<1>2. CASE a
  <2>1. ~b /\ ~c
    BY <1>2
  <2> HIDE DEF b, c
  <2>2. Fitting = FitSources
    BY <1>1, <1>2, <2>1
  <2> QED BY <1>2, <2>2
<1>3. CASE b
  <2>1. ~a /\ ~c
    BY <1>3
  <2>2. Fitting = FitLowSignal
    <3> HIDE DEF a, c, b
    <3> QED BY <1>1, <1>3, <2>1
  <2> QED BY <1>3, <2>2
<1>4. CASE c
  <2>1. ~a /\ ~b
    BY <1>4
  <2>2. Fitting = FitFrame
    <3> HIDE DEF a, c, b
    <3> QED BY <1>1, <1>4, <2>1
  <2> QED BY <1>4, <2>2
<1>5. CASE ~a /\ ~b /\ ~c
  <2>2. Fitting = FitWindow
    <3> HIDE DEF a, c, b
    <3> QED BY <1>1, <1>5
  <2> QED BY <1>5, <2>2
<1> QED BY <1>2, <1>3, <1>4, <1>5

\* What belongs to the nonempty subsets.
LEMMA SomeOf ==
  ASSUME NEW U, NEW C, C \subseteq U, NEW x \in C
  PROVE  C \in (SUBSET U) \ {{}}
  OBVIOUS

LEMMA ReasonsAndClaims ==
  /\ BothReasons \in Reasons /\ {"data_quality"} \in Claims /\ {"observed_attention"} \in Claims
  /\ {"observed_attention", "product_tag_match"} \in Claims
<1>1. BothReasons \in Reasons
  BY SomeOf, "catalog_tag_alignment" \in BothReasons DEF BothReasons, Reasons
<1>2. {"data_quality"} \in Claims
  BY SomeOf, "data_quality" \in {"data_quality"} DEF Claims
<1>3. {"observed_attention"} \in Claims
  BY SomeOf, "observed_attention" \in {"observed_attention"} DEF Claims
<1>4. {"observed_attention", "product_tag_match"} \in Claims
  BY SomeOf, "observed_attention" \in {"observed_attention", "product_tag_match"} DEF Claims
<1> QED BY <1>1, <1>2, <1>3, <1>4

\* What an answer that passes cites, in each case.
LEMMA FitSourcesIs ==
  ASSUME NEW a \in FitSources
  PROVE  /\ a.product \in Offered /\ Score(a.product) > 0
         /\ a.ref \in {"frame"} \X Grounded
  BY DEF FitSources

LEMMA FitLowSignalIs ==
  ASSUME NEW a \in FitLowSignal
  PROVE  /\ a.reasons = {"catalog_tag_alignment"}
         /\ a.codes \subseteq {"product_tag_match", "data_quality"}
         /\ a.ref \in {"frame"} \X Looked
  BY DEF FitLowSignal

LEMMA FitFrameIs ==
  ASSUME NEW a \in FitFrame
  PROVE  /\ a.product \in Eligible /\ a.ref \in {"frame"} \X Looked
         /\ Cardinality(Candidates(looks[a.ref[2]])) = 1 /\ Seen(a.ref[2]) = a.product
         /\ "gaze_movement" \in a.codes => looks[a.ref[2]].moved
  BY DEF FitFrame

LEMMA FitWindowIs ==
  ASSUME NEW a \in FitWindow
  PROVE  /\ a.product \in Eligible /\ a.ref \in {"window"} \X Windows /\ Seen(a.ref[2]) = a.product
         /\ a.codes \cap {"observed_attention", "gaze_movement"} \subseteq Codes(a.ref[2])
  BY DEF FitWindow

\* LooksType without a gaze lie in nothing.
NoGazeNoHits == \A i \in Looked : ~looks[i].gaze => looks[i].hits = {} /\ ~looks[i].moved

LEMMA GazelessSeesNothing ==
  ASSUME LooksType, NoGazeNoHits, ~GazeSeen
  PROVE  Grounded = {} /\ Eligible = {} /\ Windows = {} /\ Variant = "B"
<1>1. \A i \in Looked : looks[i].hits = {}
  BY DEF GazeSeen, NoGazeNoHits
<1>2. Grounded = {}
  <2>1. SUFFICES ASSUME NEW i \in Grounded PROVE FALSE
    OBVIOUS
  <2> QED BY <1>1, GroundedIs
<1>3. \A i \in Looked : Seen(i) = Nothing
  <2>1. SUFFICES ASSUME NEW i \in Looked, Seen(i) # Nothing PROVE FALSE
    OBVIOUS
  <2>2. OnProduct(i, Seen(i))
    BY <2>1, SeenIs
  <2> QED BY <1>1, <2>2 DEF OnProduct
<1>4. Eligible = {}
  BY <1>3 DEF Eligible
<1>5. Windows = {}
  BY <1>3 DEF Windows, EvidenceWindow
<1> QED BY <1>2, <1>4, <1>5 DEF Variant

-----------------------------------------------------------------------------
(* The three properties, of a session of which these things are known *)

\* A session that is asked about has frames and something to ask.
MayAsk == looks # <<>> /\ Ready

\* A decision that recommends is an answer that passed.
Passing == Recommended =>
  /\ MayAsk
  /\ \E a \in Fitting : /\ decision.product = a.product /\ decision.reasons = a.reasons
                        /\ decision.codes = a.codes /\ decision.ref = a.ref

\* A decision for the demo is the fallback.
FallbackInv == decision.status = "completed" /\ decision.fallback =>
  /\ decision.reasons = {"catalog_tag_alignment"} /\ decision.codes = {"product_tag_match"}

DecisionTypes ==
  /\ client \in {"luna", "hosted", "stub"} /\ variant \in {"A", "B", "C"}
  /\ client = "luna" => variant = "C"
  /\ sourced \in BOOLEAN /\ demo \in BOOLEAN
  /\ LooksType /\ request \in {"none", "asked", "answered"}
  /\ decision.status \in {Nothing, "completed", "failed", "insufficient_data"}
  /\ decision.status = "completed" => decision.fallback \in BOOLEAN
  /\ request # "answered" => decision = NoDecision

DecisionInv ==
  /\ DecisionTypes /\ NoGazeNoHits
  /\ request = "asked" => MayAsk
  /\ Passing /\ FallbackInv

LEMMA NoClaimHolds ==
  ASSUME DecisionInv
  PROVE  NoGazeNoClaim
<1> SUFFICES ASSUME decision.status = "completed", ~GazeSeen
             PROVE  /\ decision.reasons = {"catalog_tag_alignment"}
                    /\ decision.codes \subseteq {"product_tag_match", "data_quality"}
  BY DEF NoGazeNoClaim
<1>1. CASE decision.fallback
  BY <1>1 DEF DecisionInv, FallbackInv
<1>2. CASE ~decision.fallback
  <2>1. PICK a \in Fitting : decision.reasons = a.reasons /\ decision.codes = a.codes
    BY <1>2 DEF DecisionInv, Passing, Recommended
  <2>2. Grounded = {} /\ Variant = "B"
    BY GazelessSeesNothing DEF DecisionInv, DecisionTypes
  <2>3. a \in FitLowSignal
    BY <2>1, <2>2, FittingIs
  <2> QED BY <2>1, <2>3, FitLowSignalIs
<1> QED BY <1>1, <1>2

LEMMA CitesHolds ==
  ASSUME DecisionInv
  PROVE  CitesWhatWasSeen
<1> SUFFICES ASSUME Recommended PROVE CitesWhatWasSeen
  BY DEF CitesWhatWasSeen
<1>f. LooksType /\ MayAsk /\ NoGazeNoHits
  BY DEF DecisionInv, DecisionTypes, Passing
<1>1. PICK a \in Fitting : /\ decision.product = a.product /\ decision.reasons = a.reasons
                           /\ decision.codes = a.codes /\ decision.ref = a.ref
  BY DEF DecisionInv, Passing
<1> DEFINE i == decision.ref[2]
           p == decision.product
           AtFrame == decision.ref[1] = "frame" /\ looks[i].moved
           InWindow == /\ decision.ref[1] = "window"
                       /\ \E k \in (1..i) \cup Span(i) : OnProduct(k, p) /\ looks[k].moved
           AtSource == /\ looks[i].hits # {}
                       /\ \A x, y \in looks[i].hits : SourceOf[x] = SourceOf[y]
                       /\ \E k \in Looked, t \in Traits[p] \ {"unknown"} :
                            /\ looks[k].hits # {}
                            /\ \A x \in looks[k].hits : t \in Traits[SourceOf[x]]
<1>2. SUFFICES /\ i \in Looked
               /\ GazeSeen /\ ~sourced => OnProduct(i, p)
               /\ GazeSeen /\ ~sourced /\ "gaze_movement" \in decision.codes => AtFrame \/ InWindow
               /\ sourced /\ GazeSeen => AtSource
  BY DEF CitesWhatWasSeen
<1>3. CASE ~GazeSeen
  <2>1. a \in FitLowSignal
    BY <1>1, <1>3, <1>f, GazelessSeesNothing, FittingIs
  <2>2. i \in Looked
    BY <1>1, <2>1, FitLowSignalIs
  <2> QED BY <1>3, <2>2
<1>4. CASE GazeSeen /\ sourced
  <2>1. Variant = "B" /\ Eligible = {}
    BY <1>4, <1>f, SourcedSeesNone
  <2>2. Grounded # {}
    <3>1. SUFFICES ASSUME Grounded = {} PROVE FALSE
      OBVIOUS
    <3>2. a \in FitFrame
      BY <1>1, <1>4, <2>1, <3>1, FittingIs
    <3> QED BY <2>1, <3>2, FitFrameIs
  <2>3. a \in FitSources
    BY <1>1, <2>2, FittingIs
  <2>4. p \in Offered /\ Score(p) > 0 /\ i \in Grounded
    BY <1>1, <2>3, FitSourcesIs
  <2>5. /\ i \in Looked /\ looks[i].hits # {}
        /\ \A x, y \in looks[i].hits : SourceOf[x] = SourceOf[y]
    BY <1>f, <2>4, GroundedIs
  <2>6. PICK k \in Grounded : \E t : t \in Shared(p, k)
    BY <1>f, <2>4, ScoreIs
  <2>7. PICK t : t \in Shared(p, k)
    BY <2>6
  <2>8. PICK s : /\ k \in Looked /\ looks[k].hits # {} /\ Sources(looks[k]) = {s}
                 /\ \A x \in looks[k].hits : SourceOf[x] = s
    BY <1>f, <2>6, GroundedIs
  <2>9. t \in Traits[p] \ {"unknown"} /\ t \in Traits[s]
    BY <2>7, <2>8 DEF Shared
  <2>10. AtSource
    BY <2>5, <2>8, <2>9
  <2> HIDE DEF AtSource
  <2> QED BY <1>4, <2>5, <2>10
<1>5. CASE GazeSeen /\ ~sourced /\ Variant = "B"
  <2>1. a \in FitFrame
    BY <1>1, <1>5, UnsourcedGroundsNone, FittingIs
  <2>2. /\ i \in Looked /\ decision.ref[1] = "frame" /\ Seen(i) = p
        /\ Cardinality(Candidates(looks[i])) = 1
        /\ "gaze_movement" \in decision.codes => looks[i].moved
    BY <1>1, <2>1, FitFrameIs
  <2>3. OnProduct(i, p)
    BY <1>f, <2>2, OneCandidate, SeenIs
  <2>4. "gaze_movement" \in decision.codes => AtFrame
    BY <2>2
  <2> HIDE DEF AtFrame, InWindow, AtSource
  <2> QED BY <1>5, <2>2, <2>3, <2>4
<1>6. CASE GazeSeen /\ ~sourced /\ Variant # "B"
  <2>1. a \in FitWindow
    BY <1>1, <1>6, UnsourcedGroundsNone, FittingIs
  <2>2. /\ i \in Windows /\ decision.ref[1] = "window" /\ Seen(i) = p
        /\ decision.codes \cap {"observed_attention", "gaze_movement"} \subseteq Codes(i)
    BY <1>1, <2>1, FitWindowIs
  <2>3. /\ i \in Looked /\ End(i) \in Looked /\ i <= End(i) /\ Seen(i) # Nothing
        /\ \A k \in i..End(i) : Seen(k) = Seen(i)
    BY <1>f, <2>2, WindowIs
  <2>4. OnProduct(i, p)
    BY <1>f, <2>2, <2>3, SeenIs
  <2>5. ASSUME "gaze_movement" \in decision.codes PROVE InWindow
    <3>1. "gaze_movement" \in Codes(i)
      BY <2>2, <2>5
    <3>2. PICK k \in 1..End(i) : Seen(k) = Seen(i) /\ looks[k].moved
      BY <3>1 DEF Codes
    <3>3. PICK n \in Nat : n = Len(looks) /\ Looked = 1..n
      BY <1>f, IndicesAre
    <3>4. PICK e \in 1..n : e = End(i)
      BY <2>3, <3>3
    <3>5. i \in 1..n /\ k \in 1..e
      BY <2>3, <3>2, <3>3, <3>4
    <3>6. k \in Looked
      BY <3>3, <3>4, <3>5
    <3>7. \A j \in i..e : OnProduct(j, p)
      <4>1. ASSUME NEW j \in i..e PROVE OnProduct(j, p)
        <5>1. j \in Looked
          BY <3>3, <3>4, <3>5
        <5>2. Seen(j) = p /\ Seen(j) # Nothing
          BY <2>2, <2>3, <3>4
        <5> QED BY <1>f, <5>1, <5>2, SeenIs
      <4> QED BY <4>1
    <3>8. OnProduct(k, p)
      BY <1>f, <2>2, <2>3, <3>2, <3>6, SeenIs
    <3>9. k \in (1..i) \cup Span(i)
      <4>1. CASE k <= i
        BY <4>1, <3>5
      <4>2. CASE ~(k <= i)
        <5>1. k \in i..n /\ \A j \in i..k : j \in i..e
          BY <4>2, <3>4, <3>5
        <5>2. k \in Span(i)
          BY <3>3, <3>7, <5>1 DEF Span
        <5> QED BY <5>2
      <4> QED BY <4>1, <4>2
    <3> QED BY <2>2, <3>2, <3>8, <3>9
  <2> HIDE DEF AtFrame, InWindow, AtSource
  <2> QED BY <1>6, <2>3, <2>4, <2>5
<1> QED BY <1>3, <1>4, <1>5, <1>6

LEMMA BothReasonsIs == BothReasons = {"observed_attention_lead", "catalog_tag_alignment"}
  BY DEF BothReasons

LEMMA FirstIs ==
  ASSUME NEW S, NEW r \in First(S)
  PROVE  r \in {"frame"} \X S
  BY DEF First

\* A product that is seen comes with a window, and the variant stays what it is.
LEMMA EligibleIs ==
  ASSUME LooksType, NEW p \in Eligible
  PROVE  /\ p # Nothing /\ \E i \in Looked : Seen(i) = p
         /\ \E w \in Windows : Seen(w) = p
         /\ Variant = variant
<1>1. PICK i \in Looked : Seen(i) = p /\ p # Nothing
  BY DEF Eligible
<1>2. \E w \in Windows : Seen(w) = p
  BY <1>1, SeenInWindow
<1> QED BY <1>1, <1>2 DEF Variant

\* What a client other than Luna is asked about without a grounded frame.
LEMMA AskedUngrounded ==
  ASSUME LooksType, MayAsk, client # "luna", Grounded = {}
  PROVE  ~sourced /\ GazeSeen /\ Eligible # {} /\ Windows # {} /\ Variant = variant
<1>1. ~sourced /\ GazeSeen /\ Eligible # {}
  BY DEF MayAsk, Ready, LowSignal
<1> QED BY <1>1, EligibleIs

\* An answer of these fields passes, in each case.
Answering(p, r, c, ref) == [product |-> p, reasons |-> r, codes |-> c, ref |-> ref]

LEMMA FitSourcesHas ==
  ASSUME NEW p \in Offered, Score(p) > 0, NEW i \in Grounded
  PROVE  Answering(p, BothReasons, {"observed_attention", "product_tag_match"}, <<"frame", i>>) \in FitSources
<1>1. p \in {q \in Offered : Score(q) > 0}
  OBVIOUS
<1>2. BothReasons \in {r \in Reasons : {"observed_attention_lead", "catalog_tag_alignment"} \subseteq r}
  BY ReasonsAndClaims, BothReasonsIs
<1>3. {"observed_attention", "product_tag_match"}
        \in {c \in Claims : {"observed_attention", "product_tag_match"} \subseteq c}
  BY ReasonsAndClaims
<1>4. <<"frame", i>> \in {"frame"} \X Grounded
  OBVIOUS
<1> HIDE DEF Reasons, Claims
<1> QED BY <1>1, <1>2, <1>3, <1>4 DEF FitSources, Answering

LEMMA FitLowSignalHas ==
  ASSUME NEW p \in Offered, NEW i \in Looked
  PROVE  Answering(p, {"catalog_tag_alignment"}, {"data_quality"}, <<"frame", i>>) \in FitLowSignal
<1>1. {"data_quality"} \in {c \in Claims : "data_quality" \in c /\ c \subseteq {"data_quality", "product_tag_match"}}
  BY ReasonsAndClaims
<1> QED BY <1>1 DEF FitLowSignal, Answering

LEMMA FitFrameHas ==
  ASSUME NEW i \in Looked, Seen(i) \in Eligible, Cardinality(Candidates(looks[i])) = 1,
         NEW c \in Claims, "gaze_movement" \notin c
  PROVE  Answering(Seen(i), BothReasons, c, <<"frame", i>>) \in FitFrame
<1> DEFINE a == Answering(Seen(i), BothReasons, c, <<"frame", i>>)
<1>1. a \in [product : Eligible, reasons : Reasons, codes : Claims, ref : {"frame"} \X Looked]
  BY ReasonsAndClaims DEF Answering
<1>2. a.ref[2] = i /\ a.product = Seen(i) /\ a.codes = c
  BY DEF Answering
<1>3. a \in FitFrame
  <2> HIDE DEF a
  <2> QED BY <1>1, <1>2 DEF FitFrame
<1> QED BY <1>3

LEMMA FitWindowHas ==
  ASSUME NEW i \in Windows, Seen(i) \in Eligible
  PROVE  Answering(Seen(i), BothReasons, {"observed_attention"}, <<"window", i>>) \in FitWindow
<1> DEFINE a == Answering(Seen(i), BothReasons, {"observed_attention"}, <<"window", i>>)
<1>1. a \in [product : Eligible, reasons : Reasons, codes : Claims, ref : {"window"} \X Windows]
  BY ReasonsAndClaims DEF Answering
<1>2. a.ref[2] = i /\ a.product = Seen(i) /\ a.codes = {"observed_attention"}
  BY DEF Answering
<1>3. {"observed_attention"} \cap {"observed_attention", "gaze_movement"} \subseteq Codes(i)
  BY DEF Codes
<1>4. a \in FitWindow
  <2> HIDE DEF a
  <2> QED BY <1>1, <1>2, <1>3 DEF FitWindow
<1> QED BY <1>4

\* The kind of the reference follows from the case.
LEMMA KindHolds ==
  ASSUME LooksType, NEW a \in Fitting
  PROVE  KindFits(a)
<1>1. CASE Grounded # {}
  <2>1. a \in FitSources
    BY <1>1, FittingIs
  <2>2. PICK i \in Grounded : TRUE
    BY <1>1
  <2>3. sourced
    BY <2>2, GroundedIs
  <2>4. Variant = "B"
    BY <2>3, SourcedSeesNone
  <2>5. a.ref[1] = "frame"
    BY <2>1, FitSourcesIs
  <2> QED BY <2>4, <2>5 DEF KindFits
<1>2. CASE Grounded = {} /\ Variant = "B"
  <2>1. a \in FitLowSignal \/ a \in FitFrame
    BY <1>2, FittingIs
  <2>2. a.ref[1] = "frame"
    BY <2>1, FitLowSignalIs, FitFrameIs
  <2> QED BY <1>2, <2>2 DEF KindFits
<1>3. CASE Grounded = {} /\ Variant # "B"
  <2>1. a \in FitWindow
    BY <1>3, FittingIs
  <2>2. a.ref[1] = "window"
    BY <2>1, FitWindowIs
  <2> QED BY <1>3, <2>2 DEF KindFits
<1> QED BY <1>1, <1>2, <1>3

\* The stub answers what passes.
LEMMA StubPasses ==
  ASSUME LooksType, MayAsk, client = "stub", NEW a \in StubAnswers
  PROVE  a \in Fitting
<1>1. CASE Grounded # {}
  <2>1. PICK p \in Matching, r \in First(Grounded) :
          a = Answering(p, BothReasons, {"observed_attention", "product_tag_match"}, r)
    BY <1>1, BothReasonsIs DEF StubAnswers, Answering
  <2>2. p \in Offered /\ Score(p) > 0
    BY DEF Matching
  <2>3. PICK i \in Grounded : r = <<"frame", i>>
    BY FirstIs
  <2>4. a \in FitSources
    BY <2>1, <2>2, <2>3, FitSourcesHas
  <2> QED BY <1>1, <2>4, FittingIs
<1>2. CASE Grounded = {}
  <2>1. ~sourced /\ GazeSeen
    BY <1>2, AskedUngrounded
  <2>0. PICK p \in Favourites : \E r \in StubCites(p) :
          a = Answering(p, BothReasons, {"observed_attention"}, r)
    BY <1>2, BothReasonsIs DEF StubAnswers, Answering
  <2>2. PICK r \in StubCites(p) : a = Answering(p, BothReasons, {"observed_attention"}, r)
    BY <2>0
  <2>3. p \in Eligible
    BY DEF Favourites
  <2>4. CASE Variant = "B"
    <3>1. r \in First({i \in Looked : Seen(i) = p /\ Cardinality(Candidates(looks[i])) = 1})
      BY <2>4 DEF StubCites
    <3>2. PICK i \in {j \in Looked : Seen(j) = p /\ Cardinality(Candidates(looks[j])) = 1} :
            r = <<"frame", i>>
      BY <3>1, FirstIs
    <3>3. "gaze_movement" \notin {"observed_attention"} /\ {"observed_attention"} \in Claims
      BY ReasonsAndClaims
    <3>4. a \in FitFrame
      BY <2>2, <2>3, <3>2, <3>3, FitFrameHas
    <3> QED BY <1>2, <2>1, <2>4, <3>4, FittingIs
  <2>5. CASE Variant # "B"
    <3>1. PICK i \in Windows : Seen(i) = p /\ r = <<"window", i>>
      BY <2>5 DEF StubCites
    <3>2. a \in FitWindow
      BY <2>2, <2>3, <3>1, FitWindowHas
    <3> QED BY <1>2, <2>5, <3>2, FittingIs
  <2> QED BY <2>4, <2>5
<1> QED BY <1>1, <1>2

\* There is an answer that passes unless the request is a dead end.
LEMMA DeadEndIs ==
  ASSUME DecisionInv, MayAsk
  PROVE  Fitting # {} /\ ~LunaRefuses <=> ~DeadEnd
<1>f. LooksType /\ NoGazeNoHits /\ looks # <<>> /\ client \in {"luna", "hosted", "stub"}
      /\ (client = "luna" => variant = "C")
  BY DEF DecisionInv, DecisionTypes, MayAsk
<1> DEFINE Unlike == \A i \in Grounded : \A p \in Offered, s \in Sources(looks[i]) :
                       Traits[p] \cap Traits[s] \subseteq {"unknown"}
           Nested == ~sourced /\ variant = "B" /\ GazeSeen /\ \A i \in Looked : Cardinality(looks[i].hits) # 1
<1>d. DeadEnd <=> LunaRefuses \/ (Grounded # {} /\ Unlike) \/ Nested
  BY DEF DeadEnd
<1>r. Fitting # {} /\ LunaRefuses => DeadEnd
  BY <1>d
<1>1. CASE Grounded # {}
  <2>1. Fitting = FitSources
    BY <1>1, FittingIs
  <2>2. PICK g \in Grounded : TRUE
    BY <1>1
  <2>3. sourced
    BY <1>f, <2>2, GroundedIs
  <2>4. ~LunaRefuses /\ ~Nested
    BY <1>1, <2>3 DEF LunaRefuses
  <2>5. ASSUME Fitting # {} PROVE ~Unlike
    <3>1. PICK a \in FitSources : TRUE
      BY <2>1, <2>5
    <3>2. a.product \in Offered /\ Score(a.product) > 0
      BY <3>1, FitSourcesIs
    <3>3. PICK i \in Grounded : \E t : t \in Shared(a.product, i)
      BY <1>f, <3>2, ScoreIs
    <3>4. PICK t : t \in Shared(a.product, i)
      BY <3>3
    <3>5. PICK s \in Sources(looks[i]) : t \in Traits[s]
      BY <3>4 DEF Shared
    <3>6. t \in Traits[a.product] /\ t # "unknown"
      BY <3>4 DEF Shared
    <3>7. ~(Traits[a.product] \cap Traits[s] \subseteq {"unknown"})
      BY <3>5, <3>6
    <3> QED BY <3>2, <3>5, <3>7
  <2>6. ASSUME ~Unlike PROVE Fitting # {}
    <3>0. PICK i \in Grounded : \E p \in Offered, s \in Sources(looks[i]) :
            ~(Traits[p] \cap Traits[s] \subseteq {"unknown"})
      BY <2>6
    <3>1. PICK p \in Offered, s \in Sources(looks[i]) :
            ~(Traits[p] \cap Traits[s] \subseteq {"unknown"})
      BY <3>0
    <3>2. PICK t : t \in Traits[p] /\ t \in Traits[s] /\ t # "unknown"
      BY <3>1
    <3>3. t \in Shared(p, i)
      BY <3>2 DEF Shared
    <3>4. Score(p) > 0
      BY <1>f, <3>3, ScoreIs
    <3> QED BY <2>1, <3>4, FitSourcesHas
  <2> HIDE DEF Unlike, Nested
  <2> QED BY <1>d, <1>1, <2>4, <2>5, <2>6
<1>2. CASE Grounded = {} /\ Variant = "B" /\ ~GazeSeen
  <2>1. Fitting = FitLowSignal
    BY <1>2, FittingIs
  <2>2. PICK p \in Offered : TRUE
    BY GroundedAssumption
  <2>3. 1 \in Looked
    BY <1>f, IndicesAre
  <2>4. Fitting # {}
    BY <2>1, <2>2, <2>3, FitLowSignalHas
  <2>5. ~LunaRefuses /\ ~Nested
    BY <1>2 DEF LunaRefuses
  <2> HIDE DEF Unlike, Nested
  <2> QED BY <1>d, <1>2, <2>4, <2>5
<1>3. CASE Grounded = {} /\ Variant = "B" /\ GazeSeen /\ client = "luna"
  <2>1. LunaRefuses
    BY <1>3 DEF LunaRefuses
  <2> QED BY <1>d, <2>1
<1>4. CASE Grounded = {} /\ Variant = "B" /\ GazeSeen /\ client # "luna"
  <2>1. Fitting = FitFrame
    BY <1>4, FittingIs
  <2>2. ~sourced /\ variant = "B"
    BY <1>f, <1>4, AskedUngrounded
  <2>3. ~LunaRefuses
    BY <1>4 DEF LunaRefuses
  <2>4. ASSUME Fitting # {} PROVE ~Nested
    <3>1. PICK a \in FitFrame : TRUE
      BY <2>1, <2>4
    <3>2. a.ref[2] \in Looked /\ Cardinality(Candidates(looks[a.ref[2]])) = 1
      BY <3>1, FitFrameIs
    <3>3. Cardinality(looks[a.ref[2]].hits) = 1
      BY <1>f, <3>2, OneCandidate
    <3> QED BY <3>2, <3>3
  <2>5. ASSUME ~Nested PROVE Fitting # {}
    <3>1. PICK i \in Looked : Cardinality(looks[i].hits) = 1
      BY <1>4, <2>2, <2>5
    <3>2. Cardinality(Candidates(looks[i])) = 1 /\ Seen(i) # Nothing
      BY <1>f, <2>2, <3>1, OneAreaSeen
    <3>3. Seen(i) \in Eligible
      BY <1>f, <3>2, SeenIs
    <3>4. {"data_quality"} \in Claims /\ "gaze_movement" \notin {"data_quality"}
      BY ReasonsAndClaims
    <3>5. Answering(Seen(i), BothReasons, {"data_quality"}, <<"frame", i>>) \in FitFrame
      BY <3>2, <3>3, <3>4, FitFrameHas
    <3> QED BY <2>1, <3>5
  <2> HIDE DEF Unlike, Nested
  <2> QED BY <1>d, <1>4, <2>3, <2>4, <2>5
<1>5. CASE Grounded = {} /\ Variant # "B"
  <2>1. Fitting = FitWindow
    BY <1>5, FittingIs
  <2>2. PICK w \in Windows : TRUE
    BY <1>5 DEF Variant
  <2>3. variant # "B"
    BY <1>5, <2>2 DEF Variant
  <2>4. w \in Looked /\ Seen(w) # Nothing
    BY <1>f, <2>2, WindowIs
  <2>5. Seen(w) \in Eligible
    BY <1>f, <2>4, SeenIs
  <2>6. Fitting # {}
    BY <2>1, <2>2, <2>5, FitWindowHas
  <2>7. ~LunaRefuses /\ ~Nested
    BY <1>5, <2>3 DEF LunaRefuses
  <2> HIDE DEF Unlike, Nested
  <2> QED BY <1>d, <1>5, <2>6, <2>7
<1> QED BY <1>1, <1>2, <1>3, <1>4, <1>5

LEMMA AnswerableHolds ==
  ASSUME DecisionInv
  PROVE  AnswerableUnlessDeadEnd
<1> SUFFICES ASSUME request = "asked"
             PROVE  /\ Fitting # {} /\ ~LunaRefuses <=> ~DeadEnd
                    /\ \A a \in Fitting : KindFits(a)
                    /\ client = "stub" => StubAnswers \subseteq Fitting
  BY DEF AnswerableUnlessDeadEnd
<1>1. MayAsk /\ LooksType
  BY DEF DecisionInv, DecisionTypes
<1>2. Fitting # {} /\ ~LunaRefuses <=> ~DeadEnd
  BY <1>1, DeadEndIs
<1>3. \A a \in Fitting : KindFits(a)
  BY <1>1, KindHolds
<1>4. client = "stub" => StubAnswers \subseteq Fitting
  BY <1>1, StubPasses
<1> QED BY <1>2, <1>3, <1>4

-----------------------------------------------------------------------------
(* Every step *)

\* What a step leaves that is no frame.
SameSession ==
  client' = client /\ variant' = variant /\ sourced' = sourced /\ demo' = demo /\ looks' = looks

LEMMA SameSessionKeeps ==
  ASSUME SameSession
  PROVE  MayAsk' = MayAsk /\ Fitting' = Fitting /\ LooksType' = LooksType /\ NoGazeNoHits' = NoGazeNoHits
<1>1. MayAsk' = MayAsk
  BY DEF SameSession, MayAsk, Ready, Grounded, GazeSeen, Eligible, LowSignal, Sources, Looked,
         Seen, Candidates, Variant, Windows, EvidenceWindow
<1>2. Fitting' = Fitting
  BY DEF SameSession, Fitting, FitSources, FitLowSignal, FitFrame, FitWindow, Score, Shared, Codes,
         End, Offered, Reasons, Claims, Grounded, GazeSeen, Eligible, Sources, Looked, Seen,
         Candidates, Variant, Windows, EvidenceWindow
<1>3. LooksType' = LooksType
  BY DEF SameSession, LooksType
<1>4. NoGazeNoHits' = NoGazeNoHits
  BY DEF SameSession, NoGazeNoHits, Looked
<1> QED BY <1>1, <1>2, <1>3, <1>4

LEMMA DecisionBegins ==
  ASSUME DecisionInit
  PROVE  DecisionInv
<1>1. decision = [status |-> "none"] /\ looks = <<>> /\ request = "none"
  BY DEF DecisionInit, NoDecision, Nothing
<1>2. decision.status = "none"
  BY <1>1
<1>3. DecisionTypes
  BY <1>1, <1>2 DEF DecisionInit, DecisionTypes, LooksType, Nothing
<1>4. NoGazeNoHits
  BY <1>1 DEF NoGazeNoHits, Looked
<1>5. Passing /\ FallbackInv
  BY <1>2 DEF Passing, FallbackInv, Recommended
<1> QED BY <1>1, <1>3, <1>4, <1>5 DEF DecisionInv

LEMMA DecisionStep ==
  ASSUME DecisionInv, [DecisionNext]_decisionVars
  PROVE  DecisionInv'
<1>n. NoDecision = [status |-> "none"] /\ Nothing = "none"
  BY DEF NoDecision, Nothing
<1>t. DecisionTypes /\ NoGazeNoHits /\ (request = "asked" => MayAsk) /\ Passing /\ FallbackInv
  BY DEF DecisionInv
<1>1. ASSUME NEW l \in Glance, Watch(l) PROVE DecisionInv'
  <2>1. /\ request = "none" /\ (~l.gaze => l.hits = {} /\ ~l.moved)
        /\ looks' = Append(looks, l)
        /\ client' = client /\ variant' = variant /\ sourced' = sourced /\ demo' = demo
        /\ request' = request /\ decision' = decision
    BY <1>1 DEF Watch
  <2>2. decision = [status |-> "none"]
    BY <1>t, <1>n, <2>1 DEF DecisionTypes
  <2>3. decision'.status = "none"
    BY <2>1, <2>2
  <2>4. LooksType'
    BY <1>t, <2>1 DEF DecisionTypes, LooksType
  <2>5. DecisionTypes'
    BY <1>t, <1>n, <2>1, <2>3, <2>4 DEF DecisionTypes
  <2>6. NoGazeNoHits'
    <3>1. looks \in Seq(Glance)
      BY <1>t DEF DecisionTypes, LooksType
    <3>2. ASSUME NEW i \in DOMAIN looks', ~looks'[i].gaze PROVE looks'[i].hits = {} /\ ~looks'[i].moved
      <4>1. looks'[i] = l \/ (i \in DOMAIN looks /\ looks'[i] = looks[i])
        BY <2>1, <3>1
      <4>2. CASE looks'[i] = l
        BY <2>1, <3>2, <4>2
      <4>3. CASE i \in DOMAIN looks /\ looks'[i] = looks[i]
        BY <1>t, <3>2, <4>3 DEF NoGazeNoHits, Looked
      <4> QED BY <4>1, <4>2, <4>3
    <3> QED BY <3>2 DEF NoGazeNoHits, Looked
  <2>7. Passing' /\ FallbackInv'
    BY <2>3 DEF Passing, FallbackInv, Recommended
  <2> QED BY <2>1, <2>5, <2>6, <2>7 DEF DecisionInv
<1>2. ASSUME SameSession, request' \in {"none", "asked", "answered"}, request' = "answered",
             NEW d, decision' = d, d.status \in {"completed", "failed", "insufficient_data"},
             d.status = "completed" => d.fallback \in BOOLEAN,
             d.status = "completed" /\ ~d.fallback =>
               MayAsk /\ \E a \in Fitting : /\ d.product = a.product /\ d.reasons = a.reasons
                                            /\ d.codes = a.codes /\ d.ref = a.ref,
             d.status = "completed" /\ d.fallback =>
               d.reasons = {"catalog_tag_alignment"} /\ d.codes = {"product_tag_match"}
      PROVE  DecisionInv'
  <2>1. MayAsk' = MayAsk /\ Fitting' = Fitting /\ LooksType' = LooksType /\ NoGazeNoHits' = NoGazeNoHits
    BY <1>2, SameSessionKeeps
  <2>2. DecisionTypes'
    BY <1>t, <1>2, <2>1 DEF DecisionTypes, SameSession
  <2>3. Passing'
    BY <1>2, <2>1 DEF Passing, Recommended
  <2>4. FallbackInv'
    BY <1>2 DEF FallbackInv
  <2> QED BY <1>t, <1>2, <2>1, <2>2, <2>3, <2>4 DEF DecisionInv
<1>3. CASE Begin
  <2>1. SameSession
    BY <1>3 DEF Begin, SameSession
  <2>2. CASE looks # <<>> /\ Ready
    <3>1. request = "none" /\ request' = "asked" /\ decision' = decision /\ MayAsk
      BY <1>3, <2>2 DEF Begin, MayAsk
    <3>2. MayAsk' = MayAsk /\ Fitting' = Fitting /\ LooksType' = LooksType /\ NoGazeNoHits' = NoGazeNoHits
      BY <2>1, SameSessionKeeps
    <3>3. decision = [status |-> "none"] /\ decision'.status = "none"
      BY <1>t, <1>n, <3>1 DEF DecisionTypes
    <3>4. DecisionTypes'
      BY <1>t, <1>n, <2>1, <3>1, <3>2, <3>3 DEF DecisionTypes, SameSession
    <3>5. Passing' /\ FallbackInv'
      BY <3>3 DEF Passing, FallbackInv, Recommended
    <3> QED BY <1>t, <3>1, <3>2, <3>4, <3>5 DEF DecisionInv
  <2>3. CASE ~(looks # <<>> /\ Ready)
    <3>1. request' = "answered"
      BY <1>3, <2>3 DEF Begin
    <3>2. \/ decision' = Fallback
          \/ \E code : decision' = Without("insufficient_data", code)
      BY <1>3, <2>3 DEF Begin
    <3>3. CASE decision' = Fallback
      <4>1. /\ Fallback.status = "completed" /\ Fallback.fallback = TRUE
            /\ Fallback.reasons = {"catalog_tag_alignment"}
            /\ Fallback.codes = {"product_tag_match"}
        BY DEF Fallback
      <4> HIDE DEF Fallback
      <4> QED BY <1>2, <2>1, <3>1, <3>3, <4>1
    <3>4. ASSUME NEW code, decision' = Without("insufficient_data", code) PROVE DecisionInv'
      <4>1. decision'.status = "insufficient_data"
        BY <3>4 DEF Without
      <4> QED BY <1>2, <2>1, <3>1, <4>1
    <3> QED BY <3>2, <3>3, <3>4
  <2> QED BY <2>2, <2>3
<1>4. ASSUME Answer PROVE DecisionInv'
  <2>1. PICK a \in Fitting : Closed(Decided(a))
    BY <1>4 DEF Answer
  <2>2. SameSession /\ request' = "answered" /\ decision' = Decided(a)
    BY <2>1 DEF Closed, SameSession
  <2>3. MayAsk /\ LooksType
    BY <1>4, <1>t DEF Answer, DecisionTypes
  <2>4. KindFits(a)
    BY <2>3, KindHolds
  <2>5. decision' = [status |-> "completed", fallback |-> FALSE, product |-> a.product,
                     reasons |-> a.reasons, codes |-> a.codes, ref |-> a.ref]
    BY <2>2, <2>4 DEF Decided
  <2>6. /\ decision'.status = "completed" /\ decision'.fallback = FALSE
        /\ decision'.product = a.product /\ decision'.reasons = a.reasons
        /\ decision'.codes = a.codes /\ decision'.ref = a.ref
    BY <2>5
  <2> QED BY <1>2, <2>1, <2>2, <2>3, <2>6
<1>5. ASSUME Fails PROVE DecisionInv'
  <2>1. PICK code : Closed(Without("failed", code))
    BY <1>5 DEF Fails
  <2>2. SameSession /\ request' = "answered" /\ decision' = Without("failed", code)
    BY <2>1 DEF Closed, SameSession
  <2>3. decision'.status = "failed"
    BY <2>2 DEF Without
  <2> QED BY <1>2, <2>2, <2>3
<1>6. CASE UNCHANGED decisionVars
  <2>1. SameSession /\ request' = request /\ decision' = decision
    BY <1>6 DEF decisionVars, SameSession
  <2>2. MayAsk' = MayAsk /\ Fitting' = Fitting /\ LooksType' = LooksType /\ NoGazeNoHits' = NoGazeNoHits
    BY <2>1, SameSessionKeeps
  <2>3. DecisionTypes'
    BY <1>t, <2>1, <2>2 DEF DecisionTypes, SameSession, NoDecision, Nothing
  <2>4. Passing' /\ FallbackInv'
    BY <1>t, <2>1, <2>2 DEF Passing, FallbackInv, Recommended
  <2> QED BY <1>t, <2>1, <2>2, <2>3, <2>4 DEF DecisionInv
<1> QED BY <1>1, <1>3, <1>4, <1>5, <1>6 DEF DecisionNext

-----------------------------------------------------------------------------
(* A point of a polygon *)

\* The product that tells which side of the origin an edge passes.
Turn(u, v, w, z) == u * z - v * w

LEMMA CrossIs ==
  ASSUME NEW px \in Int, NEW py \in Int, NEW u \in Int, NEW v \in Int, NEW w \in Int, NEW z \in Int
  PROVE  (py - (py + v)) * ((px + w) - (px + u)) - (px - (px + u)) * ((py + z) - (py + v)) = Turn(u, v, w, z)
  BY DEF Turn

\* What an edge does to a point, by the differences to the point.
Edge(u, v, w, z) ==
  (v <= 0 /\ z > 0 /\ Turn(u, v, w, z) > 0) \/ (v > 0 /\ z <= 0 /\ Turn(u, v, w, z) < 0)
On(u, v, w, z) == Turn(u, v, w, z) = 0 /\ Between(0, u, w) /\ Between(0, v, z)

LEMMA PointIs ==
  ASSUME NEW p \in Int \X Int, NEW a \in Int \X Int
  PROVE  /\ X(p) \in Int /\ Y(p) \in Int /\ X(a) \in Int /\ Y(a) \in Int
         /\ X(a) - X(p) \in Int /\ Y(a) - Y(p) \in Int
         /\ X(a) = X(p) + (X(a) - X(p)) /\ Y(a) = Y(p) + (Y(a) - Y(p))
<1>1. X(p) \in Int /\ Y(p) \in Int /\ X(a) \in Int /\ Y(a) \in Int
  BY DEF X, Y
<1> QED BY <1>1

LEMMA CrossTurns ==
  ASSUME NEW p \in Int \X Int, NEW a \in Int \X Int, NEW b \in Int \X Int
  PROVE  Cross(p, a, b) = Turn(X(a) - X(p), Y(a) - Y(p), X(b) - X(p), Y(b) - Y(p))
<1>p. PICK px \in Int, py \in Int : px = X(p) /\ py = Y(p)
  BY PointIs
<1>a. PICK u \in Int, v \in Int : u = X(a) - px /\ v = Y(a) - py /\ X(a) = px + u /\ Y(a) = py + v
  BY <1>p, PointIs
<1>b. PICK w \in Int, z \in Int : w = X(b) - px /\ z = Y(b) - py /\ X(b) = px + w /\ Y(b) = py + z
  BY <1>p, PointIs
<1>1. /\ px = X(p) /\ py = Y(p)
      /\ u = X(a) - X(p) /\ v = Y(a) - Y(p) /\ w = X(b) - X(p) /\ z = Y(b) - Y(p)
      /\ X(a) = px + u /\ Y(a) = py + v /\ X(b) = px + w /\ Y(b) = py + z
  BY <1>p, <1>a, <1>b
<1>2. Cross(p, a, b) = (py - (py + v)) * ((px + w) - (px + u)) - (px - (px + u)) * ((py + z) - (py + v))
  BY <1>1 DEF Cross
<1>3. Cross(p, a, b) = Turn(u, v, w, z)
  BY <1>2, CrossIs
<1> QED BY <1>1, <1>3

LEMMA CrossesArithmetic ==
  ASSUME NEW px \in Int, NEW py \in Int, NEW u \in Int, NEW v \in Int, NEW w \in Int, NEW z \in Int
  PROVE  /\ (px - (px + w)) * ((py + v) - (py + z)) < ((px + u) - (px + w)) * (py - (py + z))
              <=> Turn(u, v, w, z) < 0
         /\ (px - (px + w)) * ((py + v) - (py + z)) > ((px + u) - (px + w)) * (py - (py + z))
              <=> Turn(u, v, w, z) > 0
<1>1. (px - (px + w)) * ((py + v) - (py + z)) - ((px + u) - (px + w)) * (py - (py + z)) = Turn(u, v, w, z)
  BY DEF Turn
<1>2. PICK l \in Int, r \in Int, t \in Int :
        /\ l = (px - (px + w)) * ((py + v) - (py + z)) /\ r = ((px + u) - (px + w)) * (py - (py + z))
        /\ t = Turn(u, v, w, z)
  BY DEF Turn
<1>3. l - r = t
  BY <1>1, <1>2
<1>4. (l < r <=> t < 0) /\ (l > r <=> t > 0)
  BY <1>3
<1> QED BY <1>2, <1>4

LEMMA CrossesIs ==
  ASSUME NEW p \in Int \X Int, NEW a \in Int \X Int, NEW b \in Int \X Int
  PROVE  /\ Crosses(p, a, b) <=> Edge(X(a) - X(p), Y(a) - Y(p), X(b) - X(p), Y(b) - Y(p))
         /\ OnSegment(p, a, b) <=> On(X(a) - X(p), Y(a) - Y(p), X(b) - X(p), Y(b) - Y(p))
         /\ SourceOnSegment(p, a, b) <=> OnSegment(p, a, b)
<1>p. PICK px \in Int, py \in Int : px = X(p) /\ py = Y(p)
  BY PointIs
<1>a. PICK u \in Int, v \in Int : u = X(a) - px /\ v = Y(a) - py /\ X(a) = px + u /\ Y(a) = py + v
  BY <1>p, PointIs
<1>b. PICK w \in Int, z \in Int : w = X(b) - px /\ z = Y(b) - py /\ X(b) = px + w /\ Y(b) = py + z
  BY <1>p, PointIs
<1>1. /\ px = X(p) /\ py = Y(p)
      /\ u = X(a) - X(p) /\ v = Y(a) - Y(p) /\ w = X(b) - X(p) /\ z = Y(b) - Y(p)
      /\ X(a) = px + u /\ Y(a) = py + v /\ X(b) = px + w /\ Y(b) = py + z
  BY <1>p, <1>a, <1>b
<1> DEFINE l == (px - (px + w)) * ((py + v) - (py + z))
           r == ((px + u) - (px + w)) * (py - (py + z))
<1>2. Crosses(p, a, b) <=>
        /\ (py + z > py) # (py + v > py)
        /\ IF py + v > py + z THEN l < r ELSE l > r
  BY <1>1 DEF Crosses
<1>3. (l < r <=> Turn(u, v, w, z) < 0) /\ (l > r <=> Turn(u, v, w, z) > 0)
  BY CrossesArithmetic
<1>4. (py + z > py <=> z > 0) /\ (py + v > py <=> v > 0) /\ (py + v > py + z <=> v > z)
  OBVIOUS
<1> HIDE DEF l, r
<1>5. Crosses(p, a, b) <=> (z > 0) # (v > 0) /\ IF v > z THEN Turn(u, v, w, z) < 0 ELSE Turn(u, v, w, z) > 0
  BY <1>2, <1>3, <1>4
<1>6. Crosses(p, a, b) <=> Edge(u, v, w, z)
  BY <1>5 DEF Edge
<1>7. Between(X(p), X(a), X(b)) <=> Between(0, u, w)
  BY <1>1 DEF Between
<1>8. Between(Y(p), Y(a), Y(b)) <=> Between(0, v, z)
  BY <1>1 DEF Between
<1>9. Cross(p, a, b) = Turn(u, v, w, z)
  BY <1>1, CrossTurns
<1>10. OnSegment(p, a, b) <=> On(u, v, w, z)
  BY <1>7, <1>8, <1>9 DEF OnSegment, On
<1>11. SourceOnSegment(p, a, b) <=> OnSegment(p, a, b)
  <2>1. PICK m \in Int, n \in Int :
          m = (px - (px + u)) * ((py + z) - (py + v)) /\ n = (py - (py + v)) * ((px + w) - (px + u))
    OBVIOUS
  <2>4. m = (X(p) - X(a)) * (Y(b) - Y(a)) /\ n = (Y(p) - Y(a)) * (X(b) - X(a))
    BY <1>1, <2>1
  <2>2. Cross(p, a, b) = n - m
    BY <2>4 DEF Cross
  <2>3. m = n <=> Cross(p, a, b) = 0
    BY <2>2
  <2> QED BY <2>4, <2>3 DEF SourceOnSegment, OnSegment
<1> QED BY <1>1, <1>6, <1>10, <1>11

\* An edge is the same from both of its ends.
LEMMA EdgeReversed ==
  ASSUME NEW u \in Int, NEW v \in Int, NEW w \in Int, NEW z \in Int
  PROVE  (Edge(u, v, w, z) <=> Edge(w, z, u, v)) /\ (On(u, v, w, z) <=> On(w, z, u, v))
<1>1. PICK t \in Int, r \in Int : t = Turn(u, v, w, z) /\ r = Turn(w, z, u, v)
  BY DEF Turn
<1>2. r = -t
  <2>1. PICK a \in Int, b \in Int : a = u * z /\ b = v * w
    OBVIOUS
  <2>2. t = a - b
    BY <1>1, <2>1 DEF Turn
  <2>3. w * v = b /\ z * u = a
    BY <2>1
  <2>4. r = b - a
    BY <1>1, <2>3 DEF Turn
  <2> QED BY <2>1, <2>2, <2>4
<1>3. Edge(u, v, w, z) <=> Edge(w, z, u, v)
  BY <1>1, <1>2 DEF Edge
<1>4. On(u, v, w, z) <=> On(w, z, u, v)
  BY <1>1, <1>2 DEF On, Between
<1> QED BY <1>3, <1>4

LEMMA CrossesReversed ==
  ASSUME NEW p \in Int \X Int, NEW a \in Int \X Int, NEW b \in Int \X Int
  PROVE  (Crosses(p, a, b) <=> Crosses(p, b, a)) /\ (OnSegment(p, a, b) <=> OnSegment(p, b, a))
<1>1. PICK u \in Int, v \in Int, w \in Int, z \in Int :
        u = X(a) - X(p) /\ v = Y(a) - Y(p) /\ w = X(b) - X(p) /\ z = Y(b) - Y(p)
  BY PointIs
<1> QED BY <1>1, CrossesIs, EdgeReversed

-----------------------------------------------------------------------------
(* The same edges in another order *)

IsCorners(s) == s \in Seq(Int \X Int) /\ Len(s) \in Nat \ {0}

LEMMA EdgeIs ==
  ASSUME NEW s, IsCorners(s), NEW i \in DOMAIN s
  PROVE  s[i] \in Int \X Int /\ Preceding(s, i) \in Int \X Int /\ DOMAIN s = 1..Len(s)
<1>1. PICK n \in Nat \ {0} : n = Len(s)
  BY DEF IsCorners
<1>2. s \in Seq(Int \X Int) /\ DOMAIN s = 1..n
  BY <1>1 DEF IsCorners
<1>3. i = 1 \/ i - 1 \in 1..n
  BY <1>2
<1>4. n \in 1..n
  BY <1>1
<1> QED BY <1>1, <1>2, <1>3, <1>4 DEF Preceding

LEMMA EdgesMatch ==
  ASSUME NEW s, NEW t, NEW n \in Nat, DOMAIN s = 1..n, DOMAIN t = 1..n, NEW p,
         NEW r \in Bijection(1..n, 1..n),
         \A i \in 1..n : /\ Crosses(p, Preceding(t, i), t[i]) <=> Crosses(p, Preceding(s, r[i]), s[r[i]])
                         /\ OnSegment(p, Preceding(t, i), t[i]) <=> OnSegment(p, Preceding(s, r[i]), s[r[i]])
  PROVE  Inside(p, t) <=> Inside(p, s)
<1> DEFINE E(q) == {i \in DOMAIN q : Crosses(p, Preceding(q, i), q[i])}
           O(q) == \E i \in DOMAIN q : OnSegment(p, Preceding(q, i), q[i])
<1>1. r \in [1..n -> 1..n] /\ (\A j \in 1..n : \E i \in 1..n : r[i] = j)
      /\ \A i, j \in 1..n : r[i] = r[j] => i = j
  BY DEF Bijection, Injection, Surjection, IsInjective
<1>2. O(t) <=> O(s)
  BY <1>1
<1>3. Cardinality(E(t)) = Cardinality(E(s))
  <2> DEFINE f == [i \in E(t) |-> r[i]]
  <2>1. E(t) \in SUBSET (1..n) /\ \A i \in 1..n : i \in E(t) <=> r[i] \in E(s)
    BY <1>1
  <2>2. E(s) \subseteq 1..n
    OBVIOUS
  <2> HIDE DEF E
  <2>3. f \in [E(t) -> E(s)]
    BY <2>1
  <2>4. \A j \in E(s) : \E i \in E(t) : f[i] = j
    BY <1>1, <2>1, <2>2
  <2>5. \A i, j \in E(t) : f[i] = f[j] => i = j
    BY <1>1, <2>1
  <2>6. f \in Bijection(E(t), E(s))
    BY <2>3, <2>4, <2>5 DEF Bijection, Injection, Surjection, IsInjective
  <2>7. IsFiniteSet(E(t))
    <3>1. IsFiniteSet(1..n)
      BY FS_Interval
    <3> QED BY <2>1, <3>1, FS_Subset
  <2>8. ExistsBijection(E(t), E(s))
    BY <2>6 DEF ExistsBijection
  <2> QED BY <2>7, <2>8, FS_Bijection
<1>4. (Inside(p, t) <=> O(t) \/ Cardinality(E(t)) % 2 = 1) /\ (Inside(p, s) <=> O(s) \/ Cardinality(E(s)) % 2 = 1)
  BY DEF Inside, Odd
<1> HIDE DEF E, O
<1> QED BY <1>2, <1>3, <1>4

LEMMA Remainder ==
  ASSUME NEW n \in Nat \ {0}, NEW x \in 0..(2 * n - 1)
  PROVE  x % n = IF x < n THEN x ELSE x - n
  OBVIOUS

\* The polygon read from another corner has the same edges.
LEMMA FromSame ==
  ASSUME NEW s, IsCorners(s), NEW k \in DOMAIN s, NEW p
  PROVE  Inside(p, From(s, k)) <=> Inside(p, s)
<1>1. PICK n \in Nat \ {0} : n = Len(s) /\ DOMAIN s = 1..n
  BY DEF IsCorners
<1> DEFINE t == From(s, k)
           r == [i \in 1..n |-> IF i + k - 1 <= n THEN i + k - 1 ELSE i + k - 1 - n]
<1>2. k \in 1..n
  BY <1>1
<1>3. ASSUME NEW i \in 1..n PROVE ((i + k - 2) % n) + 1 = r[i]
  <2>1. i + k - 2 \in 0..(2 * n - 1)
    BY <1>2
  <2>2. PICK x \in 0..(2 * n - 1) : x = i + k - 2
    BY <2>1
  <2>3. x % n = IF x < n THEN x ELSE x - n
    BY Remainder
  <2> QED BY <1>2, <2>2, <2>3
<1>4. t = [i \in 1..n |-> s[r[i]]]
  BY <1>1, <1>3 DEF From
<1>5. r \in [1..n -> 1..n]
  BY <1>2
<1>6. r \in Bijection(1..n, 1..n)
  <2>1. \A i, j \in 1..n : r[i] = r[j] => i = j
    BY <1>2
  <2>2. ASSUME NEW j \in 1..n PROVE \E i \in 1..n : r[i] = j
    <3>1. CASE j >= k
      <4>1. j - k + 1 \in 1..n /\ r[j - k + 1] = j
        BY <1>2, <3>1
      <4> QED BY <4>1
    <3>2. CASE j < k
      <4>1. PICK i \in 1..n : i = j - k + 1 + n /\ ~(i + k - 1 <= n) /\ i + k - 1 - n = j
        BY <1>2, <3>2
      <4> QED BY <4>1
    <3> QED BY <1>2, <3>1, <3>2
  <2> QED BY <1>5, <2>1, <2>2 DEF Bijection, Injection, Surjection, IsInjective
<1>7. Len(t) = n /\ DOMAIN t = 1..n
  <2>1. DOMAIN t = 1..n
    BY <1>4
  <2>2. t \in Seq(Int \X Int)
    <3>1. \A j \in 1..n : s[j] \in Int \X Int
      BY <1>1 DEF IsCorners
    <3>2. t \in [1..n -> Int \X Int]
      BY <1>4, <1>5, <3>1
    <3> QED BY <3>2
  <2> QED BY <2>1, <2>2
<1>8. ASSUME NEW i \in 1..n PROVE Preceding(t, i) = Preceding(s, r[i]) /\ t[i] = s[r[i]]
  <2>1. t[i] = s[r[i]]
    BY <1>4
  <2>2. CASE i = 1
    <3>1. r[1] = k /\ n \in 1..n
      BY <1>2
    <3>2. r[n] = IF k = 1 THEN n ELSE k - 1
      BY <1>2
    <3>3. Preceding(t, i) = s[r[n]]
      BY <1>4, <1>7, <2>2, <3>1 DEF Preceding
    <3> QED BY <1>1, <2>1, <2>2, <3>1, <3>2, <3>3 DEF Preceding
  <2>3. CASE i # 1
    <3>1. i - 1 \in 1..n
      BY <2>3
    <3>2. r[i - 1] = IF r[i] = 1 THEN n ELSE r[i] - 1
      BY <1>2, <2>3, <3>1
    <3>3. Preceding(t, i) = s[r[i - 1]]
      BY <1>4, <2>3, <3>1 DEF Preceding
    <3> HIDE DEF r, t
    <3> QED BY <1>1, <2>1, <3>2, <3>3 DEF Preceding
  <2> QED BY <2>2, <2>3
<1> HIDE DEF r, t
<1>9. Inside(p, t) <=> Inside(p, s)
  BY <1>1, <1>6, <1>7, <1>8, EdgesMatch
<1> QED BY <1>9 DEF t

\* Read backwards, it has the same edges from their other ends.
LEMMA BackwardsSame ==
  ASSUME NEW s, IsCorners(s), NEW p \in Int \X Int
  PROVE  Inside(p, Backwards(s)) <=> Inside(p, s)
<1>1. PICK n \in Nat \ {0} : n = Len(s) /\ DOMAIN s = 1..n
  BY DEF IsCorners
<1> DEFINE t == Backwards(s)
           r == [i \in 1..n |-> IF i = 1 THEN 1 ELSE n + 2 - i]
<1>2. t = [i \in 1..n |-> s[n + 1 - i]]
  BY <1>1 DEF Backwards
<1>3. r \in Bijection(1..n, 1..n)
  <2>1. r \in [1..n -> 1..n]
    OBVIOUS
  <2>2. \A i, j \in 1..n : r[i] = r[j] => i = j
    OBVIOUS
  <2>3. \A j \in 1..n : r[j] \in 1..n /\ r[r[j]] = j
    OBVIOUS
  <2> HIDE DEF r
  <2> QED BY <2>1, <2>2, <2>3 DEF Bijection, Injection, Surjection, IsInjective
<1>4. \A j \in 1..n : s[j] \in Int \X Int
  BY <1>1 DEF IsCorners
<1>5. Len(t) = n /\ DOMAIN t = 1..n
  <2>1. t \in [1..n -> Int \X Int]
    BY <1>2, <1>4
  <2>2. t \in Seq(Int \X Int)
    BY <2>1
  <2> QED BY <2>1, <2>2
<1>6. ASSUME NEW i \in 1..n PROVE Preceding(t, i) = s[r[i]] /\ t[i] = Preceding(s, r[i])
  <2>1. t[i] = s[n + 1 - i]
    BY <1>2
  <2>2. CASE i = 1
    <3>1. Preceding(t, i) = t[n] /\ n \in 1..n /\ n + 1 - n = 1
      BY <1>5, <2>2 DEF Preceding
    <3> QED BY <1>1, <1>2, <2>1, <2>2, <3>1 DEF Preceding
  <2>3. CASE i # 1
    <3>1. i - 1 \in 1..n /\ n + 1 - (i - 1) = n + 2 - i /\ n + 2 - i # 1 /\ (n + 2 - i) - 1 = n + 1 - i
      BY <2>3
    <3> QED BY <1>2, <2>1, <2>3, <3>1 DEF Preceding
  <2> QED BY <2>2, <2>3
<1>7. ASSUME NEW i \in 1..n
      PROVE  /\ Crosses(p, Preceding(t, i), t[i]) <=> Crosses(p, Preceding(s, r[i]), s[r[i]])
             /\ OnSegment(p, Preceding(t, i), t[i]) <=> OnSegment(p, Preceding(s, r[i]), s[r[i]])
  <2>1. r[i] \in DOMAIN s
    BY <1>1
  <2>2. s[r[i]] \in Int \X Int /\ Preceding(s, r[i]) \in Int \X Int
    BY <2>1, EdgeIs
  <2> HIDE DEF r, t
  <2> QED BY <1>6, <2>2, CrossesReversed
<1> HIDE DEF r, t
<1>8. Inside(p, t) <=> Inside(p, s)
  BY <1>1, <1>3, <1>5, <1>7, EdgesMatch
<1> QED BY <1>8 DEF t

-----------------------------------------------------------------------------
(* Triangles *)

LEMMA CoordinatesAre ==
  ASSUME NEW a \in Int \X Int
  PROVE  X(a) \in Int /\ Y(a) \in Int
  BY DEF X, Y

\* The sums of the shoelace formula of a triangle.
Term(s, i) == X(Preceding(s, i)) * Y(s[i]) - X(s[i]) * Y(Preceding(s, i))

LEMMA AreaUnfolds ==
  ASSUME NEW s, IsCorners(s), Len(s) = 3
  PROVE  TwiceArea(s) = Term(s, 1) + Term(s, 2) + Term(s, 3)
<1> DEFINE Body(f, i) == IF i = 0 THEN 0
                         ELSE f[i - 1] + X(Preceding(s, i)) * Y(s[i]) - X(s[i]) * Y(Preceding(s, i))
           sum == CHOOSE f : f = [i \in 0..Len(s) |-> Body(f, i)]
           g == [i \in 0..3 |-> IF i = 0 THEN 0 ELSE IF i = 1 THEN Term(s, 1)
                                ELSE IF i = 2 THEN Term(s, 1) + Term(s, 2)
                                ELSE Term(s, 1) + Term(s, 2) + Term(s, 3)]
<1>1. TwiceArea(s) = sum[3]
  BY DEF TwiceArea
<1>2. \A i \in 1..3 : X(Preceding(s, i)) \in Int /\ Y(s[i]) \in Int /\ X(s[i]) \in Int /\ Y(Preceding(s, i)) \in Int
  <2>1. \A i \in 1..3 : i \in DOMAIN s
    BY DEF IsCorners
  <2>2. \A i \in 1..3 : Preceding(s, i) \in Int \X Int /\ s[i] \in Int \X Int
    BY <2>1, EdgeIs
  <2> QED BY <2>2, CoordinatesAre
<1>3. \A i \in 1..3 : Term(s, i) \in Int
  BY <1>2 DEF Term
<1>b. \A f : \A i \in 1..3 : f[i - 1] \in Int => Body(f, i) = f[i - 1] + Term(s, i)
  <2>1. SUFFICES ASSUME NEW f, NEW i \in 1..3, f[i - 1] \in Int
                 PROVE  Body(f, i) = f[i - 1] + Term(s, i)
    OBVIOUS
  <2>2. PICK a \in Int, b \in Int : a = X(Preceding(s, i)) * Y(s[i]) /\ b = X(s[i]) * Y(Preceding(s, i))
    BY <1>2
  <2>3. Body(f, i) = f[i - 1] + a - b /\ Term(s, i) = a - b
    BY <2>2 DEF Term
  <2> QED BY <2>1, <2>2, <2>3
<1> HIDE DEF Body
<1>4. g[0] = 0 /\ g[1] = Term(s, 1) /\ g[2] = g[1] + Term(s, 2) /\ g[3] = g[2] + Term(s, 3)
      /\ g[1] \in Int /\ g[2] \in Int
  BY <1>3
<1>5. \A i \in 0..3 : g[i] = Body(g, i)
  <2>0. g[0] = Body(g, 0)
    BY <1>4 DEF Body
  <2>1. g[1] = Body(g, 1)
    BY <1>3, <1>4, <1>b
  <2>2. g[2] = Body(g, 2)
    BY <1>3, <1>4, <1>b
  <2>3. g[3] = Body(g, 3)
    BY <1>3, <1>4, <1>b
  <2> HIDE DEF g
  <2> QED BY <2>0, <2>1, <2>2, <2>3
<1>6. g = [i \in 0..Len(s) |-> Body(g, i)]
  BY <1>5
<1>7. sum = [i \in 0..Len(s) |-> Body(sum, i)]
  <2> HIDE DEF g
  <2> QED BY <1>6
<1> HIDE DEF sum, g
<1>8. \A i \in 0..3 : sum[i] = Body(sum, i)
  BY <1>7
<1>9. sum[0] = 0
  BY <1>8 DEF Body
<1>10. sum[1] = Term(s, 1)
  BY <1>3, <1>8, <1>9, <1>b
<1>11. sum[2] = sum[1] + Term(s, 2)
  BY <1>3, <1>8, <1>10, <1>b
<1>12. sum[3] = sum[2] + Term(s, 3)
  BY <1>3, <1>8, <1>10, <1>11, <1>b
<1> QED BY <1>1, <1>3, <1>10, <1>11, <1>12

\* Around the origin: the corners (u, v), (w, z) and (x, y).
LEMMA TurnsBalance ==
  ASSUME NEW u \in Int, NEW v \in Int, NEW w \in Int, NEW z \in Int, NEW x \in Int, NEW y \in Int
  PROVE  /\ Turn(u, v, w, z) \in Int /\ Turn(w, z, x, y) \in Int /\ Turn(x, y, u, v) \in Int
         /\ Turn(u, v, w, z) * y + Turn(w, z, x, y) * v + Turn(x, y, u, v) * z = 0
         /\ Turn(u, v, w, z) * x + Turn(w, z, x, y) * u + Turn(x, y, u, v) * w = 0
  BY DEF Turn

\* The signs of a product.
LEMMA Signs ==
  ASSUME NEW a \in Int, NEW b \in Int
  PROVE  /\ a * b \in Int
         /\ a * b = 0 <=> a = 0 \/ b = 0
         /\ a * b > 0 <=> (a > 0 /\ b > 0) \/ (a < 0 /\ b < 0)
         /\ a * b < 0 <=> (a > 0 /\ b < 0) \/ (a < 0 /\ b > 0)
  OBVIOUS

\* The point lies on an edge, or an odd number of edges pass it ...
Hit(u, v, w, z, x, y) ==
  \/ On(u, v, w, z) \/ On(w, z, x, y) \/ On(x, y, u, v)
  \/ ((Edge(u, v, w, z) <=> Edge(w, z, x, y)) <=> Edge(x, y, u, v))

\* ... or it is on no outer side.
Enclosed(u, v, w, z, x, y) ==
  \/ Turn(u, v, w, z) >= 0 /\ Turn(w, z, x, y) >= 0 /\ Turn(x, y, u, v) >= 0
  \/ Turn(u, v, w, z) <= 0 /\ Turn(w, z, x, y) <= 0 /\ Turn(x, y, u, v) <= 0

\* An edge that passes the point's height and turns neither way goes through it.
LEMMA StraightHits ==
  ASSUME NEW u \in Int, NEW v \in Int, NEW w \in Int, NEW z \in Int,
         v > 0, z <= 0, Turn(u, v, w, z) = 0
  PROVE  On(u, v, w, z)
<1>1. PICK a \in Int, b \in Int : a = u * z /\ b = v * w
  OBVIOUS
<1>2. a = b
  BY <1>1 DEF Turn
<1>3. (w > 0 => a > 0) /\ (w < 0 => a < 0) /\ (w = 0 => a = 0)
  BY <1>1, <1>2, Signs
<1>4. (a > 0 => u < 0) /\ (a < 0 => u > 0)
  BY <1>1, Signs
<1>5. Between(0, u, w) /\ Between(0, v, z)
  BY <1>3, <1>4 DEF Between
<1> QED BY <1>5 DEF On

\* One corner above the point's height.
LEMMA OneAbove ==
  ASSUME NEW u \in Int, NEW v \in Int, NEW w \in Int, NEW z \in Int, NEW x \in Int, NEW y \in Int,
         v > 0, z <= 0, y <= 0
  PROVE  Hit(u, v, w, z, x, y) <=> Enclosed(u, v, w, z, x, y)
<1>1. PICK d \in Int, e \in Int, f \in Int :
        d = Turn(u, v, w, z) /\ e = Turn(w, z, x, y) /\ f = Turn(x, y, u, v)
  BY TurnsBalance
<1>0. Turn(u, v, w, z) * y + Turn(w, z, x, y) * v + Turn(x, y, u, v) * z = 0
  BY TurnsBalance
<1>2. d * y + e * v + f * z = 0
  BY <1>0, <1>1
<1>3. PICK a \in Int, b \in Int, c \in Int : a = d * y /\ b = e * v /\ c = f * z
  OBVIOUS
<1>4. a + b + c = 0
  BY <1>2, <1>3
<1>5. /\ Edge(u, v, w, z) <=> d < 0
      /\ ~Edge(w, z, x, y)
      /\ Edge(x, y, u, v) <=> f > 0
  BY <1>1 DEF Edge
<1>6. Hit(u, v, w, z, x, y) <=>
        On(u, v, w, z) \/ On(w, z, x, y) \/ On(x, y, u, v) \/ ~(d < 0 <=> f > 0)
  BY <1>5 DEF Hit
<1>7. Enclosed(u, v, w, z, x, y) <=> (d >= 0 /\ e >= 0 /\ f >= 0) \/ (d <= 0 /\ e <= 0 /\ f <= 0)
  BY <1>1 DEF Enclosed
<1>8. (b > 0 <=> e > 0) /\ (b < 0 <=> e < 0) /\ (b = 0 <=> e = 0)
  BY <1>3, Signs
<1>9. /\ d >= 0 => a <= 0
      /\ d <= 0 => a >= 0
      /\ f >= 0 => c <= 0
      /\ f <= 0 => c >= 0
  <2>1. (a > 0 => (d > 0 /\ y > 0) \/ (d < 0 /\ y < 0)) /\ (a < 0 => (d > 0 /\ y < 0) \/ (d < 0 /\ y > 0))
    BY <1>3, Signs
  <2>2. (c > 0 => (f > 0 /\ z > 0) \/ (f < 0 /\ z < 0)) /\ (c < 0 => (f > 0 /\ z < 0) \/ (f < 0 /\ z > 0))
    BY <1>3, Signs
  <2> QED BY <2>1, <2>2
<1>10. CASE d >= 0 /\ f > 0
  <2>1. e >= 0
    BY <1>4, <1>8, <1>9, <1>10
  <2> QED BY <1>6, <1>7, <1>10, <2>1
<1>11. CASE d < 0 /\ f <= 0
  <2>1. e <= 0
    BY <1>4, <1>8, <1>9, <1>11
  <2> QED BY <1>6, <1>7, <1>11, <2>1
<1>12. CASE d = 0 /\ f <= 0
  <2>1. On(u, v, w, z)
    BY <1>1, <1>12, StraightHits
  <2>2. a = 0
    BY <1>3, <1>12
  <2>3. e <= 0
    BY <2>2, <1>4, <1>8, <1>9, <1>12
  <2> QED BY <1>6, <1>7, <1>12, <2>1, <2>3
<1>13. CASE d >= 0 /\ f = 0
  <2>1. Turn(u, v, x, y) = 0
    <3>1. PICK m \in Int, n \in Int : m = x * v /\ n = y * u
      OBVIOUS
    <3>2. m - n = 0
      BY <3>1, <1>1, <1>13 DEF Turn
    <3>3. u * y = n /\ v * x = m
      BY <3>1
    <3> QED BY <3>2, <3>3 DEF Turn
  <2>2. On(x, y, u, v)
    BY <2>1, StraightHits, EdgeReversed
  <2>3. c = 0
    BY <1>3, <1>13
  <2>4. e >= 0
    BY <2>3, <1>4, <1>8, <1>9, <1>13
  <2> QED BY <1>6, <1>7, <1>13, <2>2, <2>4
<1>14. CASE (d < 0 /\ f > 0) \/ (d > 0 /\ f < 0)
  <2>1. ~On(u, v, w, z) /\ ~On(x, y, u, v)
    BY <1>1, <1>14 DEF On
  <2>2. ~On(w, z, x, y)
    <3>1. SUFFICES ASSUME e = 0, Between(0, w, x), Between(0, z, y) PROVE FALSE
      BY <1>1 DEF On
    <3>2. b = 0 /\ a + c = 0 /\ (z = 0 \/ y = 0)
      BY <1>4, <1>8, <3>1 DEF Between
    <3>3. (z = 0 => c = 0) /\ (y = 0 => a = 0) /\ (c = 0 => z = 0) /\ (a = 0 => y = 0)
      BY <1>3, <1>14, Signs
    <3>4. z = 0 /\ y = 0
      BY <3>2, <3>3
    <3>5. PICK m \in Int, n \in Int : m = v * w /\ n = x * v
      OBVIOUS
    <3>6. u * z = 0 /\ y * u = 0
      BY <3>4
    <3>7. d = 0 - m /\ f = n - 0
      BY <1>1, <3>5, <3>6 DEF Turn
    <3>8. (m > 0 => w > 0) /\ (m < 0 => w < 0) /\ (n > 0 => x > 0) /\ (n < 0 => x < 0)
      BY <3>5, Signs
    <3> QED BY <1>14, <3>1, <3>7, <3>8 DEF Between
  <2> QED BY <1>6, <1>7, <1>14, <2>1, <2>2
<1> QED BY <1>10, <1>11, <1>12, <1>13, <1>14

\* Two corners above it.
LEMMA TwoAbove ==
  ASSUME NEW u \in Int, NEW v \in Int, NEW w \in Int, NEW z \in Int, NEW x \in Int, NEW y \in Int,
         v <= 0, z > 0, y > 0
  PROVE  Hit(u, v, w, z, x, y) <=> Enclosed(u, v, w, z, x, y)
<1>1. PICK d \in Int, e \in Int, f \in Int :
        d = Turn(u, v, w, z) /\ e = Turn(w, z, x, y) /\ f = Turn(x, y, u, v)
  BY TurnsBalance
<1>0. Turn(u, v, w, z) * y + Turn(w, z, x, y) * v + Turn(x, y, u, v) * z = 0
  BY TurnsBalance
<1>2. d * y + e * v + f * z = 0
  BY <1>0, <1>1
<1>3. PICK a \in Int, b \in Int, c \in Int : a = d * y /\ b = e * v /\ c = f * z
  OBVIOUS
<1>4. a + b + c = 0
  BY <1>2, <1>3
<1>5. /\ Edge(u, v, w, z) <=> d > 0
      /\ ~Edge(w, z, x, y)
      /\ Edge(x, y, u, v) <=> f < 0
  BY <1>1 DEF Edge
<1>o. ~On(w, z, x, y)
  BY DEF On, Between
<1>6. Hit(u, v, w, z, x, y) <=> On(u, v, w, z) \/ On(x, y, u, v) \/ ~(d > 0 <=> f < 0)
  BY <1>5, <1>o DEF Hit
<1>7. Enclosed(u, v, w, z, x, y) <=> (d >= 0 /\ e >= 0 /\ f >= 0) \/ (d <= 0 /\ e <= 0 /\ f <= 0)
  BY <1>1 DEF Enclosed
<1>8. (b > 0 => e < 0) /\ (b < 0 => e > 0) /\ (b = 0 => e = 0 \/ v = 0)
  BY <1>3, Signs
<1>9. /\ (a > 0 <=> d > 0) /\ (a < 0 <=> d < 0) /\ (a = 0 <=> d = 0)
      /\ (c > 0 <=> f > 0) /\ (c < 0 <=> f < 0) /\ (c = 0 <=> f = 0)
  BY <1>3, Signs
<1>10. CASE d > 0 /\ f >= 0
  <2>1. e > 0
    BY <1>4, <1>8, <1>9, <1>10
  <2> QED BY <1>6, <1>7, <1>10, <2>1
<1>11. CASE d <= 0 /\ f < 0
  <2>1. e < 0
    BY <1>4, <1>8, <1>9, <1>11
  <2> QED BY <1>6, <1>7, <1>11, <2>1
<1>12. v = 0 => (d = 0 <=> u = 0) /\ (f = 0 <=> u = 0)
  <2>1. SUFFICES ASSUME v = 0 PROVE (d = 0 <=> u = 0) /\ (f = 0 <=> u = 0)
    OBVIOUS
  <2>2. PICK m \in Int, n \in Int : m = u * z /\ n = y * u
    OBVIOUS
  <2>3. v * w = 0 /\ x * v = 0
    BY <2>1
  <2>4. d = m - 0 /\ f = 0 - n
    BY <1>1, <2>2, <2>3 DEF Turn
  <2>5. (m = 0 <=> u = 0) /\ (n = 0 <=> u = 0)
    BY <2>2, Signs
  <2> QED BY <2>4, <2>5
<1>13. CASE d = 0 /\ f >= 0
  <2>1. Turn(w, z, u, v) = 0
    <3>1. PICK m \in Int, n \in Int : m = u * z /\ n = v * w
      OBVIOUS
    <3>2. m - n = 0 /\ z * u = m /\ w * v = n
      BY <3>1, <1>1, <1>13 DEF Turn
    <3> QED BY <3>2 DEF Turn
  <2>2. On(u, v, w, z)
    BY <2>1, StraightHits, EdgeReversed
  <2>3. f = 0 \/ e >= 0
    BY <1>4, <1>8, <1>9, <1>12, <1>13
  <2> QED BY <1>6, <1>7, <1>13, <2>2, <2>3
<1>14. CASE d <= 0 /\ f = 0
  <2>1. On(x, y, u, v)
    BY <1>1, <1>14, StraightHits
  <2>2. d = 0 \/ e <= 0
    BY <1>4, <1>8, <1>9, <1>12, <1>14
  <2> QED BY <1>6, <1>7, <1>14, <2>1, <2>2
<1>15. CASE (d > 0 /\ f < 0) \/ (d < 0 /\ f > 0)
  <2>1. ~On(u, v, w, z) /\ ~On(x, y, u, v)
    BY <1>1, <1>15 DEF On
  <2> QED BY <1>6, <1>7, <1>15, <2>1
<1> QED BY <1>10, <1>11, <1>13, <1>14, <1>15

\* All corners above it.
LEMMA AllAbove ==
  ASSUME NEW u \in Int, NEW v \in Int, NEW w \in Int, NEW z \in Int, NEW x \in Int, NEW y \in Int,
         v > 0, z > 0, y > 0, Turn(u, v, w, z) + Turn(w, z, x, y) + Turn(x, y, u, v) # 0
  PROVE  ~Hit(u, v, w, z, x, y) /\ ~Enclosed(u, v, w, z, x, y)
<1>1. PICK d \in Int, e \in Int, f \in Int :
        d = Turn(u, v, w, z) /\ e = Turn(w, z, x, y) /\ f = Turn(x, y, u, v)
  BY TurnsBalance
<1>0. Turn(u, v, w, z) * y + Turn(w, z, x, y) * v + Turn(x, y, u, v) * z = 0
  BY TurnsBalance
<1>2. d * y + e * v + f * z = 0
  BY <1>0, <1>1
<1>3. PICK a \in Int, b \in Int, c \in Int : a = d * y /\ b = e * v /\ c = f * z
  OBVIOUS
<1>4. a + b + c = 0
  BY <1>2, <1>3
<1>5. ~Edge(u, v, w, z) /\ ~Edge(w, z, x, y) /\ ~Edge(x, y, u, v)
  BY DEF Edge
<1>6. ~On(u, v, w, z) /\ ~On(w, z, x, y) /\ ~On(x, y, u, v)
  BY DEF On, Between
<1>7. /\ (a > 0 <=> d > 0) /\ (a < 0 <=> d < 0) /\ (b > 0 <=> e > 0) /\ (b < 0 <=> e < 0)
      /\ (c > 0 <=> f > 0) /\ (c < 0 <=> f < 0)
  BY <1>3, Signs
<1>8. d + e + f # 0
  BY <1>1
<1>9. ~((d >= 0 /\ e >= 0 /\ f >= 0) \/ (d <= 0 /\ e <= 0 /\ f <= 0))
  BY <1>4, <1>7, <1>8
<1> QED BY <1>1, <1>5, <1>6, <1>9 DEF Hit, Enclosed

OnSome(u, v, w, z, x, y) == On(u, v, w, z) \/ On(w, z, x, y) \/ On(x, y, u, v)

\* It does not matter at which corner a triangle begins.
LEMMA Rotated ==
  ASSUME NEW u \in Int, NEW v \in Int, NEW w \in Int, NEW z \in Int, NEW x \in Int, NEW y \in Int
  PROVE  /\ Hit(u, v, w, z, x, y) <=> Hit(w, z, x, y, u, v)
         /\ Enclosed(u, v, w, z, x, y) <=> Enclosed(w, z, x, y, u, v)
         /\ OnSome(u, v, w, z, x, y) <=> OnSome(w, z, x, y, u, v)
<1>1. Hit(u, v, w, z, x, y) <=> Hit(w, z, x, y, u, v)
  BY DEF Hit
<1>2. Enclosed(u, v, w, z, x, y) <=> Enclosed(w, z, x, y, u, v)
  <2>1. PICK d \in Int, e \in Int, f \in Int :
          d = Turn(u, v, w, z) /\ e = Turn(w, z, x, y) /\ f = Turn(x, y, u, v)
    BY TurnsBalance
  <2> QED BY <2>1 DEF Enclosed
<1>3. OnSome(u, v, w, z, x, y) <=> OnSome(w, z, x, y, u, v)
  BY DEF OnSome
<1> QED BY <1>1, <1>2, <1>3

\* With no corner above the point, an edge it lies on makes it enclosed ...
LEMMA OnEncloses ==
  ASSUME NEW u \in Int, NEW v \in Int, NEW w \in Int, NEW z \in Int, NEW x \in Int, NEW y \in Int,
         v <= 0, z <= 0, y <= 0, On(u, v, w, z)
  PROVE  Enclosed(u, v, w, z, x, y)
<1>1. PICK d \in Int, e \in Int, f \in Int :
        d = Turn(u, v, w, z) /\ e = Turn(w, z, x, y) /\ f = Turn(x, y, u, v)
  BY TurnsBalance
<1>2. PICK a \in Int, b \in Int, c \in Int : a = u * z /\ b = v * w /\ c = w * y
  OBVIOUS
<1>3. PICK g \in Int, h \in Int, k \in Int : g = z * x /\ h = x * v /\ k = y * u
  OBVIOUS
<1>4. d = a - b /\ e = c - g /\ f = h - k
  BY <1>1, <1>2, <1>3 DEF Turn
<1>5. d = 0 /\ (v = 0 \/ z = 0) /\ Between(0, u, w)
  BY <1>1 DEF On, Between
<1>6. /\ (v = 0 => b = 0 /\ h = 0) /\ (z = 0 => a = 0 /\ g = 0)
      /\ (u = 0 => a = 0 /\ k = 0) /\ (w = 0 => b = 0 /\ c = 0)
      /\ (a = 0 => u = 0 \/ z = 0) /\ (b = 0 => v = 0 \/ w = 0)
  BY <1>2, <1>3, Signs
<1>7. /\ (c > 0 => w < 0) /\ (c < 0 => w > 0) /\ (k > 0 => u < 0) /\ (k < 0 => u > 0)
  BY <1>2, <1>3, Signs
<1>8. (e >= 0 /\ f >= 0) \/ (e <= 0 /\ f <= 0)
  <2>1. CASE v = 0 /\ u = 0
    BY <1>4, <1>6, <2>1
  <2>2. CASE v = 0 /\ z = 0
    BY <1>4, <1>5, <1>6, <1>7, <2>2 DEF Between
  <2>3. CASE z = 0 /\ w = 0
    BY <1>4, <1>6, <2>3
  <2> QED BY <1>4, <1>5, <1>6, <2>1, <2>2, <2>3
<1> QED BY <1>1, <1>5, <1>8 DEF Enclosed

\* ... and one that is enclosed lies on an edge: at the height of a corner ...
LEMMA EnclosedAtCorner ==
  ASSUME NEW u \in Int, NEW v \in Int, NEW w \in Int, NEW z \in Int, NEW x \in Int, NEW y \in Int,
         v = 0, z <= 0, y <= 0, Enclosed(u, v, w, z, x, y),
         Turn(u, v, w, z) + Turn(w, z, x, y) + Turn(x, y, u, v) # 0
  PROVE  OnSome(u, v, w, z, x, y)
<1>1. PICK d \in Int, e \in Int, f \in Int :
        d = Turn(u, v, w, z) /\ e = Turn(w, z, x, y) /\ f = Turn(x, y, u, v)
  BY TurnsBalance
<1>2. PICK a \in Int, b \in Int, c \in Int : a = u * z /\ b = v * w /\ c = w * y
  OBVIOUS
<1>3. PICK g \in Int, h \in Int, k \in Int : g = z * x /\ h = x * v /\ k = y * u
  OBVIOUS
<1>4. d = a - b /\ e = c - g /\ f = h - k /\ b = 0 /\ h = 0
  BY <1>1, <1>2, <1>3 DEF Turn
<1>5. d = a /\ f = -k
  BY <1>4
<1>6. d + e + f # 0 /\ ((d >= 0 /\ e >= 0 /\ f >= 0) \/ (d <= 0 /\ e <= 0 /\ f <= 0))
  BY <1>1 DEF Enclosed
<1>7. /\ (a = 0 <=> u = 0 \/ z = 0) /\ (k = 0 <=> y = 0 \/ u = 0)
      /\ (a > 0 <=> (u > 0 /\ z > 0) \/ (u < 0 /\ z < 0))
      /\ (a < 0 <=> (u > 0 /\ z < 0) \/ (u < 0 /\ z > 0))
      /\ (k > 0 <=> (y > 0 /\ u > 0) \/ (y < 0 /\ u < 0))
      /\ (k < 0 <=> (y > 0 /\ u < 0) \/ (y < 0 /\ u > 0))
  BY <1>2, <1>3, Signs
<1>8. /\ (c > 0 <=> (w > 0 /\ y > 0) \/ (w < 0 /\ y < 0))
      /\ (c < 0 <=> (w > 0 /\ y < 0) \/ (w < 0 /\ y > 0))
      /\ (g > 0 <=> (z > 0 /\ x > 0) \/ (z < 0 /\ x < 0))
      /\ (g < 0 <=> (z > 0 /\ x < 0) \/ (z < 0 /\ x > 0))
  BY <1>2, <1>3, Signs
\* d and f have opposite signs of u in them: one of the three is zero
<1>9. u = 0 \/ z = 0 \/ y = 0
  BY <1>5, <1>6, <1>7
<1>10. CASE u = 0
  <2>1. d = 0
    BY <1>5, <1>7, <1>10
  <2> QED BY <1>1, <1>10, <2>1 DEF OnSome, On, Between
<1>11. CASE z = 0 /\ u # 0
  <2>1. d = 0 /\ g = 0 /\ e = c
    <3>1. g = 0
      BY <1>3, <1>11
    <3> QED BY <1>4, <1>5, <1>7, <1>11, <3>1
  <2>2. y < 0
    <3>1. y # 0
      <4>1. SUFFICES ASSUME y = 0 PROVE FALSE
        OBVIOUS
      <4>2. c = 0 /\ k = 0
        BY <4>1, <1>2, <1>3
      <4> QED BY <1>5, <1>6, <2>1, <4>2
    <3> QED BY <3>1
  <2>3. Between(0, u, w)
    BY <1>5, <1>6, <1>7, <1>8, <2>1, <2>2 DEF Between
  <2> QED BY <1>1, <1>11, <2>1, <2>3 DEF OnSome, On, Between
<1>12. CASE y = 0 /\ z # 0 /\ u # 0
  <2>1. f = 0 /\ c = 0 /\ e = -g
    <3>1. c = 0
      BY <1>2, <1>12
    <3>2. k = 0
      BY <1>7, <1>12
    <3>3. f = 0
      BY <1>4, <3>2
    <3>4. e = -g
      BY <1>4, <3>1
    <3> QED BY <3>1, <3>3, <3>4
  <2>2. z < 0
    BY <1>12
  <2>3. Between(0, x, u)
    BY <1>5, <1>6, <1>7, <1>8, <2>1, <2>2 DEF Between
  <2> QED BY <1>1, <1>12, <2>1, <2>3 DEF OnSome, On, Between
<1> QED BY <1>9, <1>10, <1>11, <1>12

LEMMA NoneAbove ==
  ASSUME NEW u \in Int, NEW v \in Int, NEW w \in Int, NEW z \in Int, NEW x \in Int, NEW y \in Int,
         v <= 0, z <= 0, y <= 0,
         Turn(u, v, w, z) + Turn(w, z, x, y) + Turn(x, y, u, v) # 0
  PROVE  Hit(u, v, w, z, x, y) <=> Enclosed(u, v, w, z, x, y)
<1>1. ~Edge(u, v, w, z) /\ ~Edge(w, z, x, y) /\ ~Edge(x, y, u, v)
  BY DEF Edge
<1>2. Hit(u, v, w, z, x, y) <=> OnSome(u, v, w, z, x, y)
  BY <1>1 DEF Hit, OnSome
<1>3. ASSUME OnSome(u, v, w, z, x, y) PROVE Enclosed(u, v, w, z, x, y)
  <2>1. CASE On(u, v, w, z)
    BY <2>1, OnEncloses
  <2>2. CASE On(w, z, x, y)
    <3>1. Enclosed(w, z, x, y, u, v)
      BY <2>2, OnEncloses
    <3> QED BY <3>1, Rotated
  <2>3. CASE On(x, y, u, v)
    <3>1. Enclosed(x, y, u, v, w, z)
      BY <2>3, OnEncloses
    <3>2. Enclosed(w, z, x, y, u, v)
      BY <3>1, Rotated
    <3> QED BY <3>2, Rotated
  <2> QED BY <1>3, <2>1, <2>2, <2>3 DEF OnSome
<1>4. ASSUME Enclosed(u, v, w, z, x, y) PROVE OnSome(u, v, w, z, x, y)
  <2>1. PICK d \in Int, e \in Int, f \in Int :
          d = Turn(u, v, w, z) /\ e = Turn(w, z, x, y) /\ f = Turn(x, y, u, v)
    BY TurnsBalance
  <2>2. d + e + f # 0
    BY <2>1
  <2>3. e + f + d # 0 /\ f + d + e # 0
    BY <2>2
  <2>4. /\ Turn(w, z, x, y) + Turn(x, y, u, v) + Turn(u, v, w, z) # 0
        /\ Turn(x, y, u, v) + Turn(u, v, w, z) + Turn(w, z, x, y) # 0
    BY <2>1, <2>3
  <2>5. Enclosed(w, z, x, y, u, v) /\ Enclosed(x, y, u, v, w, z)
    BY <1>4, Rotated
  <2>6. CASE v = 0
    BY <1>4, <2>6, EnclosedAtCorner
  <2>7. CASE z = 0
    <3>1. OnSome(w, z, x, y, u, v)
      BY <2>4, <2>5, <2>7, EnclosedAtCorner
    <3> QED BY <3>1, Rotated
  <2>8. CASE y = 0
    <3>1. OnSome(x, y, u, v, w, z)
      BY <2>4, <2>5, <2>8, EnclosedAtCorner
    <3> QED BY <3>1 DEF OnSome
  <2>9. CASE v < 0 /\ z < 0 /\ y < 0
    <3>0. Turn(u, v, w, z) * y + Turn(w, z, x, y) * v + Turn(x, y, u, v) * z = 0
      BY TurnsBalance
    <3>1. d * y + e * v + f * z = 0
      BY <3>0, <2>1
    <3>2. PICK a \in Int, b \in Int, c \in Int : a = d * y /\ b = e * v /\ c = f * z
      OBVIOUS
    <3>3. a + b + c = 0
      BY <3>1, <3>2
    <3>4. /\ (a > 0 <=> d < 0) /\ (a < 0 <=> d > 0) /\ (b > 0 <=> e < 0) /\ (b < 0 <=> e > 0)
          /\ (c > 0 <=> f < 0) /\ (c < 0 <=> f > 0)
      BY <3>2, <2>9, Signs
    <3>5. (d >= 0 /\ e >= 0 /\ f >= 0) \/ (d <= 0 /\ e <= 0 /\ f <= 0)
      BY <1>4, <2>1 DEF Enclosed
    <3> QED BY <2>2, <3>3, <3>4, <3>5
  <2> QED BY <2>6, <2>7, <2>8, <2>9
<1> QED BY <1>2, <1>3, <1>4

\* A triangle that is one: casting a ray and looking at the sides agree.
LEMMA TriangleIs ==
  ASSUME NEW u \in Int, NEW v \in Int, NEW w \in Int, NEW z \in Int, NEW x \in Int, NEW y \in Int,
         Turn(u, v, w, z) + Turn(w, z, x, y) + Turn(x, y, u, v) # 0
  PROVE  Hit(u, v, w, z, x, y) <=> Enclosed(u, v, w, z, x, y)
<1>r. /\ Hit(u, v, w, z, x, y) <=> Hit(w, z, x, y, u, v)
      /\ Hit(w, z, x, y, u, v) <=> Hit(x, y, u, v, w, z)
      /\ Enclosed(u, v, w, z, x, y) <=> Enclosed(w, z, x, y, u, v)
      /\ Enclosed(w, z, x, y, u, v) <=> Enclosed(x, y, u, v, w, z)
  BY Rotated
<1>1. CASE v > 0 /\ z <= 0 /\ y <= 0
  BY <1>1, OneAbove
<1>2. CASE v <= 0 /\ z > 0 /\ y <= 0
  <2>1. Hit(w, z, x, y, u, v) <=> Enclosed(w, z, x, y, u, v)
    BY <1>2, OneAbove
  <2> QED BY <1>r, <2>1
<1>3. CASE v <= 0 /\ z <= 0 /\ y > 0
  <2>1. Hit(x, y, u, v, w, z) <=> Enclosed(x, y, u, v, w, z)
    BY <1>3, OneAbove
  <2> QED BY <1>r, <2>1
<1>4. CASE v <= 0 /\ z > 0 /\ y > 0
  BY <1>4, TwoAbove
<1>5. CASE v > 0 /\ z <= 0 /\ y > 0
  <2>1. Hit(w, z, x, y, u, v) <=> Enclosed(w, z, x, y, u, v)
    BY <1>5, TwoAbove
  <2> QED BY <1>r, <2>1
<1>6. CASE v > 0 /\ z > 0 /\ y <= 0
  <2>1. Hit(x, y, u, v, w, z) <=> Enclosed(x, y, u, v, w, z)
    BY <1>6, TwoAbove
  <2> QED BY <1>r, <2>1
<1>7. CASE v > 0 /\ z > 0 /\ y > 0
  BY <1>7, AllAbove
<1>8. CASE v <= 0 /\ z <= 0 /\ y <= 0
  BY <1>8, NoneAbove
<1> QED BY <1>1, <1>2, <1>3, <1>4, <1>5, <1>6, <1>7, <1>8

\* How many of three.
LEMMA OddOfThree ==
  ASSUME NEW A \in BOOLEAN, NEW B \in BOOLEAN, NEW C \in BOOLEAN, NEW S \in SUBSET (1..3),
         1 \in S <=> A, 2 \in S <=> B, 3 \in S <=> C
  PROVE  Odd(S) <=> ((A <=> B) <=> C)
<1>1. 1..3 = {1, 2, 3}
  OBVIOUS
<1>2. \A T \in SUBSET (1..3) : IsFiniteSet(T) /\ Cardinality(T) \in Nat
  <2>1. 1 \in Int /\ 3 \in Int
    OBVIOUS
  <2>2. IsFiniteSet(1..3)
    BY <2>1, FS_Interval
  <2> QED BY <2>2, FS_Subset, FS_CardinalityType
<1>3. \A T \in SUBSET (1..3) : \A x \in 1..3 : x \notin T => Cardinality(T \cup {x}) = Cardinality(T) + 1
  BY <1>2, FS_AddElement
<1> DEFINE S1 == IF A THEN {} \cup {1} ELSE {}
           S2 == IF B THEN S1 \cup {2} ELSE S1
           S3 == IF C THEN S2 \cup {3} ELSE S2
<1>4. Cardinality({}) = 0
  BY FS_EmptySet
<1>5. S1 \in SUBSET (1..3) /\ 2 \notin S1 /\ 3 \notin S1 /\ (1 \in S1 <=> A)
  OBVIOUS
<1>6. Cardinality(S1) = IF A THEN 1 ELSE 0
  <2>1. {} \in SUBSET (1..3) /\ 1 \in 1..3 /\ 1 \notin {}
    OBVIOUS
  <2>2. Cardinality({} \cup {1}) = 0 + 1
    BY <1>3, <1>4, <2>1
  <2> QED BY <1>4, <2>2
<1> HIDE DEF S1
<1>7. S2 \in SUBSET (1..3) /\ 3 \notin S2 /\ (1 \in S2 <=> A) /\ (2 \in S2 <=> B)
  BY <1>5
<1>8. Cardinality(S2) = Cardinality(S1) + (IF B THEN 1 ELSE 0)
  <2>1. 2 \in 1..3
    OBVIOUS
  <2>2. Cardinality(S1 \cup {2}) = Cardinality(S1) + 1
    BY <1>3, <1>5, <2>1
  <2> QED BY <1>6, <2>2
<1> HIDE DEF S2
<1>9. S3 \in SUBSET (1..3) /\ (1 \in S3 <=> A) /\ (2 \in S3 <=> B) /\ (3 \in S3 <=> C)
  BY <1>7
<1>10. Cardinality(S3) = Cardinality(S2) + (IF C THEN 1 ELSE 0)
  <2>1. 3 \in 1..3
    OBVIOUS
  <2>2. Cardinality(S2 \cup {3}) = Cardinality(S2) + 1
    BY <1>3, <1>7, <2>1
  <2> QED BY <1>6, <1>8, <2>2
<1> HIDE DEF S3
<1>11. S = S3
  <2>1. \A i \in {1, 2, 3} : i \in S <=> i \in S3
    BY <1>9
  <2>2. S \subseteq {1, 2, 3} /\ S3 \subseteq {1, 2, 3}
    BY <1>1, <1>9
  <2>3. \A i : i \in S <=> i \in S3
    BY <2>1, <2>2
  <2> QED BY <2>3
<1>12. Cardinality(S) % 2 = 1 <=> ((A <=> B) <=> C)
  BY <1>6, <1>8, <1>10, <1>11
<1> QED BY <1>12 DEF Odd

LEMMA TriangleInside ==
  ASSUME NEW s, IsCorners(s), Len(s) = 3, TwiceArea(s) # 0, NEW p \in Int \X Int
  PROVE  Inside(p, s) <=>
           \/ \A i \in 1..3 : Cross(p, Preceding(s, i), s[i]) >= 0
           \/ \A i \in 1..3 : Cross(p, Preceding(s, i), s[i]) <= 0
<1>1. DOMAIN s = 1..3 /\ 1..3 = {1, 2, 3}
  BY DEF IsCorners
<1>2. Preceding(s, 1) = s[3] /\ Preceding(s, 2) = s[1] /\ Preceding(s, 3) = s[2]
  BY DEF Preceding
<1>3. s[1] \in Int \X Int /\ s[2] \in Int \X Int /\ s[3] \in Int \X Int
  BY <1>1, EdgeIs
<1>4. PICK px \in Int, py \in Int : px = X(p) /\ py = Y(p)
  BY CoordinatesAre
<1>5. PICK a \in Int, b \in Int : a = X(s[3]) /\ b = Y(s[3])
  BY <1>3, CoordinatesAre
<1>6. PICK c \in Int, d \in Int : c = X(s[1]) /\ d = Y(s[1])
  BY <1>3, CoordinatesAre
<1>7. PICK e \in Int, f \in Int : e = X(s[2]) /\ f = Y(s[2])
  BY <1>3, CoordinatesAre
<1>8. PICK u \in Int, v \in Int : u = a - px /\ v = b - py
  OBVIOUS
<1>9. PICK w \in Int, z \in Int : w = c - px /\ z = d - py
  OBVIOUS
<1>10. PICK x \in Int, y \in Int : x = e - px /\ y = f - py
  OBVIOUS
<1>11. /\ Term(s, 1) = Turn(a, b, c, d) /\ Term(s, 2) = Turn(c, d, e, f) /\ Term(s, 3) = Turn(e, f, a, b)
  <2>1. Term(s, 1) = a * d - c * b
    BY <1>2, <1>5, <1>6 DEF Term
  <2>2. Term(s, 2) = c * f - e * d
    BY <1>2, <1>6, <1>7 DEF Term
  <2>3. Term(s, 3) = e * b - a * f
    BY <1>2, <1>5, <1>7 DEF Term
  <2>4. c * b = b * c /\ e * d = d * e /\ a * f = f * a
    OBVIOUS
  <2> QED BY <2>1, <2>2, <2>3, <2>4 DEF Turn
<1>12. Turn(u, v, w, z) + Turn(w, z, x, y) + Turn(x, y, u, v) # 0
  <2>1. Turn(u, v, w, z) + Turn(w, z, x, y) + Turn(x, y, u, v)
          = Turn(a, b, c, d) + Turn(c, d, e, f) + Turn(e, f, a, b)
    <3>1. /\ a = u + px /\ b = v + py /\ c = w + px /\ d = z + py /\ e = x + px /\ f = y + py
      BY <1>8, <1>9, <1>10
    <3>2. Turn(u + px, v + py, w + px, z + py) + Turn(w + px, z + py, x + px, y + py)
            + Turn(x + px, y + py, u + px, v + py)
          = Turn(u, v, w, z) + Turn(w, z, x, y) + Turn(x, y, u, v)
      BY DEF Turn
    <3> QED BY <3>1, <3>2
  <2>2. TwiceArea(s) = Turn(a, b, c, d) + Turn(c, d, e, f) + Turn(e, f, a, b)
    BY <1>11, AreaUnfolds
  <2> QED BY <2>1, <2>2
<1>13. Hit(u, v, w, z, x, y) <=> Enclosed(u, v, w, z, x, y)
  BY <1>12, TriangleIs
<1>14. /\ Crosses(p, Preceding(s, 1), s[1]) <=> Edge(u, v, w, z)
       /\ OnSegment(p, Preceding(s, 1), s[1]) <=> On(u, v, w, z)
       /\ Cross(p, Preceding(s, 1), s[1]) = Turn(u, v, w, z)
  BY <1>2, <1>3, <1>4, <1>5, <1>6, <1>8, <1>9, CrossesIs, CrossTurns
<1>15. /\ Crosses(p, Preceding(s, 2), s[2]) <=> Edge(w, z, x, y)
       /\ OnSegment(p, Preceding(s, 2), s[2]) <=> On(w, z, x, y)
       /\ Cross(p, Preceding(s, 2), s[2]) = Turn(w, z, x, y)
  BY <1>2, <1>3, <1>4, <1>6, <1>7, <1>9, <1>10, CrossesIs, CrossTurns
<1>16. /\ Crosses(p, Preceding(s, 3), s[3]) <=> Edge(x, y, u, v)
       /\ OnSegment(p, Preceding(s, 3), s[3]) <=> On(x, y, u, v)
       /\ Cross(p, Preceding(s, 3), s[3]) = Turn(x, y, u, v)
  BY <1>2, <1>3, <1>4, <1>5, <1>7, <1>8, <1>10, CrossesIs, CrossTurns
<1> DEFINE S == {i \in DOMAIN s : Crosses(p, Preceding(s, i), s[i])}
           A == Edge(u, v, w, z)
           B == Edge(w, z, x, y)
           C == Edge(x, y, u, v)
<1>17. S \in SUBSET (1..3) /\ (1 \in S <=> A) /\ (2 \in S <=> B) /\ (3 \in S <=> C)
  BY <1>1, <1>14, <1>15, <1>16
<1>18. A \in BOOLEAN /\ B \in BOOLEAN /\ C \in BOOLEAN
  BY DEF Edge
<1>19. Inside(p, s) <=> (\E i \in DOMAIN s : OnSegment(p, Preceding(s, i), s[i])) \/ Odd(S)
  BY DEF Inside
<1> HIDE DEF S, A, B, C
<1>20. Odd(S) <=> ((A <=> B) <=> C)
  BY <1>17, <1>18, OddOfThree
<1>21. (\E i \in DOMAIN s : OnSegment(p, Preceding(s, i), s[i])) <=> On(u, v, w, z) \/ On(w, z, x, y) \/ On(x, y, u, v)
  BY <1>1, <1>14, <1>15, <1>16
<1>22. Inside(p, s) <=> Hit(u, v, w, z, x, y)
  BY <1>19, <1>20, <1>21 DEF Hit, A, B, C
<1>23. Enclosed(u, v, w, z, x, y) <=>
           \/ \A i \in 1..3 : Cross(p, Preceding(s, i), s[i]) >= 0
           \/ \A i \in 1..3 : Cross(p, Preceding(s, i), s[i]) <= 0
  <2>1. PICK k \in Int, m \in Int, n \in Int :
          k = Turn(u, v, w, z) /\ m = Turn(w, z, x, y) /\ n = Turn(x, y, u, v)
    BY TurnsBalance
  <2>2. Cross(p, Preceding(s, 1), s[1]) = k /\ Cross(p, Preceding(s, 2), s[2]) = m
        /\ Cross(p, Preceding(s, 3), s[3]) = n
    BY <2>1, <1>14, <1>15, <1>16
  <2>3. (\A i \in 1..3 : Cross(p, Preceding(s, i), s[i]) >= 0) <=> k >= 0 /\ m >= 0 /\ n >= 0
    BY <1>1, <2>2
  <2>4. (\A i \in 1..3 : Cross(p, Preceding(s, i), s[i]) <= 0) <=> k <= 0 /\ m <= 0 /\ n <= 0
    BY <1>1, <2>2
  <2> QED BY <2>1, <2>3, <2>4 DEF Enclosed
<1> QED BY <1>13, <1>22, <1>23

-----------------------------------------------------------------------------
PolygonInv == corners \in Seq(Corners) /\ spot \in Spots \cup {Nowhere}

LEMMA PolygonHolds ==
  ASSUME PolygonInv
  PROVE  InsideIsRight
<1> SUFFICES ASSUME LookedAt(corners, spot) PROVE InsideIsRight
  BY DEF InsideIsRight
<1>1. PICK p : p = spot
  OBVIOUS
<1>2. PICK s : s = corners
  OBVIOUS
<1>3. p \in Int \X Int
  BY <1>1, PolygonAssumption DEF PolygonInv, LookedAt
<1>4. Len(s) \in 3..64 /\ TwiceArea(s) # 0
  BY <1>2 DEF LookedAt, IsShape
<1>5. IsCorners(s)
  <2>1. s \in Seq(Int \X Int)
    BY <1>2, PolygonAssumption DEF PolygonInv
  <2>2. Len(s) \in Nat \ {0}
    <3>1. \A n \in 3..64 : n \in Nat \ {0}
      OBVIOUS
    <3> QED BY <1>4, <3>1
  <2> QED BY <2>1, <2>2 DEF IsCorners
<1>6. Len(s) = 3 => (Inside(p, s) <=>
              \/ \A i \in 1..3 : Cross(p, Preceding(s, i), s[i]) >= 0
              \/ \A i \in 1..3 : Cross(p, Preceding(s, i), s[i]) <= 0)
  BY <1>3, <1>4, <1>5, TriangleInside
<1>7. \A k \in DOMAIN s : Inside(p, From(s, k)) <=> Inside(p, s)
  BY <1>5, FromSame
<1>8. Inside(p, Backwards(s)) <=> Inside(p, s)
  BY <1>3, <1>5, BackwardsSame
<1>9. SourceInside(p, s) <=> Inside(p, s)
  <2>1. ASSUME NEW i \in DOMAIN s
        PROVE  SourceOnSegment(p, Preceding(s, i), s[i]) <=> OnSegment(p, Preceding(s, i), s[i])
    BY <1>3, <1>5, EdgeIs, CrossesIs
  <2> QED BY <2>1 DEF SourceInside, Inside
<1>10. ReplayInside(p, s) => Inside(p, s)
  BY DEF ReplayInside, Inside
<1>11. Inside(p, s) /\ ~ReplayInside(p, s) => \E i \in DOMAIN s : OnSegment(p, Preceding(s, i), s[i])
  BY DEF ReplayInside, Inside
<1>12. /\ \A q, t : Inside(q, t) \in BOOLEAN /\ SourceInside(q, t) \in BOOLEAN
  BY DEF Inside, SourceInside
<1>13. /\ \A k \in DOMAIN s : Inside(p, From(s, k)) = Inside(p, s)
       /\ Inside(p, Backwards(s)) = Inside(p, s) /\ SourceInside(p, s) = Inside(p, s)
  BY <1>7, <1>8, <1>9, <1>12
<1> HIDE DEF IsCorners
<1> QED BY <1>1, <1>2, <1>6, <1>10, <1>11, <1>13 DEF InsideIsRight

LEMMA PolygonBegins ==
  ASSUME PolygonInit
  PROVE  PolygonInv
  BY DEF PolygonInit, PolygonInv

LEMMA PolygonStep ==
  ASSUME PolygonInv, [PolygonNext]_polygonVars
  PROVE  PolygonInv'
  BY DEF PolygonInv, PolygonNext, polygonVars, Draw, LookAt

-----------------------------------------------------------------------------
(* The boxes and tracks of a video file *)

\* Where the next box begins.
Reached == IF boxes = <<>> THEN 0 ELSE boxes[Len(boxes)].to

MediaTypes ==
  /\ length \in Nat /\ offset \in Nat /\ offset <= length
  /\ boxes \in Seq([kind : Kinds, from : Nat, to : Nat])
  /\ tracks \in Seq(Tracks)

ProbedInv == probe = "probed" =>
  /\ \A i \in VideoTracks : tracks[i].readable
  /\ \E i \in VideoTracks : Largest(i) /\ found = <<i>>

MediaInv == MediaTypes /\ BoxesFill /\ ProbedInv

LEMMA MediaBegins ==
  ASSUME MediaInit
  PROVE  MediaInv
<1>1. length \in Nat /\ offset = 0 /\ boxes = <<>> /\ probe = "boxes" /\ tracks = <<>>
  BY MediaAssumption DEF MediaInit
<1>2. MediaTypes
  BY <1>1 DEF MediaTypes
<1>3. BoxesFill
  BY <1>1 DEF BoxesFill
<1>4. ProbedInv
  BY <1>1 DEF ProbedInv
<1> QED BY <1>2, <1>3, <1>4 DEF MediaInv

\* A box that fits follows the one before and ends in the file.
LEMMA BoxFits ==
  ASSUME MediaTypes, NEW field \in BoxSizes, NEW large \in BoxSizes, Fits(field, large)
  PROVE  /\ Header(field) \in {8, 16} /\ Size(field, large) \in Nat
         /\ Header(field) <= Size(field, large) /\ offset + Size(field, large) <= length
<1>1. field \in Nat /\ large \in Nat
  BY MediaAssumption
<1>2. length \in Nat /\ offset \in Nat /\ offset <= length
  BY DEF MediaTypes
<1>3. length - offset \in Nat
  BY <1>2
<1>4. Header(field) \in {8, 16}
  BY DEF Header
<1>5. Size(field, large) \in Nat
  BY <1>1, <1>3 DEF Size, Left
<1>6. Header(field) <= Size(field, large) /\ Size(field, large) <= length - offset
  BY DEF Fits, Left
<1> QED BY <1>2, <1>4, <1>5, <1>6

LEMMA MediaStep ==
  ASSUME MediaInv, [MediaNext]_mediaVars
  PROVE  MediaInv'
<1>t. MediaTypes /\ BoxesFill /\ ProbedInv
  BY DEF MediaInv
<1>1. ASSUME NEW kind \in Kinds, NEW field \in BoxSizes, NEW large \in BoxSizes, ReadBox(kind, field, large)
      PROVE  MediaInv'
  <2>1. probe = "boxes" /\ length' = length /\ tracks' = tracks /\ found' = found
    BY <1>1 DEF ReadBox
  <2>2. CASE Fits(field, large)
    <3> DEFINE box == [kind |-> kind, from |-> offset + Header(field), to |-> offset + Size(field, large)]
    <3>1. boxes' = Append(boxes, box) /\ offset' = offset + Size(field, large) /\ probe' = probe
      BY <1>1, <2>2 DEF ReadBox
    <3>2. PICK h \in {8, 16}, s \in Nat : h = Header(field) /\ s = Size(field, large) /\ h <= s /\ offset + s <= length
      BY <1>t, <2>2, BoxFits
    <3>3. box.from = offset + h /\ box.to = offset + s
      BY <3>2
    <3>4. length \in Nat /\ offset \in Nat /\ boxes \in Seq([kind : Kinds, from : Nat, to : Nat])
      BY <1>t DEF MediaTypes
    <3>5. offset + h \in Nat /\ offset + s \in Nat /\ offset + h <= offset + s /\ (offset + h) - offset \in {8, 16}
      BY <3>2, <3>4
    <3>6. box \in [kind : Kinds, from : Nat, to : Nat]
      BY <3>2, <3>5
    <3> HIDE DEF box
    <3>7. MediaTypes'
      BY <1>t, <2>1, <3>1, <3>2, <3>4, <3>5, <3>6 DEF MediaTypes
    <3>8. PICK n \in Nat : n = Len(boxes)
      BY <3>4
    <3>9. /\ Len(boxes') = n + 1 /\ boxes'[n + 1] = box /\ DOMAIN boxes' = 1..(n + 1) /\ DOMAIN boxes = 1..n
          /\ \A i \in 1..n : boxes'[i] = boxes[i]
      BY <3>1, <3>4, <3>6, <3>8
    <3>10. boxes' # <<>> /\ (n = 0 <=> boxes = <<>>)
      BY <3>4, <3>8, <3>9, EmptySeq
    <3>11. offset = IF n = 0 THEN 0 ELSE boxes[n].to
      BY <1>t, <3>8, <3>10 DEF BoxesFill
    <3>12. ASSUME NEW i \in 1..(n + 1)
           PROVE  /\ boxes'[i].from <= boxes'[i].to /\ boxes'[i].to <= length'
                  /\ boxes'[i].from - (IF i = 1 THEN 0 ELSE boxes'[i - 1].to) \in {8, 16}
      <4>1. CASE i = n + 1
        <5>1. (IF i = 1 THEN 0 ELSE boxes'[i - 1].to) = offset
          <6>1. CASE n = 0
            BY <3>11, <4>1, <6>1
          <6>2. CASE n # 0
            <7>1. i # 1 /\ i - 1 = n /\ n \in 1..n
              BY <4>1, <6>2, <3>8
            <7> QED BY <7>1, <3>9, <3>11, <6>2
          <6> QED BY <6>1, <6>2
        <5>2. boxes'[i] = box
          BY <3>9, <4>1
        <5> QED BY <2>1, <3>2, <3>3, <3>5, <5>1, <5>2
      <4>2. CASE i # n + 1
        <5>1. i \in 1..n /\ (i = 1 \/ i - 1 \in 1..n)
          BY <3>8, <4>2
        <5>2. boxes'[i] = boxes[i] /\ (i = 1 \/ boxes'[i - 1] = boxes[i - 1])
          BY <3>9, <5>1
        <5>3. /\ boxes[i].from <= boxes[i].to /\ boxes[i].to <= length
              /\ boxes[i].from - (IF i = 1 THEN 0 ELSE boxes[i - 1].to) \in {8, 16}
          BY <1>t, <3>9, <5>1 DEF BoxesFill
        <5>4. (IF i = 1 THEN 0 ELSE boxes'[i - 1].to) = (IF i = 1 THEN 0 ELSE boxes[i - 1].to)
          BY <5>2
        <5> QED BY <2>1, <5>2, <5>3, <5>4
      <4> QED BY <4>1, <4>2
    <3>13. offset' = boxes'[Len(boxes')].to
      BY <3>1, <3>2, <3>3, <3>9
    <3>14. BoxesFill'
      <4>1. probe' \notin {"tracks", "probed"}
        BY <2>1, <3>1
      <4> QED BY <3>9, <3>10, <3>12, <3>13, <4>1 DEF BoxesFill
    <3>15. ProbedInv'
      BY <2>1, <3>1 DEF ProbedInv
    <3> QED BY <3>7, <3>14, <3>15 DEF MediaInv
  <2>3. CASE ~Fits(field, large)
    <3>1. probe' = "refused" /\ boxes' = boxes /\ offset' = offset
      BY <1>1, <2>3 DEF ReadBox
    <3> QED BY <1>t, <2>1, <3>1 DEF MediaInv, MediaTypes, BoxesFill, ProbedInv
  <2> QED BY <2>2, <2>3
<1>2. ASSUME NEW t \in Tracks, ReadTrack(t) PROVE MediaInv'
  <2>1. /\ probe = "tracks" /\ tracks' = Append(tracks, t) /\ probe' = probe
        /\ length' = length /\ offset' = offset /\ boxes' = boxes
    BY <1>2 DEF ReadTrack
  <2> QED BY <1>t, <2>1 DEF MediaInv, MediaTypes, BoxesFill, ProbedInv
<1>3. CASE FindMovie
  <2>1. /\ offset = length /\ probe' \in {"tracks", "refused"} /\ tracks' = tracks
        /\ length' = length /\ offset' = offset /\ boxes' = boxes
    BY <1>3 DEF FindMovie
  <2> QED BY <1>t, <2>1 DEF MediaInv, MediaTypes, BoxesFill, ProbedInv
<1>4. CASE Probe
  <2>1. /\ probe = "tracks" /\ probe' \in {"probed", "refused"} /\ tracks' = tracks
        /\ length' = length /\ offset' = offset /\ boxes' = boxes
    BY <1>4 DEF Probe
  <2>2. probe' = "probed" => /\ \A i \in VideoTracks : tracks[i].readable
                             /\ \E i \in VideoTracks : Largest(i) /\ found' = <<i>>
    BY <1>4 DEF Probe
  <2>3. ProbedInv'
    BY <2>1, <2>2 DEF ProbedInv, VideoTracks, Candidate, Largest
  <2> QED BY <1>t, <2>1, <2>3 DEF MediaInv, MediaTypes, BoxesFill
<1>5. CASE UNCHANGED mediaVars
  <2>1. MediaTypes' /\ BoxesFill'
    BY <1>t, <1>5 DEF mediaVars, MediaTypes, BoxesFill
  <2>2. ProbedInv'
    BY <1>t, <1>5 DEF mediaVars, ProbedInv, VideoTracks, Candidate, Largest
  <2> QED BY <2>1, <2>2 DEF MediaInv
<1> QED BY <1>1, <1>2, <1>3, <1>4, <1>5 DEF MediaNext

LEMMA MediaHolds ==
  ASSUME MediaInv
  PROVE  MediaIsRight
<1>1. ASSUME Verified PROVE \A i \in DOMAIN tracks :
          tracks[i].complete /\ tracks[i].video => tracks[i].readable /\ tracks[i].area <= Identity.area
  <2>1. PICK i \in VideoTracks : Largest(i) /\ found = <<i>>
    BY <1>1 DEF MediaInv, ProbedInv, Verified
  <2>2. Identity.area = tracks[i].area
    BY <1>1, <2>1 DEF Verified
  <2>3. \A k \in VideoTracks : tracks[k].readable /\ tracks[k].area <= tracks[i].area
    BY <1>1, <2>1 DEF MediaInv, ProbedInv, Verified, Largest
  <2> QED BY <2>2, <2>3 DEF VideoTracks, Candidate
<1> QED BY <1>1 DEF MediaInv, MediaIsRight, PlaysReviewed

-----------------------------------------------------------------------------
(* What was written *)

WrittenTypes == exposures \in Seq(Exposures)

LEMMA WrittenIs ==
  ASSUME WrittenTypes
  PROVE  /\ Len(exposures) \in Nat /\ DOMAIN exposures = 1..Len(exposures)
         /\ Written \subseteq Exposures /\ IsFiniteSet(Written)
         /\ Cardinality(Written) <= Len(exposures) /\ Cardinality(Written) \in Nat
         /\ \A e \in Written : /\ e.id \in Nat \ {0} /\ e.parent \in Nat /\ e.rank \in Nat
                               /\ e.from \in Nat /\ e.to \in Nat
<1>1. PICK n \in Nat : n = Len(exposures) /\ DOMAIN exposures = 1..n
  BY DEF WrittenTypes
<1>2. \A i \in 1..n : exposures[i] \in Exposures
  BY <1>1 DEF WrittenTypes
<1>3. Written \subseteq Exposures
  BY <1>1, <1>2 DEF Written
<1> DEFINE f == [i \in 1..n |-> exposures[i]]
<1>4. f \in Surjection(1..n, Written)
  BY <1>1 DEF Surjection, Written
<1>5. IsFiniteSet(1..n) /\ Cardinality(1..n) = n
  <2>1. 1 \in Int /\ n \in Int
    OBVIOUS
  <2>2. IsFiniteSet(1..n) /\ Cardinality(1..n) = IF 1 > n THEN 0 ELSE n - 1 + 1
    BY <2>1, FS_Interval
  <2> QED BY <2>2
<1>6. IsFiniteSet(Written) /\ Cardinality(Written) <= n
  BY <1>4, <1>5, FS_Surjection
<1>7. \A e \in Written : /\ e.id \in Nat \ {0} /\ e.parent \in Nat /\ e.rank \in Nat
                         /\ e.from \in Nat /\ e.to \in Nat
  BY <1>3, ContentAssumption
<1>8. Cardinality(Written) \in Nat
  BY <1>6, FS_CardinalityType
<1> QED BY <1>1, <1>3, <1>6, <1>7, <1>8

\* What the metadata's checks say of the written exposures.
UniqueIds == \A a, b \in Written : a.id = b.id => a = b
Parented ==
  \A e \in Written :
    /\ e.to <= Duration
    /\ e.parent = 0 => e.rank = 0
    /\ e.parent # 0 => \E q \in Written : q.id = e.parent /\ Nests(e, q)

LEMMA MetadataGives ==
  ASSUME WrittenTypes, MetadataValid
  PROVE  UniqueIds /\ Parented
<1>1. Parented
  BY DEF MetadataValid, Parented
<1>2. UniqueIds
  <2> DEFINE Ids == {e.id : e \in Written}
  <2>1. PICK n \in Nat : n = Len(exposures) /\ DOMAIN exposures = 1..n
    BY WrittenIs
  <2> DEFINE f == [i \in 1..n |-> exposures[i].id]
  <2>2. f \in Surjection(1..n, Ids)
    BY <2>1 DEF Surjection, Written
  <2>3. IsFiniteSet(1..n) /\ Cardinality(1..n) = n
    <3>1. 1 \in Int /\ n \in Int
      OBVIOUS
    <3>2. IsFiniteSet(1..n) /\ Cardinality(1..n) = IF 1 > n THEN 0 ELSE n - 1 + 1
      BY <3>1, FS_Interval
    <3> QED BY <3>2
  <2>4. Cardinality(Ids) = n
    BY <2>1 DEF MetadataValid
  <2>5. f \in Injection(1..n, Ids)
    BY <2>2, <2>3, <2>4, FS_Surjection
  <2>6. \A i, j \in 1..n : f[i] = f[j] => i = j
    BY <2>5 DEF Injection, IsInjective
  <2>7. SUFFICES ASSUME NEW a \in Written, NEW b \in Written, a.id = b.id PROVE a = b
    BY DEF UniqueIds
  <2>8. PICK i \in 1..n : exposures[i] = a
    BY <2>1 DEF Written
  <2>9. PICK j \in 1..n : exposures[j] = b
    BY <2>1 DEF Written
  <2> QED BY <2>6, <2>7, <2>8, <2>9
<1> QED BY <1>1, <1>2

-----------------------------------------------------------------------------
(* The exposures above one *)

Upward(up, e, n) ==
  /\ up[0] = {e}
  /\ \A i \in 1..n : up[i] = up[i - 1] \cup {q \in Written : \E c \in up[i - 1] : c.parent = q.id}

LEMMA AboveUnfolds ==
  ASSUME WrittenTypes, NEW e \in Written
  PROVE  \E up \in [0..Len(exposures) -> SUBSET Written] :
           Above(e) = up[Len(exposures)] /\ Upward(up, e, Len(exposures))
<1>0. PICK N \in Nat : N = Len(exposures)
  BY WrittenIs
<1> DEFINE D == 0..Len(exposures)
           Next1(U) == U \cup {q \in Written : \E c \in U : c.parent = q.id}
           Body(f, n) == IF n = 0 THEN {e}
                         ELSE f[n - 1] \cup {q \in Written : \E c \in f[n - 1] : c.parent = q.id}
           up == CHOOSE f : f = [n \in D |-> Body(f, n)]
           T == {n \in D : \E f \in [0..n -> SUBSET Written] : Upward(f, e, n)}
<1>1. Above(e) = up[Len(exposures)]
  BY DEF Above
<1>2. \A U \in SUBSET Written : Next1(U) \in SUBSET Written
  OBVIOUS
<1>3. T = D
  <2>1. 0 \in T
    <3>1. [i \in 0..0 |-> {e}] \in [0..0 -> SUBSET Written]
      OBVIOUS
    <3>2. Upward([i \in 0..0 |-> {e}], e, 0)
      BY DEF Upward
    <3>3. 0 \in D
      BY <1>0
    <3> QED BY <3>1, <3>2, <3>3, Zenon
  <2>2. ASSUME NEW n \in T, n < Len(exposures) PROVE n + 1 \in T
    <3>1. PICK f \in [0..n -> SUBSET Written] : Upward(f, e, n)
      OBVIOUS
    <3>2. n \in Nat /\ n + 1 \in D
      BY <1>0, <2>2
    <3> DEFINE v == Next1(f[n])
               g == [i \in 0..(n + 1) |-> IF i = n + 1 THEN v ELSE f[i]]
    <3>3. v \in SUBSET Written
      BY <1>2, <3>2
    <3>v. v = f[n] \cup {q \in Written : \E c \in f[n] : c.parent = q.id}
      OBVIOUS
    <3> HIDE DEF v
    <3>4. g \in [0..(n + 1) -> SUBSET Written]
      BY <3>2, <3>3
    <3>5. /\ g[n + 1] = v /\ g[n] = f[n] /\ g[0] = f[0]
          /\ \A i \in 1..n : g[i] = f[i] /\ g[i - 1] = f[i - 1]
      BY <3>2
    <3> HIDE DEF g
    <3>6. ASSUME NEW i \in 1..(n + 1)
          PROVE  g[i] = g[i - 1] \cup {q \in Written : \E c \in g[i - 1] : c.parent = q.id}
      <4>1. CASE i = n + 1
        <5>1. i - 1 = n
          BY <3>2, <4>1
        <5> QED BY <3>5, <3>v, <4>1, <5>1
      <4>2. CASE i # n + 1
        <5>1. i \in 1..n
          BY <3>2, <4>2
        <5> QED
          BY <3>1, <3>5, <5>1 DEF Upward
      <4> QED
        BY <4>1, <4>2
    <3>7. Upward(g, e, n + 1)
      BY <3>1, <3>5, <3>6 DEF Upward
    <3> QED
      BY <3>2, <3>4, <3>7
  <2> HIDE DEF T
  <2>3. T \in SUBSET (0..Len(exposures))
    BY DEF T
  <2> QED
    BY <1>0, <2>1, <2>2, <2>3, Steps
<1>4. PICK f \in [D -> SUBSET Written] : Upward(f, e, Len(exposures))
  <2>1. Len(exposures) \in T
    BY <1>0, <1>3
  <2> QED
    BY <2>1
<1>5. f = [n \in D |-> Body(f, n)]
  <2>1. ASSUME NEW n \in D
        PROVE  f[n] = Body(f, n)
    <3>1. CASE n = 0
      BY <1>4, <3>1 DEF Upward
    <3>2. CASE n # 0
      <4>1. n \in 1..Len(exposures)
        BY <1>0, <3>2
      <4> QED
        BY <1>4, <3>2, <4>1 DEF Upward
    <3> QED
      BY <3>1, <3>2
  <2> QED
    BY <1>4, <2>1
<1>6. up = [n \in D |-> Body(up, n)]
  BY <1>5
<1> HIDE DEF up, T
<1>7. up = f
  <2> DEFINE U == {i \in D : up[i] = f[i]}
  <2>1. \A i \in D : up[i] = Body(up, i) /\ f[i] = Body(f, i)
    BY <1>5, <1>6
  <2>2. 0 \in U
    <3>1. 0 \in D
      BY <1>0
    <3>2. Body(up, 0) = {e} /\ Body(f, 0) = {e}
      OBVIOUS
    <3>3. up[0] = Body(up, 0) /\ f[0] = Body(f, 0)
      BY <2>1, <3>1
    <3> HIDE DEF Body
    <3> QED BY <3>1, <3>2, <3>3
  <2>3. ASSUME NEW i \in U, i < Len(exposures) PROVE i + 1 \in U
    <3>1. i \in D /\ i + 1 \in D /\ i + 1 # 0 /\ (i + 1) - 1 = i /\ up[i] = f[i]
      BY <1>0, <2>3
    <3>2. up[i + 1] = Body(up, i + 1) /\ f[i + 1] = Body(f, i + 1)
      BY <2>1, <3>1
    <3>3. Body(up, i + 1) = Body(f, i + 1)
      BY <3>1
    <3> QED
      BY <3>1, <3>2, <3>3
  <2> HIDE DEF U
  <2>4. U \in SUBSET (0..Len(exposures))
    BY DEF U
  <2>5. U = D
    BY <1>0, <2>2, <2>3, <2>4, Steps
  <2>6. \A i \in D : up[i] = f[i]
    BY <2>5 DEF U
  <2>7. up = [n \in D |-> up[n]] /\ f = [n \in D |-> f[n]]
    <3>1. up = [n \in D |-> up[n]]
      BY <1>6, Zenon
    <3> QED BY <3>1, <1>4
  <2> QED BY <2>6, <2>7
<1> QED BY <1>1, <1>4, <1>7

\* What is known of the exposures above e, up to the n-th: from e on each has
\* its parent among them, but for the topmost, and no two are of one rank.
Chain(U, e, n, t) ==
  /\ U \in SUBSET Written /\ e \in U /\ t \in U
  /\ \A q \in U : t.rank <= q.rank
  /\ \A p, q \in U : p.rank = q.rank => p = q
  /\ \A c \in U : c # t => \E q \in U : q.id = c.parent
  /\ \A p \in U : /\ p.product = e.product /\ p.from <= e.from /\ e.to <= p.to
                  /\ p = e \/ p.rank < e.rank
  /\ t.parent = 0 \/ Cardinality(U) = n + 1

LEMMA ChainBegins ==
  ASSUME WrittenTypes, NEW e \in Written
  PROVE  Chain({e}, e, 0, e)
<1>1. e.rank \in Nat /\ e.from \in Nat /\ e.to \in Nat
  BY WrittenIs
<1>2. Cardinality({e}) = 1
  BY FS_Singleton
<1> QED BY <1>1, <1>2 DEF Chain

LEMMA ChainGrows ==
  ASSUME WrittenTypes, UniqueIds, Parented, NEW e \in Written, NEW n \in Nat, NEW U, NEW t,
         Chain(U, e, n, t)
  PROVE  \E x : Chain(U \cup {q \in Written : \E c \in U : c.parent = q.id}, e, n + 1, x)
<1> DEFINE V == U \cup {q \in Written : \E c \in U : c.parent = q.id}
<1>u. /\ U \in SUBSET Written /\ e \in U /\ t \in U /\ t \in Written
      /\ \A q \in U : t.rank <= q.rank
      /\ \A p, q \in U : p.rank = q.rank => p = q
      /\ \A c \in U : c # t => \E q \in U : q.id = c.parent
      /\ \A p \in U : /\ p.product = e.product /\ p.from <= e.from /\ e.to <= p.to
                      /\ p = e \/ p.rank < e.rank
      /\ t.parent = 0 \/ Cardinality(U) = n + 1
  BY DEF Chain
<1>w. \A q \in Written : /\ q.id \in Nat \ {0} /\ q.parent \in Nat /\ q.rank \in Nat
                         /\ q.from \in Nat /\ q.to \in Nat
  BY WrittenIs
<1>1. CASE t.parent = 0
  <2>1. ASSUME NEW q \in Written, NEW c \in U, c.parent = q.id PROVE q \in U
    <3>1. c # t
      BY <1>1, <1>w, <2>1
    <3>2. PICK o \in U : o.id = c.parent
      BY <1>u, <3>1
    <3>3. o = q
      BY <1>u, <2>1, <3>2 DEF UniqueIds
    <3> QED BY <3>2, <3>3
  <2>2. V = U
    BY <2>1
  <2>3. Chain(U, e, n + 1, t)
    BY <1>u, <1>1 DEF Chain
  <2> QED BY <2>2, <2>3
<1>2. CASE t.parent # 0
  <2>1. PICK x \in Written : x.id = t.parent /\ Nests(t, x)
    BY <1>u, <1>2 DEF Parented
  <2>2. x.product = t.product /\ x.rank < t.rank /\ x.from <= t.from /\ t.to <= x.to
    BY <2>1 DEF Nests
  <2>n. /\ x.rank \in Nat /\ t.rank \in Nat /\ e.rank \in Nat
        /\ x.from \in Nat /\ t.from \in Nat /\ e.from \in Nat
        /\ x.to \in Nat /\ t.to \in Nat /\ e.to \in Nat
    BY <1>u, <1>w
  <2>3. \A q \in U : x.rank < q.rank /\ q.rank \in Nat
    <3>1. ASSUME NEW q \in U PROVE x.rank < q.rank /\ q.rank \in Nat
      <4>1. t.rank <= q.rank /\ q.rank \in Nat
        BY <1>u, <1>w
      <4> QED BY <2>2, <2>n, <4>1
    <3> QED BY <3>1
  <2>4. x \notin U
    BY <2>3, <2>n
  <2>5. ASSUME NEW q \in Written, NEW c \in U, c.parent = q.id PROVE q \in U \/ q = x
    <3>1. CASE c = t
      BY <2>1, <2>5, <3>1 DEF UniqueIds
    <3>2. CASE c # t
      <4>1. PICK o \in U : o.id = c.parent
        BY <1>u, <3>2
      <4>2. o = q
        BY <1>u, <2>5, <4>1 DEF UniqueIds
      <4> QED BY <4>1, <4>2
    <3> QED BY <3>1, <3>2
  <2>6. V = U \cup {x}
    <3>1. x \in V
      BY <1>u, <2>1
    <3> QED BY <2>5, <3>1
  <2>7. U \cup {x} \in SUBSET Written /\ e \in U \cup {x} /\ x \in U \cup {x}
    BY <1>u
  <2>8. \A q \in U \cup {x} : x.rank <= q.rank
    BY <2>3, <2>n
  <2>9. \A p, q \in U \cup {x} : p.rank = q.rank => p = q
    <3>1. SUFFICES ASSUME NEW p \in U \cup {x}, NEW q \in U \cup {x}, p.rank = q.rank PROVE p = q
      OBVIOUS
    <3>2. CASE p \in U /\ q \in U
      BY <1>u, <3>1, <3>2
    <3>3. CASE p = x /\ q \in U
      BY <2>3, <2>n, <3>1, <3>3
    <3>4. CASE p \in U /\ q = x
      BY <2>3, <2>n, <3>1, <3>4
    <3> QED BY <3>2, <3>3, <3>4
  <2>10. \A c \in U \cup {x} : c # x => \E q \in U \cup {x} : q.id = c.parent
    BY <1>u, <2>1
  <2>11. \A p \in U \cup {x} : /\ p.product = e.product /\ p.from <= e.from /\ e.to <= p.to
                               /\ p = e \/ p.rank < e.rank
    <3>1. x.product = e.product /\ x.from <= e.from /\ e.to <= x.to
      <4>1. t.product = e.product /\ t.from <= e.from /\ e.to <= t.to
        BY <1>u
      <4> QED BY <4>1, <2>2, <2>n
    <3>2. x.rank < e.rank
      BY <1>u, <2>3
    <3> QED BY <1>u, <3>1, <3>2
  <2>12. Cardinality(U \cup {x}) = n + 1 + 1
    <3>1. Cardinality(U) = n + 1
      BY <1>u, <1>2
    <3>2. IsFiniteSet(U)
      BY <1>u, WrittenIs, FS_Subset
    <3> QED BY <2>4, <3>1, <3>2, FS_AddElement
  <2>13. Chain(U \cup {x}, e, n + 1, x)
    BY <2>7, <2>8, <2>9, <2>10, <2>11, <2>12 DEF Chain
  <2> QED BY <2>6, <2>13
<1> QED BY <1>1, <1>2

\* What is above an exposure: one root, and a chain of ranks.
LEMMA AboveIs ==
  ASSUME WrittenTypes, UniqueIds, Parented, NEW e \in Written
  PROVE  /\ Above(e) \in SUBSET Written /\ e \in Above(e)
         /\ \E r \in Above(e) : \A p \in Above(e) : p.parent = 0 <=> p = r
         /\ \A p \in Above(e) : /\ p.product = e.product /\ p.from <= e.from /\ e.to <= p.to
                                /\ p = e \/ p.rank < e.rank
<1>1. PICK N \in Nat : N = Len(exposures)
  BY WrittenIs
<1>2. PICK up \in [0..N -> SUBSET Written] : Above(e) = up[N] /\ Upward(up, e, N)
  BY <1>1, AboveUnfolds
<1> DEFINE T == {n \in 0..N : \E t : Chain(up[n], e, n, t)}
<1>3. 0 \in T
  <2>1. up[0] = {e} /\ 0 \in 0..N
    BY <1>2 DEF Upward
  <2>2. Chain(up[0], e, 0, e)
    BY <2>1, ChainBegins
  <2> QED BY <2>1, <2>2
<1>4. ASSUME NEW n \in T, n < N PROVE n + 1 \in T
  <2>1. PICK t : Chain(up[n], e, n, t)
    BY <1>4
  <2>2. n \in Nat /\ n + 1 \in 1..N /\ n + 1 \in 0..N /\ (n + 1) - 1 = n
    BY <1>4
  <2>3. up[n + 1] = up[n] \cup {q \in Written : \E c \in up[n] : c.parent = q.id}
    BY <1>2, <2>2 DEF Upward
  <2>4. PICK U : U = up[n]
    OBVIOUS
  <2>5. Chain(U, e, n, t)
    BY <2>1, <2>4
  <2>6. \E x : Chain(U \cup {q \in Written : \E c \in U : c.parent = q.id}, e, n + 1, x)
    BY <2>2, <2>5, ChainGrows
  <2>7. up[n + 1] = U \cup {q \in Written : \E c \in U : c.parent = q.id}
    BY <2>3, <2>4
  <2>8. \E x : Chain(up[n + 1], e, n + 1, x)
    BY <2>6, <2>7
  <2> QED BY <2>2, <2>8
<1>5. N \in T
  <2> HIDE DEF T
  <2>1. T \in SUBSET (0..N)
    BY DEF T
  <2>2. T = 0..N
    BY <1>3, <1>4, <2>1, Steps
  <2> QED BY <2>2
<1>6. PICK t : Chain(up[N], e, N, t)
  BY <1>5
<1> DEFINE A == Above(e)
<1>7. /\ A \in SUBSET Written /\ e \in A /\ t \in A
      /\ \A q \in A : t.rank <= q.rank
      /\ \A p, q \in A : p.rank = q.rank => p = q
      /\ \A p \in A : /\ p.product = e.product /\ p.from <= e.from /\ e.to <= p.to
                      /\ p = e \/ p.rank < e.rank
      /\ t.parent = 0 \/ Cardinality(A) = N + 1
  BY <1>2, <1>6 DEF Chain
<1> HIDE DEF A
<1>8. t.parent = 0
  <2>1. SUFFICES ASSUME Cardinality(A) = N + 1 PROVE FALSE
    BY <1>7
  <2>2. IsFiniteSet(Written) /\ Cardinality(Written) \in Nat /\ Cardinality(Written) <= N
    BY <1>1, WrittenIs
  <2>3. Cardinality(A) <= Cardinality(Written)
    BY <1>7, <2>2, FS_Subset
  <2> QED BY <2>1, <2>2, <2>3
<1>9. \A p \in A : p.parent = 0 <=> p = t
  <2>1. SUFFICES ASSUME NEW p \in A, p.parent = 0 PROVE p = t
    BY <1>8
  <2>2. p.rank = 0 /\ t.rank = 0
    BY <1>7, <1>8, <2>1 DEF Parented
  <2> QED BY <1>7, <2>2
<1> QED BY <1>7, <1>9 DEF A

LEMMA HierarchyIs ==
  ASSUME WrittenTypes, Started => UniqueIds /\ Parented
  PROVE  HierarchyHolds
<1> SUFFICES ASSUME Started, NEW e \in Written
             PROVE  /\ Cardinality({p \in Above(e) : p.parent = 0}) = 1
                    /\ \A p \in Above(e) :
                         /\ p.product = e.product /\ p.from <= e.from /\ e.to <= p.to
                         /\ p # e => e \notin Above(p)
  BY DEF HierarchyHolds
<1>1. PICK r \in Above(e) : \A p \in Above(e) : p.parent = 0 <=> p = r
  BY AboveIs
<1>2. {p \in Above(e) : p.parent = 0} = {r}
  BY <1>1
<1>3. Cardinality({p \in Above(e) : p.parent = 0}) = 1
  BY <1>2, FS_Singleton
<1>4. ASSUME NEW p \in Above(e)
      PROVE  /\ p.product = e.product /\ p.from <= e.from /\ e.to <= p.to
             /\ p # e => e \notin Above(p)
  <2>1. p \in Written /\ p.product = e.product /\ p.from <= e.from /\ e.to <= p.to
        /\ (p = e \/ p.rank < e.rank)
    BY AboveIs
  <2>2. ASSUME p # e, e \in Above(p) PROVE FALSE
    <3>1. e = p \/ e.rank < p.rank
      BY <2>1, <2>2, AboveIs
    <3>2. e.rank \in Nat /\ p.rank \in Nat
      BY <2>1, WrittenIs
    <3> QED BY <2>1, <2>2, <3>1, <3>2
  <2> QED BY <2>1, <2>2
<1> QED BY <1>3, <1>4

-----------------------------------------------------------------------------
(* Areas in order *)

Earlier(M, e) == {o \in M : Precedes(o, e)}
Place(M, e) == Cardinality(Earlier(M, e))

LEMMA PlacesRise ==
  ASSUME WrittenTypes, NEW M \in SUBSET Written, NEW a \in M, NEW b \in M, Precedes(a, b)
  PROVE  Place(M, a) \in Nat /\ Place(M, b) \in Nat /\ Place(M, a) < Place(M, b)
<1>1. IsFiniteSet(M)
  BY WrittenIs, FS_Subset
<1>2. \A e \in M : e.rank \in Nat /\ e.id \in Nat
  BY WrittenIs
<1>3. IsFiniteSet(Earlier(M, a)) /\ IsFiniteSet(Earlier(M, b))
  BY <1>1, FS_Subset DEF Earlier
<1>4. a \notin Earlier(M, a)
  BY <1>2 DEF Earlier, Precedes
<1>5. Earlier(M, a) \cup {a} \in SUBSET Earlier(M, b)
  <2>1. ASSUME NEW o \in M, Precedes(o, a) PROVE Precedes(o, b)
    <3>1. /\ o.rank \in Nat /\ a.rank \in Nat /\ b.rank \in Nat
          /\ o.id \in Nat /\ a.id \in Nat /\ b.id \in Nat
      BY <1>2
    <3> QED BY <2>1, <3>1 DEF Precedes
  <2> QED BY <2>1 DEF Earlier
<1>6. Cardinality(Earlier(M, a) \cup {a}) = Cardinality(Earlier(M, a)) + 1
  BY <1>3, <1>4, FS_AddElement
<1>7. Cardinality(Earlier(M, a) \cup {a}) <= Cardinality(Earlier(M, b))
  BY <1>3, <1>5, FS_Subset
<1>8. Cardinality(Earlier(M, a)) \in Nat /\ Cardinality(Earlier(M, b)) \in Nat
  BY <1>3, FS_CardinalityType
<1> QED BY <1>6, <1>7, <1>8 DEF Place

\* Of two areas one precedes the other.
LEMMA OnePrecedes ==
  ASSUME WrittenTypes, UniqueIds, NEW a \in Written, NEW b \in Written, a # b
  PROVE  Precedes(a, b) \/ Precedes(b, a)
<1>1. a.rank \in Nat /\ b.rank \in Nat /\ a.id \in Nat /\ b.id \in Nat
  BY WrittenIs
<1>2. a.id # b.id
  BY DEF UniqueIds
<1> QED BY <1>1, <1>2 DEF Precedes

\* Every place is one area's.
LEMMA PlacesFill ==
  ASSUME WrittenTypes, UniqueIds, NEW M \in SUBSET Written, NEW i \in 1..Cardinality(M)
  PROVE  \E e \in M : Place(M, e) = i - 1
<1>1. IsFiniteSet(M) /\ Cardinality(M) \in Nat
  BY WrittenIs, FS_Subset, FS_CardinalityType
<1>2. PICK n \in Nat : n = Cardinality(M)
  BY <1>1
<1> DEFINE f == [e \in M |-> Place(M, e) + 1]
<1>3. ASSUME NEW e \in M PROVE Place(M, e) \in Nat /\ Place(M, e) + 1 \in 1..n
  <2>1. Earlier(M, e) \in SUBSET M /\ e \notin Earlier(M, e)
    <3>1. e.rank \in Nat /\ e.id \in Nat
      BY WrittenIs
    <3> QED BY <3>1 DEF Earlier, Precedes
  <2>2. Cardinality(Earlier(M, e)) <= n /\ (Cardinality(Earlier(M, e)) = n => Earlier(M, e) = M)
    BY <1>1, <1>2, <2>1, FS_Subset
  <2>3. Cardinality(Earlier(M, e)) \in Nat
    BY <1>1, <2>1, FS_Subset, FS_CardinalityType
  <2>4. Cardinality(Earlier(M, e)) # n
    BY <2>1, <2>2
  <2>5. PICK c \in Nat : c = Cardinality(Earlier(M, e))
    BY <2>3
  <2>6. c <= n /\ c # n
    BY <2>2, <2>4, <2>5
  <2>7. c + 1 \in 1..n
    BY <2>6
  <2> QED BY <2>5, <2>7 DEF Place
<1>4. f \in [M -> 1..n]
  BY <1>3
<1>5. ASSUME NEW a \in M, NEW b \in M, f[a] = f[b] PROVE a = b
  <2>1. Place(M, a) = Place(M, b)
    <3>1. Place(M, a) \in Nat /\ Place(M, b) \in Nat
      BY <1>3
    <3>2. Place(M, a) + 1 = Place(M, b) + 1
      BY <1>5
    <3> QED BY <3>1, <3>2
  <2>2. SUFFICES ASSUME a # b PROVE FALSE
    OBVIOUS
  <2>3. Precedes(a, b) \/ Precedes(b, a)
    BY <2>2, OnePrecedes
  <2>4. Precedes(a, b) => Place(M, a) \in Nat /\ Place(M, b) \in Nat /\ Place(M, a) < Place(M, b)
    BY PlacesRise
  <2>5. Precedes(b, a) => Place(M, a) \in Nat /\ Place(M, b) \in Nat /\ Place(M, b) < Place(M, a)
    BY PlacesRise
  <2> QED BY <2>1, <2>3, <2>4, <2>5
<1>6. f \in Injection(M, 1..n)
  BY <1>4, <1>5 DEF Injection, IsInjective
<1>7. IsFiniteSet(1..n) /\ Cardinality(1..n) = n
  <2>1. 1 \in Int /\ n \in Int
    OBVIOUS
  <2>2. IsFiniteSet(1..n) /\ Cardinality(1..n) = IF 1 > n THEN 0 ELSE n - 1 + 1
    BY <2>1, FS_Interval
  <2> QED BY <2>2
<1>8. f \in Surjection(M, 1..n)
  BY <1>2, <1>6, <1>7, FS_Injection
<1>9. PICK e \in M : f[e] = i
  BY <1>2, <1>8 DEF Surjection
<1>10. Place(M, e) \in Nat /\ Place(M, e) + 1 = i
  BY <1>3, <1>9
<1> QED BY <1>10

LEMMA CandidatesAre ==
  ASSUME WrittenTypes, UniqueIds, NEW f
  PROVE  /\ Cardinality(Matches(f)) \in Nat /\ DOMAIN FrameCandidates(f) = 1..Cardinality(Matches(f))
         /\ \A i \in DOMAIN FrameCandidates(f) :
              FrameCandidates(f)[i] \in Matches(f) /\ Place(Matches(f), FrameCandidates(f)[i]) = i - 1
<1> DEFINE M == Matches(f)
<1>1. M \in SUBSET Written
  BY DEF Matches
<1>2. IsFiniteSet(M) /\ Cardinality(M) \in Nat
  BY <1>1, WrittenIs, FS_Subset, FS_CardinalityType
<1>3. FrameCandidates(f) = [i \in 1..Cardinality(M) |-> CHOOSE e \in M : Place(M, e) = i - 1]
  BY DEF FrameCandidates, Place, Earlier
<1> HIDE DEF M
<1>4. ASSUME NEW i \in 1..Cardinality(M)
      PROVE  FrameCandidates(f)[i] \in M /\ Place(M, FrameCandidates(f)[i]) = i - 1
  <2>1. \E e \in M : Place(M, e) = i - 1
    BY <1>1, PlacesFill
  <2>2. FrameCandidates(f)[i] = CHOOSE e \in M : Place(M, e) = i - 1
    BY <1>3
  <2> QED BY <2>1, <2>2
<1> QED BY <1>2, <1>3, <1>4 DEF M

LEMMA MappedIs ==
  ASSUME WrittenTypes, mapped.time \in Nat, Started => UniqueIds /\ Parented,
         Started => \A e \in Written : e.tags \subseteq ProductTags[e.product]
  PROVE  MappedIsGrounded
<1> DEFINE c == FrameCandidates(mapped)
           M == Matches(mapped)
<1> SUFFICES ASSUME Started
             PROVE  /\ Result(mapped) = "matched" =>
                         /\ \A i, j \in DOMAIN c : c[i].product = c[j].product /\ (i < j => c[j] \notin Above(c[i]))
                         /\ \A i \in DOMAIN c : c[i].tags \subseteq ProductTags[c[1].product]
                    /\ Result(mapped) = "video_time_out_of_range" => Matches(mapped) = {}
  BY Zenon DEF MappedIsGrounded
<1>1. PICK n \in Nat : n = Cardinality(M)
  BY CandidatesAre
<1>2. DOMAIN c = 1..n /\ \A i \in 1..n : c[i] \in M /\ Place(M, c[i]) = i - 1
  BY <1>1, CandidatesAre
<1>3. M \subseteq Written
  BY DEF Matches
<1>4. Result(mapped) = "video_time_out_of_range" => M = {}
  <2>1. SUFFICES ASSUME mapped.time >= Duration, NEW e \in M PROVE FALSE
    BY DEF Result
  <2>2. mapped.time < e.to /\ e.to <= Duration /\ e.to \in Nat
    BY <1>3, WrittenIs DEF Matches, Parented
  <2>3. Duration \in Nat
    BY ContentAssumption
  <2> QED BY <2>1, <2>2, <2>3
<1>5. ASSUME Result(mapped) = "matched", NEW a \in M, NEW b \in M PROVE a.product = b.product
  <2> DEFINE P == {e.product : e \in M}
  <2>1. Cardinality(P) = 1
    BY <1>5 DEF Result
  <2>2. IsFiniteSet(M)
    BY <1>3, WrittenIs, FS_Subset
  <2> DEFINE g == [e \in M |-> e.product]
  <2>3. g \in Surjection(M, P)
    BY DEF Surjection
  <2>4. IsFiniteSet(P)
    BY <2>2, <2>3, FS_Surjection
  <2>5. \E p : P = {p}
    <3> HIDE DEF P
    <3> QED BY <2>1, <2>4, FS_Singleton
  <2> QED BY <2>5
<1> HIDE DEF c, M
<1>6. ASSUME NEW i \in 1..n, NEW j \in 1..n, i < j PROVE c[j] \notin Above(c[i])
  <2>1. c[i] \in M /\ c[j] \in M /\ Place(M, c[i]) = i - 1 /\ Place(M, c[j]) = j - 1
    BY <1>2
  <2>2. PICK a \in M : a = c[i]
    BY <2>1
  <2>3. PICK b \in M : b = c[j]
    BY <2>1
  <2>4. Place(M, a) < Place(M, b) /\ Place(M, a) \in Int /\ Place(M, b) \in Int
    BY <1>6, <2>1, <2>2, <2>3
  <2>5. a # b /\ a \in Written /\ b \in Written /\ M \in SUBSET Written
    BY <1>3, <2>4
  <2>6. Precedes(a, b)
    <3>1. Precedes(a, b) \/ Precedes(b, a)
      BY <2>5, OnePrecedes
    <3>2. Precedes(b, a) => Place(M, b) < Place(M, a)
      BY <2>5, PlacesRise
    <3> QED BY <2>4, <3>1, <3>2
  <2>7. a.rank <= b.rank /\ a.rank \in Nat /\ b.rank \in Nat
    <3>1. a.rank \in Nat /\ b.rank \in Nat
      BY <2>5, WrittenIs
    <3> QED BY <2>6, <3>1 DEF Precedes
  <2>8. \A p \in Above(a) : p = a \/ p.rank < a.rank
    BY <2>5, AboveIs
  <2>9. b \notin Above(a)
    BY <2>5, <2>7, <2>8
  <2> QED BY <2>2, <2>3, <2>9
<1>7. ASSUME Result(mapped) = "matched"
      PROVE  /\ \A i, j \in DOMAIN c : c[i].product = c[j].product /\ (i < j => c[j] \notin Above(c[i]))
             /\ \A i \in DOMAIN c : c[i].tags \subseteq ProductTags[c[1].product]
  <2>1. \A i, j \in 1..n : c[i].product = c[j].product
    BY <1>2, <1>5, <1>7
  <2>2. ASSUME NEW i \in 1..n PROVE c[i].tags \subseteq ProductTags[c[1].product]
    <3>1. 1 \in 1..n
      OBVIOUS
    <3>2. c[i].product = c[1].product
      BY <2>1, <3>1
    <3>3. c[i] \in Written
      BY <1>2, <1>3
    <3> QED BY <3>2, <3>3
  <2> QED BY <1>2, <1>6, <2>1, <2>2
<1> QED BY <1>4, <1>7 DEF M

-----------------------------------------------------------------------------
(* What starts is sound *)

ContentInv ==
  /\ exposures \in Seq(Exposures) /\ definitions \in Seq(Definitions)
  /\ mapped \in MappedFrames \cup {NoFrame}
  /\ repository = "ready" => Sound

LEMMA SourcesIs ==
  ASSUME definitions \in Seq(Definitions), repository = "ready" => Sound
  PROVE  SourcesAreSingle
<1> SUFFICES ASSUME repository = "ready", Sound PROVE SourcesAreSingle
  BY DEF SourcesAreSingle
<1>1. environment.required => environment.video = "reviewed" /\ environment.file
  BY DEF Sound
<1>2. ASSUME SourcesUsed, NEW name \in Names
      PROVE  \E d \in Defined :
               \A other \in Defined, prefix \in UNION {PrefixesOf(x) : x \in Defined} :
                 IsStrictPrefix(prefix, name) /\ prefix \in PrefixesOf(other) => other = d
  <2>1. Cardinality(MatchingSources(name)) = 1
    BY <1>2 DEF Sound, Bound
  <2>2. PICK n \in Nat : n = Len(definitions) /\ DOMAIN definitions = 1..n
    OBVIOUS
  <2> DEFINE f == [i \in 1..n |-> definitions[i]]
  <2>3. f \in Surjection(1..n, Defined)
    BY <2>2 DEF Surjection, Defined
  <2>4. IsFiniteSet(1..n)
    <3>1. 1 \in Int /\ n \in Int
      OBVIOUS
    <3> QED BY <3>1, FS_Interval
  <2>5. IsFiniteSet(Defined)
    BY <2>3, <2>4, FS_Surjection
  <2>6. MatchingSources(name) \in SUBSET Defined
    BY DEF MatchingSources
  <2>7. IsFiniteSet(MatchingSources(name))
    BY <2>5, <2>6, FS_Subset
  <2>8. PICK d : MatchingSources(name) = {d}
    BY <2>1, <2>7, FS_Singleton
  <2>9. d \in Defined
    BY <2>6, <2>8
  <2>10. ASSUME NEW other \in Defined, NEW prefix, IsStrictPrefix(prefix, name),
                prefix \in PrefixesOf(other)
         PROVE  other = d
    <3>1. other \in MatchingSources(name)
      BY <2>10 DEF MatchingSources
    <3> QED BY <2>8, <3>1
  <2> QED BY <2>9, <2>10
<1> QED BY <1>1, <1>2 DEF SourcesAreSingle

LEMMA ContentHolds ==
  ASSUME ContentInv
  PROVE  ContentIsSound
<1>1. WrittenTypes
  BY DEF ContentInv, WrittenTypes
<1>2. Started => UniqueIds /\ Parented
  BY <1>1, MetadataGives DEF ContentInv, Started, Sound
<1>3. Started => \A e \in Written : e.tags \subseteq ProductTags[e.product]
  BY DEF ContentInv, Started, Sound, MetadataFits
<1>4. mapped.time \in Nat
  BY ContentAssumption DEF ContentInv, NoFrame
<1>5. HierarchyHolds
  BY <1>1, <1>2, HierarchyIs
<1>6. MappedIsGrounded
  BY <1>1, <1>2, <1>3, <1>4, MappedIs
<1>7. SourcesAreSingle
  BY SourcesIs DEF ContentInv
<1> QED BY <1>5, <1>6, <1>7 DEF ContentIsSound

LEMMA ContentBegins == ContentInit => ContentInv
BY DEF ContentInit, ContentInv

LEMMA SoundStays ==
  ASSUME UNCHANGED <<exposures, definitions, environment>>, Sound
  PROVE  Sound'
<1>1. exposures' = exposures /\ definitions' = definitions /\ environment' = environment
  OBVIOUS
<1>2. Written' = Written /\ Defined' = Defined
  BY <1>1 DEF Written, Defined
<1>3. MetadataValid' <=> MetadataValid
  BY <1>1, <1>2 DEF MetadataValid
<1>4. MetadataFits' <=> MetadataFits
  BY <1>1, <1>2 DEF MetadataFits
<1>5. SourcesUsed' <=> SourcesUsed
  BY <1>1 DEF SourcesUsed
<1>6. SourcesValid' <=> SourcesValid
  BY <1>1, <1>2 DEF SourcesValid
<1>7. \A name \in Names : Bound(name)' <=> Bound(name)
  BY <1>2 DEF Bound, MatchingSources
<1>8. (environment.file => MetadataValid /\ MetadataFits)'
  BY <1>1, <1>3, <1>4 DEF Sound
<1>9. (SourcesUsed => SourcesValid /\ \A name \in Names : Bound(name))'
  BY <1>1, <1>5, <1>6, <1>7 DEF Sound
<1>10. (/\ environment.catalogs
        /\ SourcesUsed => environment.manifest /\ environment.taxonomy
        /\ environment.video = "none" => ~environment.required
        /\ environment.video # "none" => environment.file /\ environment.video = "reviewed")'
  BY <1>1, <1>5 DEF Sound
<1> QED BY <1>8, <1>9, <1>10 DEF Sound

LEMMA ContentStep ==
  ASSUME ContentInv, ContentNext \/ UNCHANGED contentVars
  PROVE  ContentInv'
<1>1. ASSUME NEW e \in Exposures, Write(e) PROVE ContentInv'
  <2>1. exposures' \in Seq(Exposures)
    BY <1>1 DEF Write, ContentInv
  <2> QED BY <1>1, <2>1 DEF Write, ContentInv
<1>2. ASSUME NEW d \in Definitions, Define(d) PROVE ContentInv'
  <2>1. definitions' \in Seq(Definitions)
    BY <1>2 DEF Define, ContentInv
  <2> QED BY <1>2, <2>1 DEF Define, ContentInv
<1>3. ASSUME Start PROVE ContentInv'
  <2>1. repository' = "ready" => Sound
    BY <1>3 DEF Start
  <2>2. repository' = "ready" => Sound'
    BY <1>3, <2>1, SoundStays DEF Start
  <2> QED BY <1>3, <2>2 DEF Start, ContentInv
<1>4. ASSUME NEW f \in MappedFrames, Map(f) PROVE ContentInv'
  <2>1. repository' = "ready" => Sound'
    BY <1>4, SoundStays DEF Map, ContentInv
  <2> QED BY <1>4, <2>1 DEF Map, ContentInv
<1>5. ASSUME UNCHANGED contentVars PROVE ContentInv'
  <2>1. repository' = "ready" => Sound'
    BY <1>5, SoundStays DEF contentVars, ContentInv
  <2> QED BY <1>5, <2>1 DEF contentVars, ContentInv
<1> QED BY <1>1, <1>2, <1>3, <1>4, <1>5 DEF ContentNext

-----------------------------------------------------------------------------
(* The windows of the loop go forward *)

Forward(w) ==
  /\ w.start.epoch = w.end.epoch
  /\ w.start.at <= w.end.at /\ w.start.video <= w.end.video

\* An open window ends at the last frame, so that the comparison the loop
\* makes with its previous frame is one with the window.
OpenEndsLast ==
  window # NoWindow => frames # <<>> /\ window.end = frames[Len(frames)]

WindowInv ==
  /\ TypeOK
  /\ OpenEndsLast
  /\ \A k \in DOMAIN windows : Forward(windows[k])
  /\ window # NoWindow => Forward(window)

-----------------------------------------------------------------------------
\* close_window appends the open window or leaves the list as it is.
LEMMA ClosingAppends ==
  ASSUME NEW open, NEW w \in Window \cup {NoWindow}, NEW ws \in Seq(Window)
  PROVE  /\ Closing(open, w, ws) \in Seq(Window)
         /\ (\A k \in DOMAIN ws : Forward(ws[k])) /\ (w # NoWindow => Forward(w))
              => \A k \in DOMAIN Closing(open, w, ws) : Forward(Closing(open, w, ws)[k])
<1>1. CASE w = NoWindow \/ open = w.product
  BY <1>1 DEF Closing
<1>2. CASE ~(w = NoWindow \/ open = w.product)
  <2>1. Closing(open, w, ws) = Append(ws, w) /\ w \in Window
    BY <1>2 DEF Closing
  <2>2. Append(ws, w) \in Seq(Window)
    BY <2>1
  <2>3. ASSUME \A k \in DOMAIN ws : Forward(ws[k]), Forward(w),
               NEW k \in DOMAIN Append(ws, w)
        PROVE  Forward(Append(ws, w)[k])
    <3>1. CASE k = Len(ws) + 1
      BY <3>1, <2>3
    <3>2. CASE k # Len(ws) + 1
      <4>1. k \in DOMAIN ws /\ Append(ws, w)[k] = ws[k]
        BY <3>2
      <4>2. QED BY <4>1, <2>3, Zenon
    <3>3. QED BY <3>1, <3>2
  <2>4. QED BY <1>2, <2>1, <2>2, <2>3
<1>3. QED BY <1>1, <1>2

\* Times and positions are numbers.
LEMMA FrameNumbers == ASSUME NEW f \in Frame PROVE f.at \in Nat /\ f.video \in Nat
<1>1. f.at \in Times /\ f.video \in Positions
  BY DEF Frame
<1>2. QED BY <1>1, EvidenceAssumption

\* A continuous frame extends a forward window forward.
LEMMA ExtendedForward ==
  ASSUME NEW w \in Window, Forward(w), NEW f \in Frame, ~Discontinuous(w.end, f),
         NEW b \in BOOLEAN
  PROVE  /\ [w EXCEPT !.end = f, !.returned = b] \in Window
         /\ Forward([w EXCEPT !.end = f, !.returned = b])
<1> DEFINE v == [w EXCEPT !.end = f, !.returned = b]
<1>1. v \in Window /\ v.start = w.start /\ v.end = f
  BY DEF Window
<1>2. w.start \in Frame /\ w.end \in Frame
  BY DEF Window
<1>3. /\ f.at \in Nat /\ f.video \in Nat /\ w.end.at \in Nat /\ w.end.video \in Nat
      /\ w.start.at \in Nat /\ w.start.video \in Nat
  BY <1>2, FrameNumbers
<1> HIDE DEF v
<1>4. w.start.epoch = f.epoch /\ w.start.at <= f.at /\ w.start.video <= f.video
  BY <1>3 DEF Forward, Discontinuous
<1>5. v \in Window /\ Forward(v)
  BY <1>1, <1>4 DEF Forward
<1>6. QED BY <1>5 DEF v

\* A new window is forward.
LEMMA FreshForward ==
  ASSUME NEW p \in Products, NEW f \in Frame, NEW b \in BOOLEAN
  PROVE  /\ [product |-> p, start |-> f, end |-> f, returned |-> b] \in Window
         /\ Forward([product |-> p, start |-> f, end |-> f, returned |-> b])
<1>1. f.at \in Nat /\ f.video \in Nat
  BY FrameNumbers
<1>2. Forward([product |-> p, start |-> f, end |-> f, returned |-> b])
  BY <1>1 DEF Forward
<1>3. QED BY <1>2 DEF Window

\* The counters stay natural numbers.
LEMMA BumpType ==
  ASSUME NEW c \in [Products -> Nat], NEW p \in Products \cup {None}, NEW n \in Nat
  PROVE  Bump(c, p, n) \in [Products -> Nat]
BY DEF Bump

-----------------------------------------------------------------------------
\* The loop starts with no window.
LEMMA InitInv == Init => WindowInv
<1> SUFFICES ASSUME Init PROVE WindowInv
  OBVIOUS
<1>1. /\ frames = <<>> /\ windows = <<>> /\ window = NoWindow
      /\ product = None /\ seen = {} /\ resets = 0 /\ done = FALSE
      /\ dwell = [p \in Products |-> 0] /\ returns = [p \in Products |-> 0]
      /\ comparisons = [p \in Products |-> 0]
  BY DEF Init
<1>2. frames \in Seq(Frame) /\ Len(frames) <= MaxFrames /\ windows \in Seq(Window)
  BY <1>1, EvidenceAssumption
<1>3. \A k \in DOMAIN windows : Forward(windows[k])
  BY <1>1
<1>4. QED BY <1>1, <1>2, <1>3 DEF WindowInv, TypeOK, OpenEndsLast

\* One frame keeps the invariant.
LEMMA StepInv == ASSUME WindowInv, Step PROVE WindowInv'
<1>1. PICK f \in Frame : MayFollow(f) /\ Analyse(f)
  BY DEF Step
<1> DEFINE first == frames = <<>>
           last == frames[Len(frames)]
           break == ~first /\ Discontinuous(last, f)
           continues == ~first /\ ~break
           p == Mapped(f)
           before == IF break THEN None ELSE product
           known == Known(break)
           open == IF break THEN NoWindow ELSE window
           cut == IF break THEN Closing(None, window, windows) ELSE windows
           back == continues /\ before # p /\ p \in known
           returned == p # None /\ (back \/ returns[p] > 0)
<1>2. /\ frames' = Append(frames, f)
      /\ resets' = IF break THEN resets + 1 ELSE resets
      /\ product' = p
      /\ seen' = IF p = None THEN known ELSE known \cup {p}
      /\ dwell' = IF continues THEN Bump(dwell, p, Watched(before, p, last, f)) ELSE dwell
      /\ comparisons' = IF continues THEN Bump(comparisons, p, 1) ELSE comparisons
      /\ returns' = IF back THEN Bump(returns, p, 1) ELSE returns
      /\ windows' = Closing(p, open, cut)
      /\ window' =
           CASE p = None -> NoWindow
             [] p # None /\ open.product = p ->
                  [open EXCEPT !.end = f, !.returned = @ \/ returned]
             [] OTHER -> [product |-> p, start |-> f, end |-> f, returned |-> returned]
  BY <1>1 DEF Analyse
<1>3. /\ p \in Products \cup {None}
      /\ known \in SUBSET Products
      /\ open \in Window \cup {NoWindow}
      /\ returned \in BOOLEAN
  BY DEF Mapped, Known, WindowInv, TypeOK
<1>4. frames \in Seq(Frame) /\ frames' \in Seq(Frame) /\ Len(frames') = Len(frames) + 1
      /\ Len(frames') <= MaxFrames /\ frames' # <<>> /\ frames'[Len(frames')] = f
  BY <1>1, <1>2, EvidenceAssumption DEF WindowInv, TypeOK, Step
<1>5. ~first => last \in Frame
  BY <1>4
<1>6. continues => ~Discontinuous(last, f) /\ f.at - last.at \in Nat
  <2> SUFFICES ASSUME continues PROVE ~Discontinuous(last, f) /\ f.at - last.at \in Nat
    OBVIOUS
  <2>1. ~Discontinuous(last, f)
    OBVIOUS
  <2>2. last.at \in Nat /\ f.at \in Nat
    BY <1>5, FrameNumbers
  <2> HIDE DEF last
  <2>3. QED BY <2>1, <2>2 DEF Discontinuous
<1>7. /\ cut \in Seq(Window) /\ \A k \in DOMAIN cut : Forward(cut[k])
      /\ open # NoWindow => Forward(open) /\ open.end = last /\ continues
  <2>1. window \in Window \cup {NoWindow} /\ windows \in Seq(Window)
    BY DEF WindowInv, TypeOK
  <2>2. cut \in Seq(Window) /\ \A k \in DOMAIN cut : Forward(cut[k])
    <3>1. CASE break
      <4>1. cut = Closing(None, window, windows)
        BY <3>1
      <4>2. QED BY <4>1, <2>1, ClosingAppends DEF WindowInv
    <3>2. CASE ~break
      BY <3>2, <2>1 DEF WindowInv
    <3>3. QED BY <3>1, <3>2
  <2>3. open # NoWindow => Forward(open) /\ open.end = last /\ continues
    BY DEF WindowInv, OpenEndsLast
  <2>4. QED BY <2>2, <2>3
<1>8. windows' \in Seq(Window) /\ \A k \in DOMAIN windows' : Forward(windows'[k])
  <2>1. windows' = Closing(p, open, cut)
    BY <1>2
  <2> HIDE DEF p, open, cut
  <2>2. QED BY <2>1, <1>3, <1>7, ClosingAppends
<1>9. window' \in Window \cup {NoWindow} /\ (window' # NoWindow => Forward(window') /\ window'.end = f)
  <2>1. CASE p = None
    BY <1>2, <2>1
  <2>2. CASE p # None /\ open.product = p
    <3>1. open \in Window /\ open # NoWindow
      BY <2>2, <1>3, EvidenceAssumption DEF NoWindow, None, Window
    <3>2. Forward(open) /\ ~Discontinuous(open.end, f)
      BY <3>1, <1>7, <1>6
    <3> DEFINE b == open.returned \/ returned
    <3>3. b \in BOOLEAN /\ window' = [open EXCEPT !.end = f, !.returned = b]
      BY <1>2, <2>2, <3>1, <1>3 DEF Window
    <3> HIDE DEF b, open
    <3>4. [open EXCEPT !.end = f, !.returned = b] \in Window
          /\ Forward([open EXCEPT !.end = f, !.returned = b])
      BY <3>1, <3>2, <3>3, ExtendedForward
    <3>5. [open EXCEPT !.end = f, !.returned = b].end = f
      BY <3>1 DEF Window
    <3>6. QED BY <3>3, <3>4, <3>5
  <2>3. CASE p # None /\ open.product # p
    <3>1. window' = [product |-> p, start |-> f, end |-> f, returned |-> returned]
      BY <1>2, <2>3
    <3>2. p \in Products
      BY <2>3, <1>3
    <3> HIDE DEF p, returned
    <3>3. QED BY <3>1, <3>2, <1>3, FreshForward
  <2>4. QED BY <2>1, <2>2, <2>3
<1>10. /\ product' \in Products \cup {None} /\ seen' \subseteq Products
       /\ resets' \in Nat /\ done' \in BOOLEAN
  <2>1. done' = done
    BY DEF Step
  <2>2. resets \in Nat /\ done \in BOOLEAN
    BY DEF WindowInv, TypeOK
  <2>3. resets' \in Nat
    BY <1>2, <2>2
  <2>4. product' \in Products \cup {None} /\ seen' \subseteq Products
    <3> HIDE DEF p, known
    <3>1. QED BY <1>2, <1>3
  <2>5. QED BY <2>1, <2>2, <2>3, <2>4
<1>11. dwell' \in [Products -> Nat] /\ comparisons' \in [Products -> Nat]
       /\ returns' \in [Products -> Nat]
  <2>1. dwell \in [Products -> Nat] /\ comparisons \in [Products -> Nat]
        /\ returns \in [Products -> Nat]
    BY DEF WindowInv, TypeOK
  <2>2. continues => Watched(before, p, last, f) \in Nat
    BY <1>6 DEF Watched
  <2> HIDE DEF p, before, last, continues, back
  <2>3. QED BY <1>2, <1>3, <2>1, <2>2, BumpType
<1>12. OpenEndsLast'
  BY <1>4, <1>9 DEF OpenEndsLast
<1>13. QED BY <1>4, <1>8, <1>9, <1>10, <1>11, <1>12 DEF WindowInv, TypeOK, NoWindow, None

\* The end of the loop closes the last window.
LEMMA FinishInv == ASSUME WindowInv, Finish PROVE WindowInv'
<1>1. windows' = Closing(None, window, windows) /\ window' = NoWindow /\ done' = TRUE
      /\ UNCHANGED <<frames, product, seen, dwell, returns, comparisons, resets>>
  BY DEF Finish
<1>2. windows' \in Seq(Window) /\ \A k \in DOMAIN windows' : Forward(windows'[k])
  BY <1>1, ClosingAppends DEF WindowInv, TypeOK
<1>3. QED BY <1>1, <1>2 DEF WindowInv, TypeOK, OpenEndsLast, NoWindow, None

\* Every frame keeps the windows going forward.
LEMMA NextInv == WindowInv /\ [Next]_vars => WindowInv'
<1>1. CASE UNCHANGED vars
  BY <1>1 DEF vars, WindowInv, TypeOK, OpenEndsLast, NoWindow, None
<1>2. QED BY <1>1, StepInv, FinishInv DEF Next

\* The invariant holds in every state.
LEMMA AlwaysWindowInv == Spec => []WindowInv
BY InitInv, NextInv, PTL DEF Spec

\* The variables of summarize_observations keep their types.
THEOREM TypeCorrect == Spec => []TypeOK
<1>1. WindowInv => TypeOK
  BY DEF WindowInv
<1>2. QED BY <1>1, AlwaysWindowInv, PTL

\* No timeline of any length makes the loop build a window that
\* EvidenceWindowV2 would refuse as not forward.
THEOREM NoBackwardWindow == Spec => []WindowsGoForward
<1>1. WindowInv => WindowsGoForward
  <2> SUFFICES ASSUME WindowInv, NEW w \in ToSet(AllWindows) PROVE Forward(w)
    BY DEF WindowsGoForward, Forward
  <2>1. windows \in Seq(Window) /\ window \in Window \cup {NoWindow}
    BY DEF WindowInv, TypeOK
  <2>2. CASE window = NoWindow
    BY <2>2, <2>1 DEF AllWindows, ToSet, WindowInv
  <2>3. CASE window # NoWindow
    <3>1. PICK k \in DOMAIN Append(windows, window) : w = Append(windows, window)[k]
      BY <2>3 DEF AllWindows, ToSet
    <3>2. CASE k = Len(windows) + 1
      BY <3>1, <3>2, <2>1, <2>3 DEF WindowInv
    <3>3. CASE k # Len(windows) + 1
      <4>1. k \in DOMAIN windows /\ w = windows[k]
        BY <3>1, <3>3, <2>1, <2>3
      <4>2. QED BY <4>1, Zenon DEF WindowInv
    <3>4. QED BY <3>2, <3>3
  <2>4. QED BY <2>2, <2>3
<1>2. QED BY <1>1, AlwaysWindowInv, PTL
-----------------------------------------------------------------------------
(* What is counted is what the timeline shows: the invariant.               *)

\* The frames are in analysis order.
Ordered == \A i, j \in Indices : i < j => Before(frames[i], frames[j])

\* A window is of frames i..j.
SpanOf(w, i, j) == w.start = frames[i] /\ w.end = frames[j] /\ w.product = Look(i)

\* The windows are the maximal stretches, in order.
SpansInv ==
  /\ \A k \in DOMAIN AllWindows :
       \E i, j \in Indices : SpanOf(AllWindows[k], i, j) /\ Maximal(i, j)
  /\ \A i, j \in Indices :
       Maximal(i, j) => \E k \in DOMAIN AllWindows : SpanOf(AllWindows[k], i, j)
  /\ \A k, l \in DOMAIN AllWindows : k < l => Before(AllWindows[k].end, AllWindows[l].start)

\* What the loop carries over from frame to frame.
LoopInv ==
  ~done =>
    /\ product = IF frames = <<>> THEN None ELSE Look(Len(frames))
    /\ window = NoWindow <=> product = None
    /\ window # NoWindow => window.product = product
    /\ \A q \in Products : q \in seen <=>
         \E k \in Indices : Look(k) = q /\ \A m \in (k + 1)..Len(frames) : ~Starts(m)

DwellInv == \A p \in Products : IsFiniteSet(Covered(p)) /\ dwell[p] = Cardinality(Covered(p))

ExactInv == WindowInv /\ Ordered /\ SpansInv /\ LoopInv /\ DwellInv /\ ReturnsAreComebacks

\* Frame f is continuous with the last one, and on the same product.
Continues(f) == frames # <<>> /\ ~Discontinuous(frames[Len(frames)], f)
Prolongs(f) == Continues(f) /\ Mapped(f) # None /\ Mapped(f) = Look(Len(frames))
ComesBack(f) == Continues(f) /\ Mapped(f) # Look(Len(frames)) /\ Mapped(f) \in seen
Returned(f) == Mapped(f) # None /\ (ComesBack(f) \/ returns[Mapped(f)] > 0)

\* One more frame changes nothing of what came before it.
LEMMA Grown ==
  ASSUME frames \in Seq(Frame), NEW f \in Frame, frames' = Append(frames, f),
         NEW n \in Nat, n = Len(frames)
  PROVE  /\ Indices = 1..n /\ Len(frames') = n + 1
         /\ Indices' = 1..(n + 1)
         /\ frames'[n + 1] = f /\ Look(n + 1)' = Mapped(f)
         /\ \A i \in Indices : frames'[i] = frames[i] /\ Look(i)' = Look(i)
         /\ \A i \in Indices : Starts(i)' <=> Starts(i)
         /\ Starts(n + 1)' <=> ~Continues(f)
<1>1. /\ Indices = 1..n /\ Len(frames') = n + 1
      /\ Indices' = 1..(n + 1) /\ frames'[n + 1] = f
      /\ \A i \in Indices : frames'[i] = frames[i]
  BY DEF Indices
<1>2. Look(n + 1)' = Mapped(f) /\ \A i \in Indices : Look(i)' = Look(i)
  BY <1>1 DEF Look
<1>3. ASSUME NEW i \in Indices PROVE Starts(i)' <=> Starts(i)
  <2>1. CASE i = 1
    BY <2>1 DEF Starts
  <2>2. CASE i # 1
    <3>1. i - 1 \in Indices
      BY <1>1, <2>2
    <3>2. frames'[i - 1] = frames[i - 1] /\ frames'[i] = frames[i]
      BY <1>1, <3>1
    <3> QED BY <3>2 DEF Starts
  <2> QED BY <2>1, <2>2
<1>4. Starts(n + 1)' <=> ~Continues(f)
  <2>1. CASE frames = <<>>
    BY <2>1 DEF Starts, Continues
  <2>2. CASE frames # <<>>
    <3>1. n \in Indices /\ n + 1 # 1 /\ (n + 1) - 1 = n
      BY <1>1, <2>2
    <3>2. frames'[n] = frames[n]
      BY <1>1, <3>1
    <3> QED BY <1>1, <2>2, <3>1, <3>2 DEF Starts, Continues
  <2> QED BY <2>1, <2>2
<1> QED BY <1>1, <1>2, <1>3, <1>4

\* The stretches that end with the new frame, and the others.
LEMMA StretchNext ==
  ASSUME frames \in Seq(Frame), NEW f \in Frame, frames' = Append(frames, f),
         NEW n \in Nat, n = Len(frames)
  PROVE  /\ \A i, j \in Indices : Stretch(i, j)' <=> Stretch(i, j)
         /\ \A i \in Indices :
              Stretch(i, n + 1)' <=> Stretch(i, n) /\ Prolongs(f)
         /\ Stretch(n + 1, n + 1)' <=> Mapped(f) # None
<1>1. /\ n \in Nat /\ Indices = 1..n /\ Indices' = 1..(n + 1)
      /\ Look(n + 1)' = Mapped(f) /\ \A i \in Indices : Look(i)' = Look(i)
      /\ \A i \in Indices : Starts(i)' <=> Starts(i)
      /\ Starts(n + 1)' <=> ~Continues(f)
  BY Grown
<1>2. ASSUME NEW i \in Indices, NEW j \in Indices PROVE Stretch(i, j)' <=> Stretch(i, j)
  <2>1. \A k \in i..j : k \in Indices
    BY <1>1
  <2> QED BY <1>1, <2>1 DEF Stretch
<1>3. ASSUME NEW i \in Indices PROVE Stretch(i, n + 1)' <=> Stretch(i, n) /\ Prolongs(f)
  <2>1. i \in 1..n /\ i <= n /\ i <= n + 1 /\ n \in i..n /\ n + 1 \in i..(n + 1) /\ n + 1 # i
    BY <1>1
  <2>2. \A k : k \in i..(n + 1) <=> k \in i..n \/ k = n + 1
    BY <2>1, <1>1
  <2>3. \A k \in i..n : k \in Indices
    BY <1>1, <2>1
  <2>4. Stretch(i, n) <=> Look(i) # None /\ \A k \in i..n : Look(k) = Look(i) /\ (k # i => ~Starts(k))
    BY <2>1 DEF Stretch
  <2>5. Stretch(i, n + 1)' <=>
          /\ Look(i)' # None
          /\ \A k \in i..(n + 1) : Look(k)' = Look(i)' /\ (k # i => ~Starts(k)')
    BY <2>1 DEF Stretch
  <2>6. Stretch(i, n + 1)' <=>
          /\ Look(i) # None
          /\ \A k \in i..n : Look(k) = Look(i) /\ (k # i => ~Starts(k))
          /\ Mapped(f) = Look(i) /\ Continues(f)
    BY <1>1, <2>1, <2>2, <2>3, <2>5
  <2>7. Stretch(i, n) => Look(n) = Look(i) /\ Look(i) # None
    BY <2>1, <2>4
  <2> QED BY <2>4, <2>6, <2>7 DEF Prolongs
<1>4. Stretch(n + 1, n + 1)' <=> Mapped(f) # None
  <2>1. (n + 1)..(n + 1) = {n + 1} /\ n + 1 <= n + 1
    BY <1>1
  <2> QED BY <1>1, <2>1 DEF Stretch
<1> QED BY <1>2, <1>3, <1>4

\* The maximal ones.
LEMMA MaximalNext ==
  ASSUME frames \in Seq(Frame), NEW f \in Frame, frames' = Append(frames, f),
         NEW n \in Nat, n = Len(frames)
  PROVE  /\ \A i, j \in Indices : j < n => (Maximal(i, j)' <=> Maximal(i, j))
         /\ \A i \in Indices : Maximal(i, n)' <=> Maximal(i, n) /\ ~Prolongs(f)
         /\ \A i \in Indices : Maximal(i, n + 1)' <=> Maximal(i, n) /\ Prolongs(f)
         /\ Maximal(n + 1, n + 1)' <=> Mapped(f) # None /\ ~Prolongs(f)
<1>1. n \in Nat /\ Indices = 1..n /\ Indices' = 1..(n + 1) /\ Len(frames') = n + 1
  BY Grown
<1>2. /\ \A i, j \in Indices : Stretch(i, j)' <=> Stretch(i, j)
      /\ \A i \in Indices : Stretch(i, n + 1)' <=> Stretch(i, n) /\ Prolongs(f)
      /\ Stretch(n + 1, n + 1)' <=> Mapped(f) # None
  BY StretchNext
<1>3. Prolongs(f) => Stretch(n, n) /\ n \in Indices /\ n # 0
  <2>1. SUFFICES ASSUME Prolongs(f) PROVE Stretch(n, n) /\ n \in Indices /\ n # 0
    OBVIOUS
  <2>2. n # 0 /\ Look(n) # None
    BY <2>1 DEF Prolongs, Continues
  <2>3. n..n = {n} /\ n <= n /\ n \in Indices
    BY <1>1, <2>2
  <2> QED BY <2>2, <2>3 DEF Stretch
<1>4. \A i \in Indices : i = 1 \/ i - 1 \in Indices
  BY <1>1
<1>5. ASSUME NEW i \in Indices, NEW j \in Indices, j < n PROVE Maximal(i, j)' <=> Maximal(i, j)
  <2>1. j + 1 \in Indices /\ j # n /\ j # n + 1
    BY <1>1, <1>5
  <2> QED BY <1>1, <1>2, <1>4, <2>1 DEF Maximal
<1>6. ASSUME NEW i \in Indices PROVE Maximal(i, n)' <=> Maximal(i, n) /\ ~Prolongs(f)
  <2>1. n \in Indices /\ n # n + 1
    BY <1>1
  <2>2. Maximal(i, n)' <=> /\ Stretch(i, n)'
                           /\ i = 1 \/ ~Stretch(i - 1, n)'
                           /\ n = Len(frames') \/ ~Stretch(i, n + 1)'
    BY DEF Maximal
  <2>3. Maximal(i, n) <=> Stretch(i, n) /\ (i = 1 \/ ~Stretch(i - 1, n))
    BY DEF Maximal
  <2> QED BY <1>1, <1>2, <1>4, <2>1, <2>2, <2>3
<1>7. ASSUME NEW i \in Indices PROVE Maximal(i, n + 1)' <=> Maximal(i, n) /\ Prolongs(f)
  <2>2. Maximal(i, n + 1)' <=> Stretch(i, n + 1)' /\ (i = 1 \/ ~Stretch(i - 1, n + 1)')
    BY <1>1 DEF Maximal
  <2>3. Maximal(i, n) <=> Stretch(i, n) /\ (i = 1 \/ ~Stretch(i - 1, n))
    BY DEF Maximal
  <2> QED BY <1>2, <1>4, <2>2, <2>3
<1>8. Maximal(n + 1, n + 1)' <=> Mapped(f) # None /\ ~Prolongs(f)
  <2>1. Maximal(n + 1, n + 1)' <=>
          Stretch(n + 1, n + 1)' /\ (n + 1 = 1 \/ ~Stretch((n + 1) - 1, n + 1)')
    BY <1>1 DEF Maximal
  <2>2. (n + 1) - 1 = n /\ (n + 1 = 1 <=> n = 0) /\ (n # 0 => n \in Indices)
    BY <1>1
  <2>3. n # 0 => (Stretch(n, n + 1)' <=> Stretch(n, n) /\ Prolongs(f))
    BY <1>2, <2>2
  <2> QED BY <1>2, <1>3, <2>1, <2>2, <2>3
<1> QED BY <1>5, <1>6, <1>7, <1>8

\* What a step does to the loop's variables, by whether it prolongs a window.
Effect(f) ==
  /\ MayFollow(f) /\ frames' = Append(frames, f) /\ ~done /\ ~done'
  /\ Prolongs(f) =>
       /\ window \in Window /\ window.end = frames[Len(frames)]
       /\ window.product = Mapped(f) /\ window' \in Window
       /\ AllWindows = Append(windows, window)
       /\ AllWindows' = Append(windows, [window EXCEPT !.end = f, !.returned = @ \/ Returned(f)])
  /\ ~Prolongs(f) /\ Mapped(f) = None => AllWindows' = AllWindows
  /\ ~Prolongs(f) /\ Mapped(f) # None =>
       AllWindows' = Append(AllWindows, [product |-> Mapped(f), start |-> f, end |-> f,
                                         returned |-> Returned(f)])
  /\ window' = NoWindow <=> Mapped(f) = None
  /\ window' # NoWindow => window'.product = Mapped(f)
  /\ product' = Mapped(f)
  /\ seen' = (IF Continues(f) \/ frames = <<>> THEN seen ELSE {})
               \cup (IF Mapped(f) = None THEN {} ELSE {Mapped(f)})
  /\ dwell' = IF Prolongs(f)
              THEN [dwell EXCEPT ![Mapped(f)] = @ + (f.at - frames[Len(frames)].at)] ELSE dwell
  /\ returns' = IF ComesBack(f) THEN [returns EXCEPT ![Mapped(f)] = @ + 1] ELSE returns
  /\ comparisons' = IF Continues(f) /\ Mapped(f) # None
                    THEN [comparisons EXCEPT ![Mapped(f)] = @ + 1] ELSE comparisons

LEMMA StepEffect == ASSUME WindowInv, LoopInv, Step PROVE \E f \in Frame : Effect(f)
<1>1. PICK f \in Frame : MayFollow(f) /\ Analyse(f)
  BY DEF Step
<1> DEFINE first == frames = <<>>
           last == frames[Len(frames)]
           break == ~first /\ Discontinuous(last, f)
           continues == ~first /\ ~break
           p == Mapped(f)
           before == IF break THEN None ELSE product
           known == Known(break)
           open == IF break THEN NoWindow ELSE window
           cut == IF break THEN Closing(None, window, windows) ELSE windows
           back == continues /\ before # p /\ p \in known
           returned == p # None /\ (back \/ returns[p] > 0)
<1>2. /\ frames' = Append(frames, f)
      /\ product' = p
      /\ seen' = IF p = None THEN known ELSE known \cup {p}
      /\ dwell' = IF continues THEN Bump(dwell, p, Watched(before, p, last, f)) ELSE dwell
      /\ comparisons' = IF continues THEN Bump(comparisons, p, 1) ELSE comparisons
      /\ returns' = IF back THEN Bump(returns, p, 1) ELSE returns
      /\ windows' = Closing(p, open, cut)
      /\ window' =
           CASE p = None -> NoWindow
             [] p # None /\ open.product = p ->
                  [open EXCEPT !.end = f, !.returned = @ \/ returned]
             [] OTHER -> [product |-> p, start |-> f, end |-> f, returned |-> returned]
  BY <1>1 DEF Analyse
<1>3. ~done /\ done' = done
  BY DEF Step
<1>4. /\ product = IF first THEN None ELSE Look(Len(frames))
      /\ window = NoWindow <=> product = None
      /\ window # NoWindow => window.product = product
      /\ window \in Window \cup {NoWindow} /\ windows \in Seq(Window)
      /\ seen \in SUBSET Products /\ product \in Products \cup {None}
      /\ window # NoWindow => window.end = last
      /\ dwell \in [Products -> Nat] /\ returns \in [Products -> Nat]
      /\ comparisons \in [Products -> Nat]
  BY <1>3 DEF LoopInv, WindowInv, TypeOK, OpenEndsLast
<1>5. /\ p \in Products \cup {None} /\ None \notin Products
      /\ NoWindow.product = None /\ \A w \in Window : w # NoWindow /\ w.product \in Products
  BY EvidenceAssumption DEF Mapped, NoWindow, None, Window
<1>6. window' \in Window \cup {NoWindow}
  BY StepInv DEF WindowInv, TypeOK
<1>7. /\ continues <=> Continues(f)
      /\ Prolongs(f) <=> continues /\ p # None /\ p = product
      /\ back <=> ComesBack(f)
      /\ returned <=> Returned(f)
  <2>1. continues <=> Continues(f)
    BY DEF Continues
  <2>2. Prolongs(f) <=> continues /\ p # None /\ p = product
    BY <2>1, <1>4 DEF Prolongs
  <2>3. back <=> ComesBack(f)
    BY <2>1, <1>4 DEF ComesBack, Known
  <2> QED BY <2>1, <2>2, <2>3 DEF Returned
<1>8. /\ known = IF break THEN {} ELSE seen
      /\ break <=> ~(Continues(f) \/ frames = <<>>)
  BY <1>7 DEF Known
<1>9. /\ dwell' = IF Prolongs(f) THEN [dwell EXCEPT ![p] = @ + (f.at - last.at)] ELSE dwell
      /\ returns' = IF ComesBack(f) THEN [returns EXCEPT ![p] = @ + 1] ELSE returns
      /\ comparisons' = IF Continues(f) /\ p # None
                        THEN [comparisons EXCEPT ![p] = @ + 1] ELSE comparisons
  <2>1. /\ p = None => Bump(comparisons, p, 1) = comparisons
        /\ p # None => Bump(comparisons, p, 1) = [comparisons EXCEPT ![p] = @ + 1]
        /\ p # None => Bump(returns, p, 1) = [returns EXCEPT ![p] = @ + 1]
    BY DEF Bump
  <2>2. back => p # None
    BY <1>4, <1>5, <1>8
  <2>3. Bump(dwell, p, 0) = dwell
    BY <1>4, <1>5 DEF Bump
  <2>4. continues => before = product
    OBVIOUS
  <2>5. continues => Watched(before, p, last, f) = IF product = p THEN f.at - last.at ELSE 0
    BY <2>4 DEF Watched
  <2> HIDE DEF p, continues, back, known, before, last
  <2>6. dwell' = IF Prolongs(f) THEN [dwell EXCEPT ![p] = @ + (f.at - last.at)] ELSE dwell
    <3>1. CASE Prolongs(f)
      <4>1. dwell' = Bump(dwell, p, f.at - last.at) /\ p # None
        BY <3>1, <1>2, <1>7, <2>5
      <4> QED BY <4>1, <3>1 DEF Bump
    <3>2. CASE ~Prolongs(f) /\ continues /\ p # None
      BY <3>2, <1>2, <1>7, <2>3, <2>5
    <3>3. CASE ~continues
      BY <3>3, <1>2, <1>7
    <3>4. CASE p = None
      BY <3>4, <1>2, <1>7 DEF Bump
    <3> QED BY <3>1, <3>2, <3>3, <3>4
  <2> QED BY <1>2, <1>7, <2>1, <2>2, <2>6
<1>10. Prolongs(f) => /\ window \in Window /\ window.end = last /\ window.product = p
                      /\ open = window /\ windows' = windows /\ AllWindows = Append(windows, window)
                      /\ window' = [window EXCEPT !.end = f, !.returned = @ \/ Returned(f)]
  <2>1. SUFFICES ASSUME Prolongs(f)
                 PROVE  /\ window \in Window /\ window.end = last /\ window.product = p
                        /\ open = window /\ windows' = windows
                        /\ AllWindows = Append(windows, window)
                        /\ window' = [window EXCEPT !.end = f, !.returned = @ \/ Returned(f)]
    OBVIOUS
  <2>2. window # NoWindow /\ window.product = p /\ continues /\ p # None
    BY <2>1, <1>4, <1>7
  <2>3. open = window /\ cut = windows
    BY <2>2
  <2>4. windows' = windows
    BY <1>2, <2>2, <2>3 DEF Closing
  <2>5. window' = [window EXCEPT !.end = f, !.returned = @ \/ returned]
    BY <1>2, <2>2, <2>3
  <2>6. (window.returned \/ returned) = (window.returned \/ Returned(f))
    BY <1>7
  <2> HIDE DEF returned, p, open, last
  <2>7. window' = [window EXCEPT !.end = f, !.returned = @ \/ Returned(f)]
    BY <2>5, <2>6
  <2> QED BY <1>4, <2>2, <2>3, <2>4, <2>7 DEF AllWindows
<1>11. ~Prolongs(f) => Closing(p, open, cut) = AllWindows
  <2>1. SUFFICES ASSUME ~Prolongs(f) PROVE Closing(p, open, cut) = AllWindows
    OBVIOUS
  <2>2. CASE break
    <3>1. open = NoWindow /\ cut = Closing(None, window, windows)
      BY <2>2
    <3>2. cut = AllWindows
      BY <3>1, <1>4, <1>5 DEF Closing, AllWindows
    <3> QED BY <3>1, <3>2 DEF Closing
  <2>3. CASE ~break
    <3>1. open = window /\ cut = windows
      BY <2>3
    <3>2. window # NoWindow => p # window.product
      BY <2>1, <2>3, <1>4, <1>5, <1>7
    <3> QED BY <3>1, <3>2 DEF Closing, AllWindows
  <2> QED BY <2>2, <2>3
<1>12. ~Prolongs(f) /\ p # None =>
         window' = [product |-> p, start |-> f, end |-> f, returned |-> Returned(f)]
  <2>1. SUFFICES ASSUME ~Prolongs(f), p # None
                 PROVE  window' = [product |-> p, start |-> f, end |-> f, returned |-> Returned(f)]
    OBVIOUS
  <2>2. open.product # p
    BY <2>1, <1>4, <1>5, <1>7
  <2>3. window' = [product |-> p, start |-> f, end |-> f, returned |-> returned]
    BY <1>2, <2>1, <2>2
  <2>4. returned = Returned(f)
    BY <1>7 DEF Returned
  <2> QED BY <2>3, <2>4
<1> HIDE DEF p, open, cut, last, returned, known, back, continues, before
<1>13. Prolongs(f) => window'.product = p
  <2>1. SUFFICES ASSUME Prolongs(f) PROVE window'.product = p
    OBVIOUS
  <2>2. \A b : [window EXCEPT !.end = f, !.returned = b].product = window.product
    BY <1>10, <2>1 DEF Window
  <2> QED BY <1>10, <2>1, <2>2
<1>14. window' = NoWindow <=> p = None
  <2>1. p = None => window' = NoWindow
    BY <1>2
  <2>2. Prolongs(f) => window'.product = p
    BY <1>13
  <2>3. ~Prolongs(f) /\ p # None => window'.product = p
    BY <1>12
  <2>4. Prolongs(f) => p # None
    BY <1>7
  <2> QED BY <2>1, <2>2, <2>3, <2>4, <1>5
<1>15. window' # NoWindow => window'.product = p
  BY <1>12, <1>14, <1>13
<1>16. AllWindows' = IF window' = NoWindow THEN windows' ELSE Append(windows', window')
  BY DEF AllWindows
<1>17. Prolongs(f) => window' \in Window
  BY <1>6, <1>7, <1>14
<1> QED
  <2>1. Prolongs(f) => p # None /\ AllWindows' = Append(windows, [window EXCEPT !.end = f, !.returned = @ \/ Returned(f)])
    BY <1>7, <1>10, <1>14, <1>16
  <2>2. ~Prolongs(f) /\ p = None => AllWindows' = AllWindows
    BY <1>2, <1>11, <1>14, <1>16
  <2>3. ~Prolongs(f) /\ p # None =>
         AllWindows' = Append(AllWindows, [product |-> p, start |-> f, end |-> f,
                                           returned |-> Returned(f)])
    BY <1>2, <1>11, <1>12, <1>14, <1>16
  <2>4. seen' = (IF Continues(f) \/ frames = <<>> THEN seen ELSE {})
                 \cup (IF p = None THEN {} ELSE {p})
    BY <1>2, <1>8
  <2> QED BY <1>1, <1>2, <1>3, <1>9, <1>10, <1>14, <1>15, <1>17, <2>1, <2>2, <2>3, <2>4 DEF Effect, p, last

\* Numbers of a frame.
LEMMA FrameIsNumbers ==
  ASSUME NEW f \in Frame
  PROVE  f.epoch \in Nat /\ f.at \in Nat /\ f.seq \in Nat /\ f.video \in Nat
<1>1. f.epoch \in Epochs /\ f.at \in Times /\ f.seq \in Numbers /\ f.video \in Positions
  BY DEF Frame
<1> QED BY <1>1, EvidenceAssumption

\* The analysis order is one.
LEMMA BeforeOrders ==
  ASSUME NEW e \in Frame, NEW f \in Frame
  PROVE  ~Before(e, e) /\ (Before(e, f) => ~Before(f, e) /\ e # f)
<1>1. e.epoch \in Nat /\ e.at \in Nat /\ e.seq \in Nat /\ f.epoch \in Nat /\ f.at \in Nat /\ f.seq \in Nat
  BY FrameIsNumbers
<1> QED BY <1>1 DEF Before

\* The order of frames is that of their indices.
LEMMA IndexOrder ==
  ASSUME frames \in Seq(Frame), Ordered, NEW i \in Indices, NEW j \in Indices
  PROVE  (Before(frames[i], frames[j]) <=> i < j) /\ (frames[i] = frames[j] => i = j)
<1>1. frames[i] \in Frame /\ frames[j] \in Frame /\ i \in Nat /\ j \in Nat
  BY DEF Indices
<1>2. i < j => Before(frames[i], frames[j])
  BY DEF Ordered
<1>3. j < i => Before(frames[j], frames[i])
  BY DEF Ordered
<1>4. CASE i < j
  BY <1>1, <1>2, <1>4, BeforeOrders
<1>5. CASE j < i
  <2>1. ~(i < j)
    BY <1>1, <1>5
  <2> QED BY <1>1, <1>3, <1>5, <2>1, BeforeOrders
<1>6. CASE i = j
  <2>1. ~(i < j)
    BY <1>1, <1>6
  <2> QED BY <1>1, <1>6, <2>1, BeforeOrders
<1> QED BY <1>1, <1>4, <1>5, <1>6

\* The new frame comes after all others.
LEMMA OrderedNext ==
  ASSUME frames \in Seq(Frame), Ordered, NEW f \in Frame, Effect(f)
  PROVE  Ordered' /\ \A i \in Indices : Before(frames[i], f)
<1>1. PICK n \in Nat : n = Len(frames)
  OBVIOUS
<1>2. frames' = Append(frames, f) /\ MayFollow(f)
  BY DEF Effect
<1>3. /\ Indices = 1..n /\ Indices' = 1..(n + 1) /\ frames'[n + 1] = f
      /\ \A i \in Indices : frames'[i] = frames[i]
  BY <1>1, <1>2, Grown
<1>4. \A i \in Indices : Before(frames[i], f)
  BY <1>2 DEF MayFollow, Indices
<1>5. ASSUME NEW i \in Indices', NEW j \in Indices', i < j PROVE Before(frames'[i], frames'[j])
  <2>1. i \in Indices /\ (j \in Indices \/ j = n + 1)
    BY <1>3, <1>5
  <2>2. CASE j = n + 1
    BY <1>3, <1>4, <2>1, <2>2
  <2>3. CASE j \in Indices
    BY <1>3, <1>5, <2>1, <2>3 DEF Ordered
  <2> QED BY <2>1, <2>2, <2>3
<1> QED BY <1>4, <1>5 DEF Ordered

\* The loop carries over what it should.
LEMMA LoopNext ==
  ASSUME WindowInv, LoopInv, NEW f \in Frame, Effect(f)
  PROVE  LoopInv'
<1>1. PICK n \in Nat : n = Len(frames)
  BY DEF WindowInv, TypeOK
<1>2. frames' = Append(frames, f) /\ frames \in Seq(Frame) /\ ~done
  BY DEF Effect, WindowInv, TypeOK
<1>3. /\ Indices = 1..n /\ Indices' = 1..(n + 1) /\ Len(frames') = n + 1
      /\ Look(n + 1)' = Mapped(f)
      /\ \A i \in Indices : Look(i)' = Look(i)
      /\ \A i \in Indices : Starts(i)' <=> Starts(i)
      /\ Starts(n + 1)' <=> ~Continues(f)
  BY <1>1, <1>2, Grown
<1>4. product' = IF frames' = <<>> THEN None ELSE Look(Len(frames))'
  <2>1. frames' # <<>>
    BY <1>2
  <2>2. product' = Mapped(f)
    BY DEF Effect
  <2>3. Look(Len(frames))' = Mapped(frames'[n + 1])
    BY <1>3 DEF Look
  <2>4. Look(n + 1)' = Mapped(frames'[n + 1])
    BY DEF Look
  <2> QED BY <1>3, <2>1, <2>2, <2>3, <2>4
<1>5. /\ window' = NoWindow <=> product' = None
      /\ window' # NoWindow => window'.product = product'
  BY DEF Effect
<1>6. ASSUME NEW q \in Products
      PROVE  q \in seen' <=>
               \E k \in Indices' : Look(k)' = q /\ \A m \in (k + 1)..(n + 1) : ~Starts(m)'
  <2>1. q \in seen <=> \E k \in Indices : Look(k) = q /\ \A m \in (k + 1)..n : ~Starts(m)
    BY <1>1, <1>2 DEF LoopInv
  <2>2. q \in seen' <=> ((Continues(f) \/ frames = <<>>) /\ q \in seen) \/ q = Mapped(f)
    <3>1. q # None
      BY EvidenceAssumption DEF None
    <3>2. seen' = (IF Continues(f) \/ frames = <<>> THEN seen ELSE {})
                   \cup (IF Mapped(f) = None THEN {} ELSE {Mapped(f)})
      BY DEF Effect
    <3> QED BY <3>1, <3>2
  <2>3. \A m \in ((n + 1) + 1)..(n + 1) : FALSE
    BY <1>1
  <2>4. Indices' = Indices \cup {n + 1}
    BY <1>3
  <2>5. ASSUME NEW k \in Indices
        PROVE  (\A m \in (k + 1)..(n + 1) : ~Starts(m)') <=>
                 (\A m \in (k + 1)..n : ~Starts(m)) /\ Continues(f)
    <3>1. (k + 1)..(n + 1) = ((k + 1)..n) \cup {n + 1} /\ (k + 1)..n \subseteq Indices
      BY <1>3
    <3> QED BY <1>3, <3>1
  <2>6. frames = <<>> => ~(q \in seen)
    BY <2>1, <1>3, <1>1
  <2> QED BY <1>3, <2>1, <2>2, <2>3, <2>4, <2>5, <2>6
<1> QED BY <1>3, <1>4, <1>5, <1>6 DEF LoopInv

\* A frame is the last of one maximal stretch.
LEMMA OneStart ==
  ASSUME frames \in Seq(Frame), NEW j \in Indices,
         NEW i \in Indices, Maximal(i, j), NEW h \in Indices, Maximal(h, j)
  PROVE  i = h
<1>1. ASSUME NEW a \in Indices, Maximal(a, j), NEW b \in Indices, Maximal(b, j), a < b PROVE FALSE
  <2>1. a \in Nat /\ b \in Nat /\ j \in Nat /\ b # 1 /\ b - 1 \in Nat /\ a <= b - 1
    BY <1>1 DEF Indices
  <2>2. a <= j /\ Look(a) # None /\ \A k \in a..j : Look(k) = Look(a) /\ (k # a => ~Starts(k))
    BY <1>1 DEF Maximal, Stretch
  <2>3. b <= j /\ ~Stretch(b - 1, j)
    BY <1>1, <2>1 DEF Maximal, Stretch
  <2>4. b - 1 \in a..j /\ b - 1 <= j /\ \A k \in (b - 1)..j : k \in a..j /\ (k # b - 1 => k # a)
    BY <2>1, <2>3
  <2>5. Stretch(b - 1, j)
    BY <2>2, <2>4 DEF Stretch
  <2> QED BY <2>3, <2>5
<1>2. i \in Nat /\ h \in Nat
  BY DEF Indices
<1> QED BY <1>1, <1>2

\* A window that is prolonged is that of the last frames.
LEMMA SpansProlonged ==
  ASSUME WindowInv, Ordered, SpansInv, NEW f \in Frame, Effect(f), Prolongs(f)
  PROVE  SpansInv'
<1>1. PICK n \in Nat : n = Len(frames)
  BY DEF WindowInv, TypeOK
<1>2. frames' = Append(frames, f) /\ frames \in Seq(Frame) /\ windows \in Seq(Window)
  BY DEF Effect, WindowInv, TypeOK
<1>3. /\ Indices = 1..n /\ Indices' = 1..(n + 1) /\ frames'[n + 1] = f
      /\ \A i \in Indices : frames'[i] = frames[i] /\ Look(i)' = Look(i)
  BY <1>1, <1>2, Grown
<1>4. /\ \A i, j \in Indices : j < n => (Maximal(i, j)' <=> Maximal(i, j))
      /\ \A i \in Indices : ~Maximal(i, n)'
      /\ \A i \in Indices : Maximal(i, n + 1)' <=> Maximal(i, n)
      /\ ~Maximal(n + 1, n + 1)'
  BY <1>1, <1>2, MaximalNext
<1> DEFINE x == [window EXCEPT !.end = f, !.returned = @ \/ Returned(f)]
<1>0. PICK m \in Nat : m = Len(windows) + 1
  BY <1>2
<1>5. /\ AllWindows = Append(windows, window) /\ AllWindows' = Append(windows, x)
      /\ window \in Window /\ window.end = frames[n] /\ window.product = Mapped(f)
  BY <1>1 DEF Effect
<1>6. x.start = window.start /\ x.end = f /\ x.product = window.product
  BY <1>5 DEF Window
<1>7. /\ m \in 1..m /\ DOMAIN AllWindows = 1..m /\ DOMAIN AllWindows' = 1..m
      /\ AllWindows[m] = window /\ AllWindows'[m] = x
      /\ \A k \in 1..m : k # m => AllWindows'[k] = AllWindows[k]
  BY <1>0, <1>2, <1>5
<1> HIDE DEF x
<1>8. n \in Indices
  <2>1. n # 0
    BY <1>1 DEF Prolongs, Continues
  <2> QED BY <1>3, <2>1
<1>9. PICK h \in Indices : SpanOf(window, h, n) /\ Maximal(h, n)
  <2>0. m \in DOMAIN AllWindows
    BY <1>7
  <2>1. PICK i \in Indices, j \in Indices : SpanOf(window, i, j) /\ Maximal(i, j)
    BY <1>7, <2>0 DEF SpansInv
  <2>2. frames[j] = frames[n]
    BY <1>5, <2>1 DEF SpanOf
  <2>3. j = n
    BY <1>2, <1>8, <2>2, IndexOrder
  <2> QED BY <2>1, <2>3
<1>10. ASSUME NEW k \in 1..m, k # m, NEW i \in Indices, NEW j \in Indices,
              SpanOf(AllWindows[k], i, j)
       PROVE  j < n
  <2>1. k < m /\ m \in DOMAIN AllWindows /\ k \in DOMAIN AllWindows
    BY <1>7, <1>10
  <2>2. Before(AllWindows[k].end, AllWindows[m].start)
    BY <2>1 DEF SpansInv
  <2>3. Before(frames[j], frames[h])
    BY <1>7, <1>9, <1>10, <2>2 DEF SpanOf
  <2>4. j < h
    BY <1>2, <2>3, IndexOrder
  <2> QED BY <1>3, <2>4
<1>11. ASSUME NEW k \in DOMAIN AllWindows'
       PROVE  \E i, j \in Indices' : SpanOf(AllWindows[k], i, j)' /\ Maximal(i, j)'
  <2>1. CASE k = m
    <3>1. SpanOf(AllWindows[k], h, n + 1)'
      BY <1>3, <1>6, <1>7, <1>9, <2>1 DEF SpanOf
    <3>2. Maximal(h, n + 1)'
      BY <1>4, <1>9
    <3>3. h \in Indices' /\ n + 1 \in Indices'
      BY <1>3
    <3> QED BY <3>1, <3>2, <3>3
  <2>2. CASE k # m
    <3>1. k \in DOMAIN AllWindows /\ AllWindows'[k] = AllWindows[k] /\ k \in 1..m
      BY <1>7, <2>2
    <3>2. PICK i \in Indices, j \in Indices : SpanOf(AllWindows[k], i, j) /\ Maximal(i, j)
      BY <3>1 DEF SpansInv
    <3>3. j < n
      BY <1>10, <2>2, <3>1, <3>2
    <3>4. Maximal(i, j)'
      BY <1>4, <3>2, <3>3
    <3>5. SpanOf(AllWindows[k], i, j)'
      BY <1>3, <3>1, <3>2 DEF SpanOf
    <3>6. i \in Indices' /\ j \in Indices'
      BY <1>3
    <3> QED BY <3>4, <3>5, <3>6
  <2> QED BY <2>1, <2>2
<1>12. ASSUME NEW i \in Indices', NEW j \in Indices', Maximal(i, j)'
       PROVE  \E k \in DOMAIN AllWindows' : SpanOf(AllWindows[k], i, j)'
  <2>1. CASE j = n + 1
    <3>1. i \in Indices /\ Maximal(i, n)
      BY <1>3, <1>4, <1>12, <2>1
    <3>2. i = h
      BY <1>2, <1>8, <1>9, <3>1, OneStart
    <3>3. m \in DOMAIN AllWindows' /\ SpanOf(AllWindows[m], h, n + 1)'
      BY <1>3, <1>6, <1>7, <1>9 DEF SpanOf
    <3> QED BY <2>1, <3>2, <3>3
  <2>2. CASE j # n + 1
    <3>1. j \in Indices
      BY <1>3, <2>2
    <3>2. i \in Indices
      <4>1. i <= j
        BY <1>12 DEF Maximal, Stretch
      <4> QED BY <1>3, <3>1, <4>1
    <3>3. j # n
      BY <1>4, <1>12, <3>2
    <3>4. j < n
      BY <1>3, <3>1, <3>3
    <3>5. Maximal(i, j)
      BY <1>4, <1>12, <3>1, <3>2, <3>4
    <3>6. PICK k \in DOMAIN AllWindows : SpanOf(AllWindows[k], i, j)
      BY <3>1, <3>2, <3>5 DEF SpansInv
    <3>7. k # m
      <4>1. SUFFICES ASSUME k = m PROVE FALSE
        OBVIOUS
      <4>2. frames[j] = frames[n]
        BY <1>7, <1>9, <3>6, <4>1 DEF SpanOf
      <4> QED BY <1>2, <1>8, <3>1, <3>3, <4>2, IndexOrder
    <3>8. k \in DOMAIN AllWindows' /\ SpanOf(AllWindows[k], i, j)'
      BY <1>3, <1>7, <3>1, <3>2, <3>6, <3>7 DEF SpanOf
    <3> QED BY <3>8
  <2> QED BY <2>1, <2>2
<1>13. ASSUME NEW k \in DOMAIN AllWindows', NEW l \in DOMAIN AllWindows', k < l
       PROVE  Before(AllWindows'[k].end, AllWindows'[l].start)
  <2>1. k \in 1..m /\ l \in 1..m /\ k # m /\ k \in DOMAIN AllWindows /\ l \in DOMAIN AllWindows
    BY <1>7, <1>13
  <2>2. Before(AllWindows[k].end, AllWindows[l].start)
    BY <1>13, <2>1 DEF SpansInv
  <2>3. AllWindows'[k] = AllWindows[k] /\ AllWindows'[l].start = AllWindows[l].start
    BY <1>6, <1>7, <2>1
  <2> QED BY <2>2, <2>3
<1> QED BY <1>11, <1>12, <1>13 DEF SpansInv

\* A frame that prolongs no window begins one, if it is on a product.
LEMMA SpansStarted ==
  ASSUME WindowInv, Ordered, SpansInv, NEW f \in Frame, Effect(f), ~Prolongs(f)
  PROVE  SpansInv'
<1>1. PICK n \in Nat : n = Len(frames)
  BY DEF WindowInv, TypeOK
<1>2. /\ frames' = Append(frames, f) /\ frames \in Seq(Frame)
      /\ windows \in Seq(Window) /\ window \in Window \cup {NoWindow}
  BY DEF Effect, WindowInv, TypeOK
<1>3. /\ Indices = 1..n /\ Indices' = 1..(n + 1) /\ frames'[n + 1] = f
      /\ \A i \in Indices : frames'[i] = frames[i] /\ Look(i)' = Look(i)
      /\ Look(n + 1)' = Mapped(f)
  BY <1>1, <1>2, Grown
<1>4. /\ \A i, j \in Indices : Maximal(i, j)' <=> Maximal(i, j)
      /\ \A i \in Indices : ~Maximal(i, n + 1)'
      /\ Maximal(n + 1, n + 1)' <=> Mapped(f) # None
  <2>1. /\ \A i, j \in Indices : j < n => (Maximal(i, j)' <=> Maximal(i, j))
        /\ \A i \in Indices : Maximal(i, n)' <=> Maximal(i, n)
        /\ \A i \in Indices : ~Maximal(i, n + 1)'
        /\ Maximal(n + 1, n + 1)' <=> Mapped(f) # None
    BY <1>1, <1>2, MaximalNext
  <2>2. \A j \in Indices : j < n \/ j = n
    BY <1>3
  <2> QED BY <2>1, <2>2
<1>5. \A i \in Indices : Before(frames[i], f)
  BY <1>2, OrderedNext
<1> DEFINE fresh == [product |-> Mapped(f), start |-> f, end |-> f, returned |-> Returned(f)]
<1>6. AllWindows \in Seq(Window)
  BY <1>2 DEF AllWindows
<1>0. PICK m \in Nat : m = Len(AllWindows)
  BY <1>6
<1>7. AllWindows' = IF Mapped(f) = None THEN AllWindows ELSE Append(AllWindows, fresh)
  BY DEF Effect
<1>8. /\ m \in Nat /\ DOMAIN AllWindows = 1..m
      /\ Mapped(f) = None => DOMAIN AllWindows' = 1..m
      /\ Mapped(f) # None => DOMAIN AllWindows' = 1..(m + 1) /\ AllWindows'[m + 1] = fresh
      /\ \A k \in 1..m : AllWindows'[k] = AllWindows[k]
  BY <1>0, <1>6, <1>7
<1>9. fresh.start = f /\ fresh.end = f /\ fresh.product = Mapped(f)
  OBVIOUS
<1> HIDE DEF fresh
<1>10. ASSUME NEW k \in 1..m, NEW i \in Indices, NEW j \in Indices
       PROVE  SpanOf(AllWindows[k], i, j)' <=> SpanOf(AllWindows[k], i, j)
  BY <1>3, <1>8 DEF SpanOf
<1>11. ASSUME NEW k \in DOMAIN AllWindows'
       PROVE  \E i, j \in Indices' : SpanOf(AllWindows[k], i, j)' /\ Maximal(i, j)'
  <2>1. CASE k \in 1..m
    <3>1. PICK i \in Indices, j \in Indices : SpanOf(AllWindows[k], i, j) /\ Maximal(i, j)
      BY <1>8, <2>1 DEF SpansInv
    <3>2. i \in Indices' /\ j \in Indices'
      BY <1>3
    <3> QED BY <1>4, <1>10, <2>1, <3>1, <3>2
  <2>2. CASE k \notin 1..m
    <3>1. Mapped(f) # None /\ k = m + 1
      BY <1>8, <2>2
    <3>2. SpanOf(AllWindows[k], n + 1, n + 1)' /\ Maximal(n + 1, n + 1)'
      BY <1>3, <1>4, <1>8, <1>9, <3>1 DEF SpanOf
    <3>3. n + 1 \in Indices'
      BY <1>3
    <3> QED BY <3>2, <3>3
  <2> QED BY <2>1, <2>2
<1>12. ASSUME NEW i \in Indices', NEW j \in Indices', Maximal(i, j)'
       PROVE  \E k \in DOMAIN AllWindows' : SpanOf(AllWindows[k], i, j)'
  <2>0. i <= j
    BY <1>12 DEF Maximal, Stretch
  <2>1. CASE j = n + 1
    <3>1. i = n + 1 /\ Mapped(f) # None
      BY <1>3, <1>4, <1>12, <2>1
    <3>2. m + 1 \in DOMAIN AllWindows' /\ SpanOf(AllWindows[m + 1], n + 1, n + 1)'
      BY <1>3, <1>8, <1>9, <3>1 DEF SpanOf
    <3> QED BY <2>1, <3>1, <3>2
  <2>2. CASE j # n + 1
    <3>1. j \in Indices /\ i \in Indices
      BY <1>3, <2>0, <2>2
    <3>2. PICK k \in DOMAIN AllWindows : SpanOf(AllWindows[k], i, j)
      BY <1>4, <1>12, <3>1 DEF SpansInv
    <3>3. k \in 1..m /\ k \in DOMAIN AllWindows'
      BY <1>8
    <3> QED BY <1>10, <3>1, <3>2, <3>3
  <2> QED BY <2>1, <2>2
<1>13. ASSUME NEW k \in DOMAIN AllWindows', NEW l \in DOMAIN AllWindows', k < l
       PROVE  Before(AllWindows'[k].end, AllWindows'[l].start)
  <2>1. k \in 1..m
    BY <1>8, <1>13
  <2>2. CASE l \in 1..m
    BY <1>8, <1>13, <2>1, <2>2 DEF SpansInv
  <2>3. CASE l \notin 1..m
    <3>1. Mapped(f) # None /\ l = m + 1
      BY <1>8, <2>3
    <3>2. PICK i \in Indices, j \in Indices : SpanOf(AllWindows[k], i, j)
      BY <1>8, <2>1 DEF SpansInv
    <3>3. AllWindows'[k].end = frames[j] /\ AllWindows'[l].start = f
      BY <1>8, <1>9, <2>1, <3>1, <3>2 DEF SpanOf
    <3> QED BY <1>5, <3>3
  <2> QED BY <2>2, <2>3
<1> QED BY <1>11, <1>12, <1>13 DEF SpansInv

-----------------------------------------------------------------------------
(* Dwell times and returns.                                                 *)

\* The moments of the windows of product q in a list of windows.
MomentsIn(ws, q) == UNION {Moments(w) : w \in {v \in ToSet(ws) : v.product = q}}

LEMMA InMoments ==
  ASSUME NEW ws, NEW q, NEW x
  PROVE  x \in MomentsIn(ws, q) <=> \E k \in DOMAIN ws : ws[k].product = q /\ x \in Moments(ws[k])
BY DEF MomentsIn, ToSet

\* A stretch of time has as many moments as it is long.
LEMMA MomentsCounted ==
  ASSUME NEW e, NEW a \in Nat, NEW b \in Nat, a <= b
  PROVE  /\ IsFiniteSet({e} \X (a .. (b - 1)))
         /\ Cardinality({e} \X (a .. (b - 1))) = b - a
<1>1. IsFiniteSet({e}) /\ Cardinality({e}) = 1
  BY FS_Singleton
<1>2. b - 1 \in Int /\ a \in Int
  OBVIOUS
<1>3. IsFiniteSet(a .. (b - 1)) /\ Cardinality(a .. (b - 1)) = IF a > b - 1 THEN 0 ELSE (b - 1) - a + 1
  BY <1>2, FS_Interval
<1>4. Cardinality(a .. (b - 1)) = b - a
  BY <1>3
<1>5. /\ IsFiniteSet({e} \X (a .. (b - 1)))
      /\ Cardinality({e} \X (a .. (b - 1))) = Cardinality({e}) * Cardinality(a .. (b - 1))
  BY <1>1, <1>3, FS_Product
<1> QED BY <1>1, <1>4, <1>5

\* Every window is one of the timeline, and goes forward.
LEMMA WindowsKnown ==
  ASSUME WindowInv, SpansInv, NEW k \in DOMAIN AllWindows
  PROVE  /\ AllWindows[k] \in Window /\ Forward(AllWindows[k])
         /\ \E i, j \in Indices : SpanOf(AllWindows[k], i, j) /\ i <= j
<1>1. windows \in Seq(Window) /\ window \in Window \cup {NoWindow}
  BY DEF WindowInv, TypeOK
<1>2. AllWindows[k] \in Window /\ Forward(AllWindows[k])
  <2>1. CASE window = NoWindow
    BY <1>1, <2>1 DEF AllWindows, WindowInv
  <2>2. CASE window # NoWindow
    <3>1. AllWindows = Append(windows, window) /\ window \in Window /\ Forward(window)
      BY <1>1, <2>2 DEF AllWindows, WindowInv
    <3>2. CASE k \in DOMAIN windows
      <4>1. AllWindows[k] = windows[k]
        BY <1>1, <3>1, <3>2
      <4>2. windows[k] \in Window /\ Forward(windows[k])
        BY <1>1, <3>2 DEF WindowInv
      <4> QED BY <4>1, <4>2
    <3>3. CASE k \notin DOMAIN windows
      <4>1. AllWindows[k] = window
        BY <1>1, <3>1, <3>3
      <4> QED BY <3>1, <4>1
    <3> QED BY <3>2, <3>3
  <2> QED BY <2>1, <2>2
<1>3. PICK i \in Indices, j \in Indices : SpanOf(AllWindows[k], i, j) /\ Maximal(i, j)
  BY DEF SpansInv
<1>4. i <= j
  BY <1>3 DEF Maximal, Stretch
<1> QED BY <1>2, <1>3, <1>4

\* A window that is prolonged gains the time up to the new frame, in which no
\* other window is.
LEMMA DwellProlonged ==
  ASSUME ExactInv, NEW f \in Frame, Effect(f), Prolongs(f)
  PROVE  DwellInv'
<1>0. WindowInv /\ Ordered /\ SpansInv /\ DwellInv
  BY DEF ExactInv
<1>1. PICK n \in Nat : n = Len(frames)
  BY <1>0 DEF WindowInv, TypeOK
<1>2. frames \in Seq(Frame) /\ windows \in Seq(Window) /\ dwell \in [Products -> Nat]
  BY <1>0 DEF WindowInv, TypeOK
<1> DEFINE p == Mapped(f)
           x == [window EXCEPT !.end = f, !.returned = @ \/ Returned(f)]
           last == frames[n]
           more == {window.start.epoch} \X (last.at .. (f.at - 1))
<1>3. /\ AllWindows = Append(windows, window) /\ AllWindows' = Append(windows, x)
      /\ window \in Window /\ window.end = last /\ window.product = p
      /\ dwell' = [dwell EXCEPT ![p] = @ + (f.at - last.at)]
  BY <1>1 DEF Effect
<1>4. x.start = window.start /\ x.end = f /\ x.product = p
  BY <1>3 DEF Window
<1>5. PICK m \in Nat :
        /\ m = Len(windows) + 1 /\ m \in 1..m
        /\ DOMAIN AllWindows = 1..m /\ DOMAIN AllWindows' = 1..m
        /\ AllWindows[m] = window /\ AllWindows'[m] = x
        /\ \A k \in 1..m : k # m => AllWindows'[k] = AllWindows[k]
  <2>1. Len(windows) + 1 \in Nat
    BY <1>2
  <2> HIDE DEF x
  <2> QED BY <1>2, <1>3, <2>1
<1>6. n \in Indices /\ last \in Frame /\ Continues(f) /\ p \in Products
  <2>1. n # 0 /\ Continues(f)
    BY <1>1 DEF Prolongs, Continues
  <2>2. p \in Products
    BY <1>3 DEF Window
  <2> QED BY <1>1, <1>2, <2>1, <2>2 DEF Indices
<1>7. Forward(window) /\ window.start \in Frame
  <2>1. m \in DOMAIN AllWindows
    BY <1>5
  <2>2. Forward(AllWindows[m]) /\ AllWindows[m] \in Window
    BY <1>0, <2>1, WindowsKnown
  <2> QED BY <1>5, <2>2 DEF Window
<1>8. last.at \in Nat /\ f.at \in Nat /\ window.start.at \in Nat
      /\ window.start.at <= last.at /\ window.start.epoch = last.epoch
  BY <1>3, <1>6, <1>7, FrameIsNumbers DEF Forward
<1>9. last.at <= f.at
  <2>1. ~Discontinuous(last, f)
    BY <1>1, <1>6 DEF Continues
  <2>2. ~(f.at - last.at < 0)
    BY <2>1 DEF Discontinuous
  <2> HIDE DEF last
  <2> QED BY <1>8, <2>2
<1>10. Moments(x) = Moments(window) \cup more
  <2>1. Moments(x) = {window.start.epoch} \X (window.start.at .. (f.at - 1))
    BY <1>4 DEF Moments
  <2>2. Moments(window) = {window.start.epoch} \X (window.start.at .. (last.at - 1))
    BY <1>3 DEF Moments
  <2> DEFINE s == window.start.at
             l == last.at
             t == f.at
  <2> HIDE DEF s, l, t
  <2>3. s \in Nat /\ l \in Nat /\ t \in Nat /\ s <= l /\ l <= t
    BY <1>8, <1>9 DEF s, l, t
  <2>4. s .. (t - 1) = (s .. (l - 1)) \cup (l .. (t - 1))
    BY <2>3
  <2> QED BY <2>1, <2>2, <2>4 DEF s, l, t
<1>11. IsFiniteSet(more) /\ Cardinality(more) = f.at - last.at
  BY <1>8, <1>9, MomentsCounted
<1> HIDE DEF x, more, p, last
<1>12. ASSUME NEW q \in Products, q # p PROVE MomentsIn(AllWindows', q) = MomentsIn(AllWindows, q)
  <2>1. \A z : z \in MomentsIn(AllWindows', q) <=> z \in MomentsIn(AllWindows, q)
    <3>1. SUFFICES ASSUME NEW z
                   PROVE  z \in MomentsIn(AllWindows', q) <=> z \in MomentsIn(AllWindows, q)
      OBVIOUS
    <3>2. ASSUME NEW k \in 1..m
          PROVE  AllWindows'[k].product = q /\ z \in Moments(AllWindows'[k])
                   <=> AllWindows[k].product = q /\ z \in Moments(AllWindows[k])
      BY <1>3, <1>4, <1>5, <1>12
    <3> QED BY <1>5, <3>2, InMoments
  <2> QED BY <2>1
<1>13. MomentsIn(AllWindows', p) = MomentsIn(AllWindows, p) \cup more
  <2>1. ASSUME NEW z
        PROVE  z \in MomentsIn(AllWindows', p) <=> z \in MomentsIn(AllWindows, p) \/ z \in more
    <3>1. ASSUME NEW k \in 1..m, k # m
          PROVE  AllWindows'[k].product = p /\ z \in Moments(AllWindows'[k])
                   <=> AllWindows[k].product = p /\ z \in Moments(AllWindows[k])
      BY <1>5, <3>1
    <3>2. AllWindows'[m].product = p /\ z \in Moments(AllWindows'[m])
            <=> (AllWindows[m].product = p /\ z \in Moments(AllWindows[m])) \/ z \in more
      BY <1>3, <1>4, <1>5, <1>10
    <3> QED BY <1>5, <3>1, <3>2, InMoments
  <2> QED BY <2>1
<1>14. MomentsIn(AllWindows, p) \cap more = {}
  <2>1. SUFFICES ASSUME NEW z \in MomentsIn(AllWindows, p), z \in more PROVE FALSE
    OBVIOUS
  <2>2. PICK k \in DOMAIN AllWindows : z \in Moments(AllWindows[k])
    BY InMoments
  <2>3. /\ AllWindows[k] \in Window /\ Forward(AllWindows[k])
        /\ \E i, j \in Indices : SpanOf(AllWindows[k], i, j) /\ i <= j
    BY <1>0, WindowsKnown
  <2>4. PICK j \in Indices : AllWindows[k].end = frames[j]
    BY <2>3 DEF SpanOf
  <2>5. frames[j] \in Frame /\ (j = n \/ j < n)
    BY <1>1, <1>2 DEF Indices
  <2>6. j = n \/ Before(frames[j], last)
    BY <1>0, <1>6, <2>5 DEF Ordered, last
  <2>7. /\ frames[j].epoch \in Nat /\ frames[j].at \in Nat
        /\ last.epoch \in Nat /\ last.at \in Nat
    BY <1>6, <2>5, FrameIsNumbers
  <2>8. frames[j].epoch = last.epoch => frames[j].at <= last.at
    BY <2>6, <2>7 DEF Before, last
  <2>9. z[1] = frames[j].epoch /\ z[2] \in AllWindows[k].start.at .. (frames[j].at - 1)
    BY <2>2, <2>3, <2>4 DEF Moments, Forward
  <2>10. z[1] = last.epoch /\ z[2] \in last.at .. (f.at - 1)
    BY <1>8, <2>1 DEF more
  <2>11. z[2] \in Int /\ z[2] <= frames[j].at - 1 /\ last.at <= z[2]
    BY <2>9, <2>10
  <2> QED BY <2>7, <2>8, <2>9, <2>10, <2>11
<1>15. \A q : Covered(q) = MomentsIn(AllWindows, q) /\ Covered(q)' = MomentsIn(AllWindows', q)
  BY DEF Covered, MomentsIn
<1>16. ASSUME NEW q \in Products
       PROVE  IsFiniteSet(MomentsIn(AllWindows', q)) /\ dwell'[q] = Cardinality(MomentsIn(AllWindows', q))
  <2>1. IsFiniteSet(MomentsIn(AllWindows, q)) /\ dwell[q] = Cardinality(MomentsIn(AllWindows, q))
    BY <1>0, <1>15 DEF DwellInv
  <2>2. CASE q # p
    BY <1>2, <1>3, <1>12, <2>1, <2>2
  <2>3. CASE q = p
    <3>1. IsFiniteSet(MomentsIn(AllWindows, p) \cup more)
          /\ Cardinality(MomentsIn(AllWindows, p) \cup more)
               = Cardinality(MomentsIn(AllWindows, p)) + Cardinality(more)
               - Cardinality(MomentsIn(AllWindows, p) \cap more)
      BY <1>11, <2>1, <2>3, FS_Union
    <3>2. Cardinality(MomentsIn(AllWindows, p) \cap more) = 0
      BY <1>14, FS_EmptySet
    <3>3. dwell'[p] = dwell[p] + (f.at - last.at) /\ dwell[p] \in Nat
      BY <1>2, <1>3, <1>6
    <3>4. dwell[p] = Cardinality(MomentsIn(AllWindows, p))
      BY <2>1, <2>3
    <3>5. dwell'[p] = Cardinality(MomentsIn(AllWindows, p) \cup more)
      BY <1>8, <1>11, <3>1, <3>2, <3>3, <3>4
    <3> QED BY <1>13, <2>3, <3>1, <3>5
  <2> QED BY <2>2, <2>3
<1> QED BY <1>15, <1>16 DEF DwellInv

\* A window that begins has no moment yet.
LEMMA DwellStarted ==
  ASSUME ExactInv, NEW f \in Frame, Effect(f), ~Prolongs(f)
  PROVE  DwellInv'
<1>0. WindowInv /\ SpansInv /\ DwellInv
  BY DEF ExactInv
<1>1. AllWindows \in Seq(Window)
  BY <1>0 DEF WindowInv, TypeOK, AllWindows
<1> DEFINE fresh == [product |-> Mapped(f), start |-> f, end |-> f, returned |-> Returned(f)]
<1>2. /\ AllWindows' = IF Mapped(f) = None THEN AllWindows ELSE Append(AllWindows, fresh)
      /\ dwell' = dwell
  BY DEF Effect
<1>3. Moments(fresh) = {}
  <2>1. f.at \in Nat
    BY FrameIsNumbers
  <2>2. f.at .. (f.at - 1) = {}
    BY <2>1
  <2> QED BY <2>2 DEF Moments
<1> HIDE DEF fresh
<1>4. ASSUME NEW q PROVE MomentsIn(AllWindows', q) = MomentsIn(AllWindows, q)
  <2>1. CASE Mapped(f) = None
    BY <1>2, <2>1
  <2>2. CASE Mapped(f) # None
    <3>1. PICK m \in Nat : m = Len(AllWindows)
      BY <1>1
    <3>2. /\ DOMAIN AllWindows = 1..m /\ DOMAIN AllWindows' = 1..(m + 1)
          /\ AllWindows'[m + 1] = fresh /\ \A k \in 1..m : AllWindows'[k] = AllWindows[k]
      BY <1>1, <1>2, <2>2, <3>1
    <3>3. ASSUME NEW z PROVE z \in MomentsIn(AllWindows', q) <=> z \in MomentsIn(AllWindows, q)
      <4>1. \A k : k \in 1..(m + 1) <=> k \in 1..m \/ k = m + 1
        BY <3>1
      <4> QED BY <1>3, <3>2, <4>1, InMoments
    <3> QED BY <3>3
  <2> QED BY <2>1, <2>2
<1>5. \A q : Covered(q) = MomentsIn(AllWindows, q) /\ Covered(q)' = MomentsIn(AllWindows', q)
  BY DEF Covered, MomentsIn
<1> QED BY <1>0, <1>2, <1>4, <1>5 DEF DwellInv

\* A frame that comes back is one more return of its product; what came back
\* before it is unchanged.
LEMMA ComebacksNext ==
  ASSUME ExactInv, NEW f \in Frame, Effect(f), NEW n \in Nat, n = Len(frames),
         NEW q \in Products
  PROVE  /\ Comebacks(q) \subseteq 1..n
         /\ ~(ComesBack(f) /\ q = Mapped(f)) => Comebacks(q)' = Comebacks(q)
         /\ ComesBack(f) /\ q = Mapped(f) => Comebacks(q)' = Comebacks(q) \cup {n + 1}
<1>0. WindowInv /\ LoopInv
  BY DEF ExactInv
<1>1. frames \in Seq(Frame) /\ frames' = Append(frames, f) /\ ~done
  BY <1>0 DEF Effect, WindowInv, TypeOK
<1>2. /\ Indices = 1..n /\ Indices' = 1..(n + 1) /\ Look(n + 1)' = Mapped(f)
      /\ \A i \in Indices : Look(i)' = Look(i)
      /\ \A i \in Indices : Starts(i)' <=> Starts(i)
      /\ Starts(n + 1)' <=> ~Continues(f)
  BY <1>1, Grown
<1>3. q # None
  BY EvidenceAssumption DEF None
<1>4. \A i : i \in Comebacks(q)  <=>
              i \in Indices  /\ Look(i) = q  /\ ~Starts(i)  /\ Look(i - 1) # q  /\ SeenBefore(i)
  BY DEF Comebacks
<1>5. \A i : i \in Comebacks(q)' <=>
              i \in Indices' /\ Look(i)' = q /\ ~Starts(i)' /\ Look(i - 1)' # q /\ SeenBefore(i)'
  BY DEF Comebacks
<1>6. ASSUME NEW i \in Indices PROVE i \in Comebacks(q)' <=> i \in Comebacks(q)
  <2>1. i \in Indices'
    BY <1>2
  <2>2. CASE i = 1
    <3>1. Starts(i)
      BY <2>2 DEF Starts
    <3> QED BY <1>2, <1>4, <1>5, <3>1
  <2>3. CASE i # 1
    <3>1. i - 1 \in Indices /\ i \in Int
      BY <1>2, <2>3
    <3>2. \A k \in 1..(i - 1) : k \in Indices /\ \A m \in (k + 1)..i : m \in Indices
      BY <1>2, <3>1
    <3>3. SeenBefore(i)' <=> SeenBefore(i)
      BY <1>2, <3>2 DEF SeenBefore
    <3> QED BY <1>2, <1>4, <1>5, <2>1, <3>1, <3>3
  <2> QED BY <2>2, <2>3
<1>7. n + 1 \in Comebacks(q)' <=> ComesBack(f) /\ q = Mapped(f)
  <2>1. n + 1 \in Indices' /\ (n + 1) - 1 = n
    BY <1>2
  <2>2. n + 1 \in Comebacks(q)' <=>
          Mapped(f) = q /\ Continues(f) /\ Look(n)' # q /\ SeenBefore(n + 1)'
    BY <1>2, <1>5, <2>1
  <2>3. Continues(f) => n \in Indices
    <3>1. frames # <<>> => n # 0
      BY <1>1
    <3> QED BY <1>2, <3>1 DEF Continues
  <2>4. Continues(f) => Look(n)' = Look(n)
    BY <1>2, <2>3
  <2>5. ASSUME Mapped(f) = q, Continues(f) PROVE SeenBefore(n + 1)' <=> q \in seen
    <3>1. q \in seen <=> \E k \in Indices : Look(k) = q /\ \A m \in (k + 1)..n : ~Starts(m)
      BY <1>0, <1>1 DEF LoopInv
    <3>2. SeenBefore(n + 1)' <=>
            \E k \in 1..((n + 1) - 1) : Look(k)' = Look(n + 1)' /\ \A m \in (k + 1)..(n + 1) : ~Starts(m)'
      BY DEF SeenBefore
    <3>3. ASSUME NEW k \in Indices
          PROVE  (\A m \in (k + 1)..(n + 1) : ~Starts(m)') <=> (\A m \in (k + 1)..n : ~Starts(m))
      <4>1. (k + 1)..(n + 1) = ((k + 1)..n) \cup {n + 1} /\ (k + 1)..n \subseteq Indices
        BY <1>2
      <4> QED BY <1>2, <2>5, <4>1
    <3>4. SeenBefore(n + 1)' <=>
            \E k \in Indices : Look(k) = q /\ \A m \in (k + 1)..n : ~Starts(m)
      BY <1>2, <2>1, <2>5, <3>2, <3>3
    <3> QED BY <3>1, <3>4
  <2> QED BY <2>2, <2>4, <2>5 DEF ComesBack
<1>8. Comebacks(q) \subseteq 1..n
  BY <1>2, <1>4
<1>9. \A i : i \in Comebacks(q)' <=> i \in Comebacks(q) \/ (i = n + 1 /\ ComesBack(f) /\ q = Mapped(f))
  <2>1. \A i : i \in Comebacks(q)' => i \in Indices \/ i = n + 1
    BY <1>2, <1>5
  <2> QED BY <1>2, <1>6, <1>7, <1>8, <2>1
<1> QED BY <1>8, <1>9

\* The returns counted are the comebacks.
LEMMA CountsNext ==
  ASSUME ExactInv, NEW f \in Frame, Effect(f), NEW n \in Nat, n = Len(frames),
         NEW q \in Products
  PROVE  /\ returns'[q] = Cardinality(Comebacks(q)')
         /\ returns'[q] > 0 => comparisons'[q] > 0
         /\ returns'[q] > 0 <=> Comebacks(q)' # {}
         /\ q = Mapped(f) => (Returned(f) <=> Comebacks(q)' # {})
<1>0. /\ returns \in [Products -> Nat] /\ comparisons \in [Products -> Nat]
      /\ returns[q] = Cardinality(Comebacks(q))
      /\ returns[q] > 0 => comparisons[q] > 0
  BY DEF ExactInv, WindowInv, TypeOK, ReturnsAreComebacks
<1>1. /\ Comebacks(q) \subseteq 1..n
      /\ ~(ComesBack(f) /\ q = Mapped(f)) => Comebacks(q)' = Comebacks(q)
      /\ ComesBack(f) /\ q = Mapped(f) => Comebacks(q)' = Comebacks(q) \cup {n + 1}
  BY ComebacksNext
<1>2. IsFiniteSet(Comebacks(q)) /\ n + 1 \notin Comebacks(q)
  <2>1. IsFiniteSet(1..n)
    BY FS_Interval
  <2>2. IsFiniteSet(Comebacks(q))
    BY <1>1, <2>1, FS_Subset
  <2>3. n + 1 \notin 1..n
    OBVIOUS
  <2> QED BY <1>1, <2>2, <2>3
<1>3. Cardinality(Comebacks(q)) = 0 <=> Comebacks(q) = {}
  BY <1>2, FS_EmptySet
<1>4. Mapped(f) = q => q # None
  BY EvidenceAssumption DEF None
<1>5. CASE ComesBack(f) /\ q = Mapped(f)
  <2>1. Cardinality(Comebacks(q) \cup {n + 1}) = Cardinality(Comebacks(q)) + 1
    BY <1>2, FS_AddElement
  <2>2. returns' = [returns EXCEPT ![q] = @ + 1] /\ comparisons' = [comparisons EXCEPT ![q] = @ + 1]
    BY <1>4, <1>5 DEF Effect, ComesBack
  <2>3. returns'[q] = returns[q] + 1 /\ comparisons'[q] = comparisons[q] + 1
    BY <1>0, <2>2
  <2>4. returns[q] \in Nat /\ comparisons[q] \in Nat
    BY <1>0
  <2>5. returns'[q] > 0 /\ comparisons'[q] > 0
    BY <2>3, <2>4
  <2>6. Comebacks(q)' # {} /\ returns'[q] = Cardinality(Comebacks(q)')
    BY <1>0, <1>1, <1>5, <2>1, <2>3
  <2> QED BY <1>4, <1>5, <2>5, <2>6 DEF Returned
<1>6. CASE ~(ComesBack(f) /\ q = Mapped(f))
  <2>1. returns'[q] = returns[q]
    BY <1>0, <1>6 DEF Effect
  <2>2. comparisons[q] > 0 => comparisons'[q] > 0
    <3>1. comparisons[q] \in Nat /\ (comparisons'[q] = comparisons[q] \/ comparisons'[q] = comparisons[q] + 1)
      BY <1>0 DEF Effect
    <3> QED BY <3>1
  <2>3. returns[q] > 0 <=> Comebacks(q) # {}
    <3>1. returns[q] \in Nat
      BY <1>0
    <3> QED BY <1>0, <1>3, <3>1
  <2>4. q = Mapped(f) => (Returned(f) <=> returns[q] > 0)
    BY <1>4, <1>6 DEF Returned
  <2> QED BY <1>0, <1>1, <1>6, <2>1, <2>2, <2>3, <2>4
<1> QED BY <1>5, <1>6

\* The new frame marks no window that ended before it.
LEMMA MarkKept ==
  ASSUME ExactInv, NEW f \in Frame, Effect(f), NEW n \in Nat, n = Len(frames),
         NEW q \in Products, NEW j \in Indices, NEW e, e = frames[j]
  PROVE  (\E i \in Comebacks(q)' : ~Before(e, frames'[i]))
           <=> (\E i \in Comebacks(q) : ~Before(e, frames[i]))
<1>1. /\ frames \in Seq(Frame) /\ frames' = Append(frames, f) /\ Ordered
  BY DEF ExactInv, Effect, WindowInv, TypeOK
<1>2. /\ Comebacks(q) \subseteq 1..n
      /\ Comebacks(q)' = Comebacks(q) \/ Comebacks(q)' = Comebacks(q) \cup {n + 1}
  BY ComebacksNext
<1>3. Indices = 1..n /\ frames'[n + 1] = f /\ \A i \in Indices : frames'[i] = frames[i]
  BY <1>1, Grown
<1>4. Before(e, frames'[n + 1])
  BY <1>1, <1>3, OrderedNext
<1> QED BY <1>2, <1>3, <1>4

\* A window that ends with the new frame is marked if its product came back.
LEMMA MarkMade ==
  ASSUME ExactInv, NEW f \in Frame, Effect(f), NEW q \in Products, q = Mapped(f)
  PROVE  (\E i \in Comebacks(q)' : ~Before(f, frames'[i])) <=> Returned(f)
<1>0. PICK n \in Nat : n = Len(frames)
  BY DEF ExactInv, WindowInv, TypeOK
<1>1. /\ frames \in Seq(Frame) /\ frames' = Append(frames, f) /\ Ordered
  BY DEF ExactInv, Effect, WindowInv, TypeOK
<1>2. /\ Comebacks(q) \subseteq 1..n
      /\ Comebacks(q)' = Comebacks(q) \/ Comebacks(q)' = Comebacks(q) \cup {n + 1}
  BY <1>0, ComebacksNext
<1>3. Indices = 1..n /\ frames'[n + 1] = f /\ \A i \in Indices : frames'[i] = frames[i]
  BY <1>0, <1>1, Grown
<1>4. \A i \in Comebacks(q)' : ~Before(f, frames'[i])
  <2>1. ASSUME NEW i \in 1..n PROVE ~Before(f, frames'[i])
    <3>1. Before(frames[i], f) /\ frames[i] \in Frame
      BY <1>0, <1>1, <1>3, OrderedNext
    <3> QED BY <1>3, <3>1, BeforeOrders
  <2>2. ~Before(f, frames'[n + 1])
    BY <1>3, BeforeOrders
  <2> QED BY <1>2, <2>1, <2>2
<1>5. Returned(f) <=> Comebacks(q)' # {}
  BY <1>0, CountsNext
<1> QED BY <1>4, <1>5

\* Counts and marks follow the timeline.
LEMMA ReturnsNext ==
  ASSUME ExactInv, NEW f \in Frame, Effect(f)
  PROVE  ReturnsAreComebacks'
<1>0. /\ WindowInv /\ Ordered /\ SpansInv /\ ReturnsAreComebacks
  BY DEF ExactInv
<1>1. PICK n \in Nat : n = Len(frames)
  BY <1>0 DEF WindowInv, TypeOK
<1>2. ASSUME NEW q \in Products
      PROVE  returns'[q] = Cardinality(Comebacks(q)') /\ (returns'[q] > 0 => comparisons'[q] > 0)
  BY <1>1, CountsNext
<1>3. ASSUME NEW k \in DOMAIN AllWindows, NEW w, w = AllWindows[k]
      PROVE  w.returned <=> \E i \in Comebacks(w.product)' : ~Before(w.end, frames'[i])
  <2>1. AllWindows[k] \in Window /\ \E i, j \in Indices : SpanOf(AllWindows[k], i, j)
    BY <1>0, WindowsKnown
  <2>2. PICK j \in Indices : w.end = frames[j]
    BY <1>3, <2>1 DEF SpanOf
  <2>3. w.product \in Products /\ w \in ToSet(AllWindows)
    BY <1>3, <2>1 DEF Window, ToSet
  <2>4. w.returned <=> \E i \in Comebacks(w.product) : ~Before(w.end, frames[i])
    BY <1>0, <2>3 DEF ReturnsAreComebacks
  <2>5. PICK q \in Products : q = w.product
    BY <2>3
  <2>7. PICK e : e = w.end
    OBVIOUS
  <2>6. (\E i \in Comebacks(q)' : ~Before(e, frames'[i]))
           <=> (\E i \in Comebacks(q) : ~Before(e, frames[i]))
    BY <1>1, <2>2, <2>7, MarkKept
  <2> QED BY <2>4, <2>5, <2>6, <2>7
<1>4. CASE Prolongs(f)
  <2> DEFINE x == [window EXCEPT !.end = f, !.returned = @ \/ Returned(f)]
  <2>1. /\ AllWindows = Append(windows, window) /\ AllWindows' = Append(windows, x)
        /\ window \in Window /\ window.end = frames[Len(frames)] /\ window.product = Mapped(f)
        /\ windows \in Seq(Window)
    BY <1>0, <1>4 DEF Effect, WindowInv, TypeOK
  <2>2. x.end = f /\ x.product = Mapped(f) /\ Mapped(f) \in Products
        /\ (x.returned <=> (window.returned \/ Returned(f)))
    BY <2>1 DEF Window
  <2> HIDE DEF x
  <2>3. PICK m \in Nat : m = Len(windows) + 1
    BY <2>1
  <2>4. /\ DOMAIN AllWindows = 1..m /\ DOMAIN AllWindows' = 1..m /\ m \in 1..m
        /\ AllWindows[m] = window /\ AllWindows'[m] = x
        /\ \A k \in 1..m : k # m => AllWindows'[k] = AllWindows[k]
    BY <2>1, <2>3
  <2>5. x.returned <=> Returned(f)
    <3>1. ASSUME window.returned PROVE Returned(f)
      <4>1. PICK w : w = window
        OBVIOUS
      <4>2. w.returned <=> \E i \in Comebacks(w.product)' : ~Before(w.end, frames'[i])
        BY <1>3, <2>4, <4>1
      <4>3. PICK q \in Products : q = w.product /\ q = Mapped(f)
        BY <2>1, <2>2, <4>1
      <4>4. Comebacks(q)' # {}
        BY <3>1, <4>1, <4>2, <4>3
      <4> QED BY <1>1, <4>3, <4>4, CountsNext
    <3> QED BY <2>2, <3>1
  <2>6. ASSUME NEW w \in ToSet(AllWindows)'
        PROVE  w.returned <=> \E i \in Comebacks(w.product)' : ~Before(w.end, frames'[i])
    <3>1. PICK k \in 1..m : w = AllWindows'[k]
      BY <2>4 DEF ToSet
    <3>2. CASE k # m
      BY <1>3, <2>4, <3>1, <3>2
    <3>3. CASE k = m
      <4>1. w = x
        BY <2>4, <3>1, <3>3
      <4>2. PICK q \in Products : q = Mapped(f) /\ q = w.product
        BY <2>2, <4>1
      <4>3. (\E i \in Comebacks(q)' : ~Before(f, frames'[i])) <=> Returned(f)
        BY <4>2, MarkMade
      <4> QED BY <2>2, <2>5, <4>1, <4>2, <4>3
    <3> QED BY <3>2, <3>3
  <2> QED BY <1>2, <2>6 DEF ReturnsAreComebacks
<1>5. CASE ~Prolongs(f)
  <2> DEFINE fresh == [product |-> Mapped(f), start |-> f, end |-> f, returned |-> Returned(f)]
  <2>1. AllWindows' = IF Mapped(f) = None THEN AllWindows ELSE Append(AllWindows, fresh)
    BY <1>5 DEF Effect
  <2>2. AllWindows \in Seq(Window)
    BY <1>0 DEF WindowInv, TypeOK, AllWindows
  <2>3. fresh.end = f /\ fresh.product = Mapped(f) /\ (fresh.returned <=> Returned(f))
    OBVIOUS
  <2>4. Mapped(f) # None => Mapped(f) \in Products
    BY DEF Mapped
  <2> HIDE DEF fresh
  <2>5. ASSUME NEW w \in ToSet(AllWindows)'
        PROVE  w.returned <=> \E i \in Comebacks(w.product)' : ~Before(w.end, frames'[i])
    <3>1. CASE \E k \in DOMAIN AllWindows : w = AllWindows[k]
      BY <1>3, <3>1
    <3>2. CASE Mapped(f) # None /\ w = fresh
      <4>1. PICK q \in Products : q = Mapped(f) /\ q = w.product
        BY <2>3, <2>4, <3>2
      <4>2. (\E i \in Comebacks(q)' : ~Before(f, frames'[i])) <=> Returned(f)
        BY <4>1, MarkMade
      <4> QED BY <2>3, <3>2, <4>1, <4>2
    <3>3. (\E k \in DOMAIN AllWindows : w = AllWindows[k]) \/ (Mapped(f) # None /\ w = fresh)
      <4>1. PICK k \in DOMAIN AllWindows' : w = AllWindows'[k]
        BY DEF ToSet
      <4>2. CASE Mapped(f) = None
        BY <2>1, <4>1, <4>2
      <4>3. CASE Mapped(f) # None
        <5>1. /\ AllWindows' = Append(AllWindows, fresh)
          BY <2>1, <4>3
        <5>2. (k \in DOMAIN AllWindows /\ AllWindows'[k] = AllWindows[k]) \/ AllWindows'[k] = fresh
          BY <2>2, <4>1, <5>1
        <5> QED BY <4>1, <4>3, <5>2
      <4> QED BY <4>2, <4>3
    <3> QED BY <3>1, <3>2, <3>3
  <2> QED BY <1>2, <2>5 DEF ReturnsAreComebacks
<1> QED BY <1>4, <1>5

-----------------------------------------------------------------------------
(* The invariant holds in every state.                                      *)

\* Before the first frame there is nothing to count.
LEMMA ExactInit == Init => ExactInv
<1> SUFFICES ASSUME Init PROVE ExactInv
  OBVIOUS
<1>1. /\ frames = <<>> /\ windows = <<>> /\ window = NoWindow /\ product = None /\ seen = {}
      /\ dwell = [p \in Products |-> 0] /\ returns = [p \in Products |-> 0]
  BY DEF Init
<1>2. Indices = {} /\ DOMAIN AllWindows = {} /\ ToSet(AllWindows) = {}
  BY <1>1 DEF Indices, AllWindows, ToSet
<1>3. Ordered /\ SpansInv
  BY <1>2 DEF Ordered, SpansInv
<1>4. LoopInv
  <2>1. NoWindow.product = None
    BY DEF NoWindow
  <2> QED BY <1>1, <1>2 DEF LoopInv
<1>5. \A p : Covered(p) = {} /\ Comebacks(p) = {}
  BY <1>2 DEF Covered, Comebacks
<1>6. IsFiniteSet({}) /\ Cardinality({}) = 0
  BY FS_EmptySet
<1>7. DwellInv
  BY <1>1, <1>5, <1>6 DEF DwellInv
<1>8. ReturnsAreComebacks
  <2>1. \A p \in Products : returns[p] = 0 /\ ~(returns[p] > 0)
    BY <1>1
  <2> QED BY <1>2, <1>5, <1>6, <2>1 DEF ReturnsAreComebacks
<1> QED BY <1>3, <1>4, <1>7, <1>8, InitInv DEF ExactInv

\* What the properties say of the timeline depends on nothing else.
LEMMA ExactKept ==
  ASSUME ExactInv, WindowInv', LoopInv', AllWindows' = AllWindows,
         UNCHANGED <<frames, dwell, returns, comparisons>>
  PROVE  ExactInv'
<1>1. /\ frames' = frames /\ dwell' = dwell /\ returns' = returns /\ comparisons' = comparisons
      /\ AllWindows' = AllWindows
  OBVIOUS
<1>2. Indices' = Indices /\ \A i : Look(i)' = Look(i) /\ (Starts(i)' <=> Starts(i))
  BY <1>1 DEF Indices, Look, Starts
<1>3. \A i, j : Stretch(i, j)' <=> Stretch(i, j)
  BY <1>2 DEF Stretch
<1>4. \A i, j : Maximal(i, j)' <=> Maximal(i, j)
  BY <1>1, <1>3 DEF Maximal
<1>5. Ordered'
  BY <1>1, <1>2 DEF Ordered, ExactInv
<1>6. SpansInv'
  <2>1. \A w, i, j : SpanOf(w, i, j)' <=> SpanOf(w, i, j)
    BY <1>1, <1>2 DEF SpanOf
  <2>2. SpansInv
    BY DEF ExactInv
  <2>3. ASSUME NEW k \in DOMAIN AllWindows
        PROVE  \A i, j : SpanOf(AllWindows[k], i, j)' <=> SpanOf(AllWindows[k], i, j)
    BY <1>1, <1>2 DEF SpanOf
  <2>4. \A k \in DOMAIN AllWindows' :
          \E i, j \in Indices' : SpanOf(AllWindows[k], i, j)' /\ Maximal(i, j)'
    BY <1>1, <1>2, <1>4, <2>2, <2>3 DEF SpansInv
  <2>5. \A i, j \in Indices' :
          Maximal(i, j)' => \E k \in DOMAIN AllWindows' : SpanOf(AllWindows[k], i, j)'
    BY <1>1, <1>2, <1>4, <2>2, <2>3 DEF SpansInv
  <2>6. \A k, l \in DOMAIN AllWindows' :
          k < l => Before(AllWindows'[k].end, AllWindows'[l].start)
    BY <1>1, <2>2 DEF SpansInv
  <2> QED BY <2>4, <2>5, <2>6 DEF SpansInv
<1>7. DwellInv'
  <2>1. \A p : Covered(p)' = Covered(p)
    BY <1>1 DEF Covered
  <2> QED BY <1>1, <2>1 DEF DwellInv, ExactInv
<1>8. ReturnsAreComebacks'
  <2>1. \A i : SeenBefore(i)' <=> SeenBefore(i)
    BY <1>2 DEF SeenBefore
  <2>2. \A p : Comebacks(p)' = Comebacks(p)
    BY <1>2, <2>1 DEF Comebacks
  <2>3. ReturnsAreComebacks
    BY DEF ExactInv
  <2>4. \A p \in Products : returns'[p] = Cardinality(Comebacks(p)')
                            /\ (returns'[p] > 0 => comparisons'[p] > 0)
    BY <1>1, <2>2, <2>3 DEF ReturnsAreComebacks
  <2>5. \A w \in ToSet(AllWindows)' :
          w.returned <=> \E i \in Comebacks(w.product)' : ~Before(w.end, frames'[i])
    BY <1>1, <2>2, <2>3 DEF ReturnsAreComebacks
  <2> QED BY <2>4, <2>5 DEF ReturnsAreComebacks
<1> QED BY <1>5, <1>6, <1>7, <1>8 DEF ExactInv

\* Every frame, and the end of the loop, keep it.
LEMMA ExactNext == ASSUME ExactInv, [Next]_vars PROVE ExactInv'
<1>1. WindowInv /\ LoopInv /\ Ordered /\ SpansInv
  BY DEF ExactInv
<1>2. WindowInv'
  BY <1>1, NextInv
<1>3. CASE Step
  <2>1. PICK f \in Frame : Effect(f)
    BY <1>1, <1>3, StepEffect
  <2>2. frames \in Seq(Frame)
    BY <1>1 DEF WindowInv, TypeOK
  <2>3. Ordered' /\ LoopInv' /\ ReturnsAreComebacks'
    BY <1>1, <2>1, <2>2, OrderedNext, LoopNext, ReturnsNext
  <2>4. CASE Prolongs(f)
    BY <1>1, <1>2, <2>1, <2>3, <2>4, SpansProlonged, DwellProlonged DEF ExactInv
  <2>5. CASE ~Prolongs(f)
    BY <1>1, <1>2, <2>1, <2>3, <2>5, SpansStarted, DwellStarted DEF ExactInv
  <2> QED BY <2>4, <2>5
<1>4. CASE Finish
  <2>1. /\ windows' = Closing(None, window, windows) /\ window' = NoWindow /\ done' = TRUE
        /\ UNCHANGED <<frames, dwell, returns, comparisons>>
    BY <1>4 DEF Finish
  <2>2. window # NoWindow => window.product # None
    BY <1>1, EvidenceAssumption DEF WindowInv, TypeOK, Window, None
  <2>3. AllWindows' = windows'
    BY <2>1 DEF AllWindows
  <2>4. AllWindows' = AllWindows
    BY <2>1, <2>2, <2>3 DEF AllWindows, Closing
  <2>5. LoopInv'
    BY <2>1 DEF LoopInv
  <2> QED BY <1>2, <2>1, <2>4, <2>5, ExactKept
<1>5. CASE UNCHANGED vars
  <2>1. /\ AllWindows' = AllWindows /\ UNCHANGED <<frames, dwell, returns, comparisons>>
    BY <1>5 DEF vars, AllWindows, NoWindow, None
  <2>2. LoopInv'
    BY <1>1, <1>5 DEF vars, LoopInv, Indices, Look, Starts, NoWindow, None
  <2> QED BY <1>2, <2>1, <2>2, ExactKept
<1> QED BY <1>3, <1>4, <1>5 DEF Next

\* The invariant is what the properties say.
LEMMA ExactIsExact == ExactInv => WindowsExact
<1> SUFFICES ASSUME ExactInv PROVE WindowsExact
  OBVIOUS
<1>1. /\ WindowInv /\ SpansInv /\ DwellInv /\ ReturnsAreComebacks /\ TypeOK
  BY DEF ExactInv, WindowInv
<1>2. AllWindows \in Seq(Window)
  BY <1>1 DEF TypeOK, AllWindows
<1>3. WindowsAreStretches
  <2> DEFINE ends == {<<w.start, w.end>> : w \in ToSet(AllWindows)}
             spans == {<<frames[s[1]], frames[s[2]]>> :
                         s \in {r \in Indices \X Indices : Maximal(r[1], r[2])}}
  <2>1. ASSUME NEW k \in DOMAIN AllWindows
        PROVE  /\ AllWindows[k].product = Mapped(AllWindows[k].start)
               /\ <<AllWindows[k].start, AllWindows[k].end>> \in spans
    <3>1. PICK i \in Indices, j \in Indices : SpanOf(AllWindows[k], i, j) /\ Maximal(i, j)
      BY <1>1 DEF SpansInv
    <3>2. <<i, j>> \in {r \in Indices \X Indices : Maximal(r[1], r[2])}
      BY <3>1
    <3> QED BY <3>1, <3>2 DEF SpanOf, Look
  <2>2. ASSUME NEW i \in Indices, NEW j \in Indices, Maximal(i, j)
        PROVE  <<frames[i], frames[j]>> \in ends
    <3>1. PICK k \in DOMAIN AllWindows : SpanOf(AllWindows[k], i, j)
      BY <1>1, <2>2 DEF SpansInv
    <3>2. AllWindows[k] \in ToSet(AllWindows)
      BY DEF ToSet
    <3> QED BY <3>1, <3>2 DEF SpanOf
  <2>3. ends \subseteq spans
    BY <2>1 DEF ToSet
  <2>4. spans \subseteq ends
    BY <2>2
  <2>5. \A k \in DOMAIN AllWindows : k > 1 => Before(AllWindows[k - 1].end, AllWindows[k].start)
    <3>1. SUFFICES ASSUME NEW k \in DOMAIN AllWindows, k > 1
                   PROVE  Before(AllWindows[k - 1].end, AllWindows[k].start)
      OBVIOUS
    <3>2. k - 1 \in DOMAIN AllWindows /\ k - 1 < k
      BY <1>2, <3>1
    <3> QED BY <1>1, <3>2 DEF SpansInv
  <2> QED BY <2>1, <2>3, <2>4, <2>5 DEF WindowsAreStretches
<1>4. DwellIsCovered
  BY <1>1 DEF DwellInv, DwellIsCovered
<1> QED BY <1>1, <1>3, <1>4 DEF WindowsExact

\* For every timeline the buffer can hand over, of any length, the windows of
\* summarize_observations are the maximal stretches of continuous frames of one
\* product, a dwell time is the length of its product's windows, and a return
\* candidate is a frame on a product that was seen since the last discontinuity,
\* after a frame that is not on it or has no gaze.
THEOREM WindowsAreExact == Spec => []WindowsExact
BY ExactInit, ExactNext, ExactIsExact, PTL DEF Spec
=============================================================================
