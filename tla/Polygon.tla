------------------------------- MODULE Polygon -------------------------------
(***************************************************************************)
(* Does a point lie in an area?  The code asks in three places: where a     *)
(* frame is mapped to product areas (v2_aoi.py), where to source areas      *)
(* (source_aoi.py), and in the replay gateway (gateway.py).  Coordinates    *)
(* are points of a grid; the epsilon of 1e-9 is below its width, and a      *)
(* quotient is compared by its product.                                     *)
(*                                                                         *)
(* A polygon is drawn corner by corner and then looked at.                  *)
(***************************************************************************)
EXTENDS Integers, Sequences, FiniteSets

CONSTANTS Corners, Spots, MaxCorners  \* grid points, points looked at; bound

ASSUME PolygonAssumption == Corners \subseteq Int \X Int /\ Spots \subseteq Int \X Int

VARIABLES corners, spot
polygonVars == <<corners, spot>>

X(p) == p[1]
Y(p) == p[2]
Nowhere == <<>>

Preceding(s, i) == s[IF i = 1 THEN Len(s) ELSE i - 1]

\* The sum of the shoelace formula over a polygon's edges (AoiShapeV2); the
\* sums of up to four terms are spelled out by a function on its indices.
TwiceArea(s) ==
  LET sum[i \in 0..Len(s)] ==
        IF i = 0 THEN 0
        ELSE sum[i - 1] + X(Preceding(s, i)) * Y(s[i]) - X(s[i]) * Y(Preceding(s, i))
  IN sum[Len(s)]

IsShape(s) == Len(s) \in 3..64 /\ TwiceArea(s) # 0

Cross(p, a, b) == (Y(p) - Y(a)) * (X(b) - X(a)) - (X(p) - X(a)) * (Y(b) - Y(a))

Between(c, a, b) == (a <= c /\ c <= b) \/ (b <= c /\ c <= a)

\* _point_on_segment
OnSegment(p, a, b) ==
  Cross(p, a, b) = 0 /\ Between(X(p), X(a), X(b)) /\ Between(Y(p), Y(a), Y(b))

\* Mutant: an edge that only touches p's height counts twice.
CrossesClosed(p, a, b) ==
  /\ (Y(b) >= Y(p)) # (Y(a) > Y(p))
  /\ IF Y(a) > Y(b)
       THEN (X(p) - X(b)) * (Y(a) - Y(b)) < (X(a) - X(b)) * (Y(p) - Y(b))
       ELSE (X(p) - X(b)) * (Y(a) - Y(b)) > (X(a) - X(b)) * (Y(p) - Y(b))

\* The edge passes p's height to its right.
Crosses(p, a, b) ==
  /\ (Y(b) > Y(p)) # (Y(a) > Y(p))
  /\ IF Y(a) > Y(b)
       THEN (X(p) - X(b)) * (Y(a) - Y(b)) < (X(a) - X(b)) * (Y(p) - Y(b))
       ELSE (X(p) - X(b)) * (Y(a) - Y(b)) > (X(a) - X(b)) * (Y(p) - Y(b))

Odd(set) == Cardinality(set) % 2 = 1

\* _point_in_polygon
Inside(p, s) ==
  \/ \E i \in DOMAIN s : OnSegment(p, Preceding(s, i), s[i])
  \/ Odd({i \in DOMAIN s : Crosses(p, Preceding(s, i), s[i])})

\* _point_is_on_segment
SourceOnSegment(p, a, b) ==
  /\ (X(p) - X(a)) * (Y(b) - Y(a)) = (Y(p) - Y(a)) * (X(b) - X(a))
  /\ Between(X(p), X(a), X(b)) /\ Between(Y(p), Y(a), Y(b))

\* point_is_inside_polygon
SourceInside(p, s) ==
  \/ \E i \in DOMAIN s : SourceOnSegment(p, Preceding(s, i), s[i])
  \/ Odd({i \in DOMAIN s : Crosses(p, Preceding(s, i), s[i])})

\* point_in_polygon, which knows no boundary
ReplayInside(p, s) == Odd({i \in DOMAIN s : Crosses(p, Preceding(s, i), s[i])})

PolygonInit == corners = <<>> /\ spot = Nowhere

Draw(c) ==
  /\ Len(corners) < MaxCorners /\ spot = Nowhere
  /\ corners' = Append(corners, c) /\ UNCHANGED spot

LookAt(p) == spot = Nowhere /\ IsShape(corners) /\ spot' = p /\ UNCHANGED corners

PolygonNext == (\E c \in Corners : Draw(c)) \/ \E p \in Spots : LookAt(p)

-----------------------------------------------------------------------------
(* Properties.                                                              *)

\* The polygon read from its k-th corner, and read backwards.
From(s, k) == [i \in DOMAIN s |-> s[((i + k - 2) % Len(s)) + 1]]
Backwards(s) == [i \in DOMAIN s |-> s[Len(s) + 1 - i]]

LookedAt(s, p) == p # Nowhere /\ IsShape(s)

\* A point is in a triangle if it is on no outer side of an edge; in any
\* polygon, where its list begins and which way it runs do not matter. The
\* three functions agree, except for the replay's on the boundary.
InsideIsRight ==
  LookedAt(corners, spot) =>
    LET s == corners p == spot IN
      /\ Len(s) = 3 =>
           (Inside(p, s) <=>
              \/ \A i \in 1..3 : Cross(p, Preceding(s, i), s[i]) >= 0
              \/ \A i \in 1..3 : Cross(p, Preceding(s, i), s[i]) <= 0)
      /\ \A k \in DOMAIN s : Inside(p, From(s, k)) = Inside(p, s)
      /\ Inside(p, Backwards(s)) = Inside(p, s)
      /\ SourceInside(p, s) = Inside(p, s)
      /\ ReplayInside(p, s) => Inside(p, s)
      /\ Inside(p, s) /\ ~ReplayInside(p, s) =>
           \E i \in DOMAIN s : OnSegment(p, Preceding(s, i), s[i])
=============================================================================
