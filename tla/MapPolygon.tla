----------------------------- MODULE MapPolygon -----------------------------
(***************************************************************************)
(* The shape of a lanelet or an area: parse_area_point_refs (and its twin  *)
(* parse_point_refs) resolves the element's point references one by one,   *)
(* and point_in_polygon and map_service_get_conflict_zone_center are asked *)
(* about the result.                                                       *)
(*                                                                         *)
(* Coordinates are integers; on them the code's tolerances (1e-9 for a     *)
(* point on a side, 1e-12 against division by zero) decide nothing, and    *)
(* the quotients are compared after multiplying out.                       *)
(***************************************************************************)
EXTENDS Integers, Sequences, FiniteSets, SequencesExt

CONSTANTS
  PointTags,         \* the point elements of the file, a sequence of [id, x, y]
  PointRefs,         \* the ids that references may name
  Probes,            \* positions [x, y] of a vehicle
  MaxPoints,         \* MAP_MAX_POINTS
  MaxPolygonPoints,  \* MAP_MAX_POLYGON_POINTS
  DocRefs            \* bounds the references of the element

VARIABLES
  polygon,  \* area_points with point_count
  refs,     \* how many references have been read
  done      \* the end of the element, or of the room, has been reached

vars == <<polygon, refs, done>>

\* parse_points: what does not fit is left out.
PointTable == SubSeq(PointTags, 1, IF Len(PointTags) < MaxPoints THEN Len(PointTags)
                                                                 ELSE MaxPoints)

\* find_point: the first with the id, or 0.
FindPoint(id) == SelectInSeq(PointTable, LAMBDA p : p.id = id)

Init == polygon = <<>> /\ refs = 0 /\ done = FALSE

\* A reference that cannot be resolved is passed over; the polygon has a corner less.
ParseRef ==
  /\ ~done /\ refs < DocRefs
  /\ \E id \in PointRefs :
       LET i == FindPoint(id)
       IN  polygon' = IF i = 0 \/ Len(polygon) >= MaxPolygonPoints THEN polygon
                      ELSE Append(polygon, [x |-> PointTable[i].x, y |-> PointTable[i].y])
  /\ refs' = refs + 1
  /\ done' = (Len(polygon) >= MaxPolygonPoints)

EndOfElement ==
  /\ ~done /\ done' = TRUE
  /\ UNCHANGED <<polygon, refs>>

Next == ParseRef \/ EndOfElement
Spec == Init /\ [][Next]_vars

-----------------------------------------------------------------------------
Cross(p, a, b) == (p.x - a.x) * (b.y - a.y) - (p.y - a.y) * (b.x - a.x)
Dot(p, a, b) == (p.x - a.x) * (b.x - a.x) + (p.y - a.y) * (b.y - a.y)

\* Mutant: the side counts as a whole line to one end.
OnRay(p, a, b) == Cross(p, a, b) = 0 /\ Dot(p, a, b) >= 0
OnSegment(p, a, b) ==
  Cross(p, a, b) = 0 /\ Dot(p, a, b) >= 0 /\ Dot(p, a, b) <= Dot(b, a, b)

\* The ray from p to the right crosses the side from a to b.  Mutants: one end of a
\* side at the height of the ray counts as above it, the other as below; and the
\* quotient is not turned around for a side that goes down.
CrossesFromCorner(p, a, b) ==
  /\ (a.y >= p.y) # (b.y > p.y)
  /\ IF b.y > a.y THEN (p.x - a.x) * (b.y - a.y) < (b.x - a.x) * (p.y - a.y)
                  ELSE (p.x - a.x) * (b.y - a.y) > (b.x - a.x) * (p.y - a.y)
CrossesUpwards(p, a, b) ==
  /\ (a.y > p.y) # (b.y > p.y)
  /\ (p.x - a.x) * (b.y - a.y) < (b.x - a.x) * (p.y - a.y)

Crosses(p, a, b) ==
  /\ (a.y > p.y) # (b.y > p.y)
  /\ IF b.y > a.y THEN (p.x - a.x) * (b.y - a.y) < (b.x - a.x) * (p.y - a.y)
                  ELSE (p.x - a.x) * (b.y - a.y) > (b.x - a.x) * (p.y - a.y)

After(poly, i) == poly[(i % Len(poly)) + 1]

\* Even-odd: the code's flag turns over with each side that is crossed.
Holds(p, poly, sides) ==
  /\ Len(poly) >= 3
  /\ \/ \E i \in sides : OnSegment(p, poly[i], After(poly, i))
     \/ Cardinality({i \in sides : Crosses(p, poly[i], After(poly, i))}) % 2 = 1

\* Mutant: the side from the last corner to the first is forgotten.
PointInOpenPolygon(p, poly) == Holds(p, poly, 1..(Len(poly) - 1))
PointInPolygon(p, poly) == Holds(p, poly, DOMAIN poly)

\* map_service_get_conflict_zone_center: the mean of the corners, as their sum and
\* their number.  Mutant: the last corner is left out of the sum.
Sum(poly) ==
  LET upTo[n \in 0..Len(poly)] ==
        IF n = 0 THEN [x |-> 0, y |-> 0]
                 ELSE [x |-> upTo[n - 1].x + poly[n].x, y |-> upTo[n - 1].y + poly[n].y]
  IN  upTo[Len(poly)]
CenterWithoutLast(poly) == [sum |-> Sum(Front(poly)), count |-> Len(poly)]
Center(poly) == [sum |-> Sum(poly), count |-> Len(poly)]

-----------------------------------------------------------------------------
(***************************************************************************)
(* Properties.                                                             *)
(***************************************************************************)

\* Convex, with no straight corner: a ring of up to four sides that turns the same
\* way at each.
Turn(poly, i) == Cross(After(poly, i), poly[i], After(poly, (i % Len(poly)) + 1))
Convex(poly) ==
  /\ Len(poly) \in 3..4
  /\ \/ \A i \in DOMAIN poly : Turn(poly, i) > 0
     \/ \A i \in DOMAIN poly : Turn(poly, i) < 0

\* A convex lane or zone holds exactly the positions that lie on the same side of
\* all its sides, its border and corners included (point_in_polygon's ray casting
\* with the border test before it).
ConvexMeansAllHalfPlanes ==
  Convex(polygon) => \A p \in Probes :
    PointInPolygon(p, polygon) <=>
      \/ \A i \in DOMAIN polygon : Cross(p, polygon[i], After(polygon, i)) >= 0
      \/ \A i \in DOMAIN polygon : Cross(p, polygon[i], After(polygon, i)) <= 0

\* Which corner the file names first and which way round it goes does not change
\* what a polygon holds, even if it crosses itself or has corners twice.
CornerOrderDoesNotMatter ==
  Len(polygon) >= 3 => \A p \in Probes :
    LET inside == PointInPolygon(p, polygon)
    IN  /\ PointInPolygon(p, Reverse(polygon)) = inside
        /\ PointInPolygon(p, Append(Tail(polygon), Head(polygon))) = inside

\* A road cut into two lanes along a line between two of its corners has no gap: a
\* position on the road is on one of the lanes, the cut included.
NoGapBetweenNeighbours ==
  \A k \in 3..(Len(polygon) - 1) : \A p \in Probes :
    PointInPolygon(p, polygon) =>
      \/ PointInPolygon(p, SubSeq(polygon, 1, k))
      \/ PointInPolygon(p, <<polygon[1]>> \o SubSeq(polygon, k, Len(polygon)))

\* A corner lost to a reference that the file does not resolve never makes a convex
\* lane hold a position that it did not hold.
LostCornerOnlyShrinks ==
  Convex(polygon) => \A i \in DOMAIN polygon : \A p \in Probes :
    PointInPolygon(p, RemoveAt(polygon, i)) => PointInPolygon(p, polygon)

\* The centre of a convex conflict zone, to which vehicles are told to look, lies in
\* the zone (compared after scaling by the number of corners).
ZoneCenterLiesInZone ==
  Convex(polygon) =>
    LET c == Center(polygon)
    IN  PointInPolygon(c.sum, [i \in DOMAIN polygon |->
                                 [x |-> c.count * polygon[i].x, y |-> c.count * polygon[i].y]])

\* The polygon stays within its array and its corners are points of the file that
\* fit into the point table.
TypeOK ==
  /\ Len(polygon) <= MaxPolygonPoints
  /\ \A p \in ToSet(polygon) : \E i \in DOMAIN PointTags \cap (1..MaxPoints) :
       p.x = PointTags[i].x /\ p.y = PointTags[i].y
  /\ refs \in 0..DocRefs /\ done \in BOOLEAN
=============================================================================
