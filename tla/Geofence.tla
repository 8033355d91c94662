------------------------------ MODULE Geofence ------------------------------
(***************************************************************************)
(* The geometry of the mission planner (lib/missionPlanning.js): is a      *)
(* point inside the fence, does a mission stay inside it, and the lines of *)
(* a survey grid, drawn in a small plane.                                  *)
(*                                                                         *)
(* The plane is the local one in metres, of whole coordinates: the fence   *)
(* test is the same in degrees, which only stretch it.  Quotients are      *)
(* compared multiplied out and distances squared, without rounding.        *)
(* Headings are those that turn whole points into whole points, 0 and 90.  *)
(***************************************************************************)
EXTENDS Integers, Sequences, FiniteSets
LOCAL INSTANCE FiniteSetsExt
LOCAL INSTANCE SequencesExt

CONSTANTS
  Fences,       \* polygons a user may have drawn
  Spots,        \* the places where a waypoint may be put
  GridOptions,  \* [lineSpacing, headingAngle, overlapPercent, edgeMargin, turnaround]
  MaxPlaced     \* bound: waypoints put on the map by hand

VARIABLES
  geofence,     \* the fence
  mission,      \* the waypoints
  surveyed      \* the options of the grid they come from; none if put by hand

geoVars == <<geofence, mission, surveyed>>

At2(x, y) == [x |-> x, y |-> y]
Point == [x : Int, y : Int]

ASSUME FenceAssumption ==
  /\ Fences \subseteq Seq(Point) /\ Spots \subseteq Point
  /\ \A o \in GridOptions :
       /\ o.headingAngle \in {0, 90}
       /\ o.lineSpacing \in Int /\ o.overlapPercent \in Int /\ o.edgeMargin \in Int

GeoTypeOK ==
  /\ geofence \in Fences
  /\ \A i \in 1..Len(mission) :
       mission[i].command \in {"NAV_WAYPOINT", "NAV_LOITER_TIME"}
  /\ surveyed \subseteq GridOptions

GeoInit == geofence \in Fences /\ mission = <<>> /\ surveyed = {}

-----------------------------------------------------------------------------
(* Inside the fence, and far enough from its edges.                        *)

\* The i-th edge and the one the loop pairs with it: from the vertex before.
Before(polygon, i) == polygon[IF i = 1 THEN Len(polygon) ELSE i - 1]
After(polygon, i) == polygon[(i % Len(polygon)) + 1]

\* The ray from p towards greater x crosses the edge between a and b.
Intersects(p, a, b) ==
  /\ (a.y > p.y) # (b.y > p.y)
  /\ LET across == (p.x - a.x) * (b.y - a.y)
         along == (b.x - a.x) * (p.y - a.y)
     IN IF b.y > a.y THEN across < along ELSE across > along

isPointInPolygon(p, polygon) ==
  /\ Len(polygon) >= 3
  /\ Cardinality({i \in 1..Len(polygon) : Intersects(p, polygon[i], Before(polygon, i))}) % 2 = 1

\* The distance of p from the segment between a and b is less than m.
CloserThan(m, p, a, b) ==
  LET dx == b.x - a.x
      dy == b.y - a.y
      len2 == dx * dx + dy * dy
      dot == (p.x - a.x) * dx + (p.y - a.y) * dy
      cross == (p.x - a.x) * dy - (p.y - a.y) * dx
      Dist2(q) == (p.x - q.x) * (p.x - q.x) + (p.y - q.y) * (p.y - q.y)
  IN CASE len2 = 0 \/ dot <= 0 -> Dist2(a) < m * m
       [] dot >= len2 -> Dist2(b) < m * m
       [] OTHER -> cross * cross < m * m * len2

isInsideWithMargin(p, polygon, edgeMargin) ==
  /\ isPointInPolygon(p, polygon)
  /\ edgeMargin > 0 =>
       \A i \in 1..Len(polygon) : ~ CloserThan(edgeMargin, p, polygon[i], After(polygon, i))

-----------------------------------------------------------------------------
(* A mission against the fence.                                            *)

\* Ten times the plane, in which the tenths of a leg are whole.
Tenfold(polygon) == [i \in 1..Len(polygon) |-> At2(10 * polygon[i].x, 10 * polygon[i].y)]

Sample(a, b, s) == At2(10 * a.x + s * (b.x - a.x), 10 * a.y + s * (b.y - a.y))

\* Are there no reasons against it?
validateMissionAgainstGeofence(waypoints, polygon) ==
  /\ Len(polygon) >= 3
  /\ waypoints # <<>>
  /\ \A i \in 1..Len(waypoints) : isPointInPolygon(waypoints[i], polygon)
  /\ \A i \in 1..(Len(waypoints) - 1), s \in 1..9 :
       isPointInPolygon(Sample(waypoints[i], waypoints[i + 1], s), Tenfold(polygon))

-----------------------------------------------------------------------------
(* The grid.                                                               *)

\* By 0 or 90 degrees, and back.
rotateXY(p, angle) == CASE angle = 0   -> p
                        [] angle = 90  -> At2(-p.y, p.x)
                        [] angle = -90 -> At2(p.y, -p.x)

AtLeast(n, m) == IF m < n THEN n ELSE m

effectiveSpacing(o) ==
  LET overlap == AtLeast(0, IF o.overlapPercent > 90 THEN 90 ELSE o.overlapPercent)
  IN AtLeast(1, (AtLeast(1, o.lineSpacing) * (100 - overlap)) \div 100)

\* Mutant: the margin is kept from the ends of the grid only.
XsToTheEdge(polygon, o, xs, y) ==
  {x \in Min(xs)..Max(xs) : isPointInPolygon(rotateXY(At2(x, y), o.headingAngle), polygon)}

\* The places of the line at height y at which the fence is looked at and lets
\* it pass, the heading turned to the x axis.
InsideXs(polygon, o, xs, y) ==
  LET sampleStep == AtLeast(1, effectiveSpacing(o) \div 4)
  IN {x \in Min(xs)..Max(xs) :
       /\ (x - Min(xs)) % sampleStep = 0
       /\ isInsideWithMargin(rotateXY(At2(x, y), o.headingAngle), polygon, AtLeast(0, o.edgeMargin))}

Stop(p, o, command) ==
  LET q == rotateXY(p, o.headingAngle) IN [x |-> q.x, y |-> q.y, command |-> command]

\* A line of the grid: to the end and on to the next, with a pause at each or not.
Line(o, from, to, y) ==
  LET Ends2(x) == IF o.turnaround = "edge_pause"
                  THEN <<Stop(At2(x, y), o, "NAV_WAYPOINT"), Stop(At2(x, y), o, "NAV_LOITER_TIME")>>
                  ELSE <<Stop(At2(x, y), o, "NAV_WAYPOINT")>>
  IN Ends2(from) \o Ends2(to)

\* Line by line from the lowest; one with less than two places is left out, and every
\* other that is flown is flown backwards.
generateGridWaypoints(polygon, o) ==
  IF Len(polygon) < 3 THEN <<>> ELSE
  LET local == [i \in 1..Len(polygon) |-> rotateXY(polygon[i], -o.headingAngle)]
      xs == {local[i].x : i \in 1..Len(local)}
      ys == {local[i].y : i \in 1..Len(local)}
      from == Min(ys) + AtLeast(0, o.edgeMargin)
      to == Max(ys) - AtLeast(0, o.edgeMargin)
      Height(k) == from + (k - 1) * effectiveSpacing(o)
      insideXs == [k \in 1..AtLeast(0, ((to - from) \div effectiveSpacing(o)) + 1) |->
                     InsideXs(polygon, o, xs, Height(k))]
      flown == {k \in DOMAIN insideXs : Cardinality(insideXs[k]) >= 2}
      Flight(k) == LET startX == Min(insideXs[k])
                       endX == Max(insideXs[k])
                       reverse == Cardinality({j \in flown : j < k}) % 2 = 1
                   IN IF reverse THEN Line(o, endX, startX, Height(k))
                                 ELSE Line(o, startX, endX, Height(k))
  IN FlattenSeq([k \in DOMAIN insideXs |-> IF k \in flown THEN Flight(k) ELSE <<>>])

-----------------------------------------------------------------------------
(* Waypoints come from clicks, or all at once from the grid.               *)

PlaceWaypoint(p) ==
  /\ surveyed = {} /\ Len(mission) < MaxPlaced
  /\ mission' = Append(mission, [x |-> p.x, y |-> p.y, command |-> "NAV_WAYPOINT"])
  /\ UNCHANGED <<geofence, surveyed>>

SurveyFence(o) ==
  /\ generateGridWaypoints(geofence, o) # <<>>
  /\ mission' = generateGridWaypoints(geofence, o)
  /\ surveyed' = {o}
  /\ UNCHANGED geofence

GeoNext ==
  \/ \E p \in Spots : PlaceWaypoint(p)
  \/ \E o \in GridOptions : SurveyFence(o)

GeoSpec == GeoInit /\ [][GeoNext]_geoVars

-----------------------------------------------------------------------------
(* What is meant, by the side of a line on which a point lies.             *)

Side(a, b, p) == (b.x - a.x) * (p.y - a.y) - (b.y - a.y) * (p.x - a.x)

WithinTriangle(a, b, c, p) ==
  \/ Side(a, b, p) > 0 /\ Side(b, c, p) > 0 /\ Side(c, a, p) > 0
  \/ Side(a, b, p) < 0 /\ Side(b, c, p) < 0 /\ Side(c, a, p) < 0

\* On none of the lines that the fan of triangles from the first vertex is made of.
OffTheLines(p, polygon) ==
  LET n == Len(polygon)
  IN /\ \A i \in 1..n : Side(polygon[i], After(polygon, i), p) # 0
     /\ \A i \in 2..n : Side(polygon[1], polygon[i], p) # 0

\* The triangles of the fan p lies in.
FanAround(p, polygon) ==
  {i \in 2..(Len(polygon) - 1) : WithinTriangle(polygon[1], polygon[i], polygon[i + 1], p)}

\* Of each edge, all vertices but its own are strictly on the same side, and it is the
\* same of all edges: no dents, and no crossings.
Convex(polygon) == \A i, k \in 1..Len(polygon) :
  LET Outer(e) == {j \in 1..Len(polygon) : j # e /\ j # (e % Len(polygon)) + 1}
      S(e, j) == Side(polygon[e], After(polygon, e), polygon[j])
  IN \A j \in Outer(i), l \in Outer(k) : S(i, j) * S(k, l) > 0

\* The ray cast finds a point inside exactly when it lies in an odd number of
\* the triangles of a fan over the fence (missionPlanning.js:39-57).
InsideAsMeant == \A p \in Spots : OffTheLines(p, geofence) =>
  (isPointInPolygon(p, geofence) <=> Cardinality(FanAround(p, geofence)) % 2 = 1)

\* In a fence without dents a mission is valid exactly when each of its
\* waypoints is inside: the samples of the legs add nothing and refuse nothing
\* (missionPlanning.js:88-120).
LegsFollow == Convex(geofence) /\ mission # <<>> =>
  (validateMissionAgainstGeofence(mission, geofence) <=>
     \A i \in 1..Len(mission) : isPointInPolygon(mission[i], geofence))

\* A grid stays clear of every edge by the margin asked for, and one over a
\* fence without dents passes the validation (missionPlanning.js:147-210).
GridKeepsClear == Convex(geofence) => \A o \in surveyed :
  /\ validateMissionAgainstGeofence(mission, geofence)
  /\ \A i \in 1..Len(mission), k \in 1..Len(geofence) :
       LET a == geofence[k]
           b == After(geofence, k)
           side == Side(a, b, mission[i])
           margin == AtLeast(0, o.edgeMargin)
       IN side * side >= margin * margin *
                         ((b.x - a.x) * (b.x - a.x) + (b.y - a.y) * (b.y - a.y))

\* The fence keeps in what is meant to be kept in.  It does not change with the mission.
FenceIsRight == (mission = <<>> => InsideAsMeant) /\ LegsFollow /\ GridKeepsClear
=============================================================================
