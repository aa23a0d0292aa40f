--------------------------- MODULE GeographicRing ---------------------------
(***************************************************************************)
(* One part of a source polygon on its way to a canonical ring: the        *)
(* shapefile reader (src/src/source/shapefile.cpp), the Natural Earth      *)
(* adapter (natural_earth.cpp), the canonicalization and the area of       *)
(* src/src/geometry/geographic.cpp, and the storage's own validation       *)
(* (src/src/storage/dataset.cpp).                                          *)
(*                                                                         *)
(* Longitudes and latitudes are integers, so that comparisons within a     *)
(* tolerance in the code are comparisons here.  The authalic function q is *)
(* the identity: any monotone odd q has the topology of the real one, and  *)
(* with this one the integral along an edge is exact.                      *)
(***************************************************************************)
EXTENDS Integers, Sequences, SequencesExt

CONSTANTS
  Turn,      (* a whole turn of longitude.                                 *)
  Pole,      (* the latitude of the north pole.                            *)
  Roundoff   (* how far a source coordinate may lie outside its range,     *)
             (* kBoundaryRoundoffUlps in the code.                         *)

ASSUME RingAssumption ==
  /\ Turn \in Nat \ {0} /\ Turn % 2 = 0
  /\ Pole \in Nat \ {0}
  /\ Roundoff \in Nat

HalfTurn == Turn \div 2
Abs(x) == IF x < 0 THEN -x ELSE x
Point(lon, lat) == [lon |-> lon, lat |-> lat]

(* std::remainder by a turn: to the nearest multiple, ties to the even one. *)
Remainder(x) ==
  LET r == x % Turn IN
  IF r < HalfTurn \/ (r = HalfTurn /\ (x \div Turn) % 2 = 0) THEN r ELSE r - Turn

(* As PrincipalLongitude, without the step that excludes minus half a turn. *)
PrincipalLongitude_Closed(lon) == Remainder(lon)

PrincipalLongitude(lon) ==
  LET value == Remainder(lon) IN IF value <= -HalfTurn THEN value + Turn ELSE value

AmbiguousHalfTurn(delta) == Abs(delta) = HalfTurn

(***************************************************************************)
(* A linear ring: vertices whose longitudes are unwrapped, the longitude   *)
(* at which it closes, whole turns of winding, and the side of its         *)
(* interior in the order of traversal.                                     *)
(***************************************************************************)
LinearRing(vertices, closing, winding, side) ==
  [vertices |-> vertices, closing |-> closing, winding |-> winding, side |-> side]

EdgeEnd(ring, i) ==
  IF i < Len(ring.vertices) THEN ring.vertices[i + 1]
  ELSE Point(ring.closing, ring.vertices[1].lat)

Failed(error) == [error |-> error]
Ok(ring) == [error |-> "none", ring |-> ring]

(* The vertices of a ring are its points, but a closing one that repeats   *)
(* the first, be it a turn away.                                           *)
VertexCount(points) ==
  LET count == Len(points)
  IN  IF /\ count >= 4
         /\ Last(points).lat = points[1].lat
         /\ Remainder(Last(points).lon - points[1].lon) = 0
      THEN count - 1 ELSE count

(* The shorter way along the parallel from a vertex to the next.           *)
Delta(points, n, i) == Remainder(points[(i % n) + 1].lon - points[i].lon)

Unwrapped(points, n) ==
  LET lon[i \in 1..n] == IF i = 1 THEN PrincipalLongitude(points[1].lon)
                         ELSE lon[i - 1] + Delta(points, n, i - 1)
  IN  lon

(* canonicalize_wgs84_linear_ring.  Its errors are one to its only caller. *)
Canonicalized(points) ==
  LET n == VertexCount(points)
      lon == Unwrapped(points, n)
      closing == lon[n] + Delta(points, n, n)
  IN  IF n < 3 \/ \E i \in 1..n : AmbiguousHalfTurn(Delta(points, n, i))
      THEN Failed("canonicalization_failed")
      ELSE Ok(LinearRing([i \in 1..n |-> Point(lon[i], points[i].lat)], closing,
                         (closing - lon[1]) \div Turn, "unspecified"))

(***************************************************************************)
(* The part as the shapefile reader takes it: points a roundoff outside    *)
(* the range are moved onto its boundary, others refuse the file, and the  *)
(* role is read off the orientation of the source points as they are,      *)
(* before any longitude is unwrapped.  The adapter derives the interior    *)
(* side from the role.                                                     *)
(***************************************************************************)
ValidCoordinate(value, bound) == Abs(value) <= bound + Roundoff
Bounded(value, bound) ==
  IF value > bound THEN bound ELSE IF value < -bound THEN -bound ELSE value

BoundedPoints(points) ==
  [i \in DOMAIN points |-> Point(Bounded(points[i].lon, HalfTurn),
                                 Bounded(points[i].lat, Pole))]

(* Twice the signed area in the plane, closed from the last to the first. *)
SignedXyArea(points) ==
  MapThenSumSet(LAMBDA i : LET a == points[i]
                               b == points[(i % Len(points)) + 1]
                           IN  a.lon * b.lat - b.lon * a.lat,
                DOMAIN points)

SideOf(orientation) == IF orientation < 0 THEN "right" ELSE "left"

Decoded(part) ==
  LET points == BoundedPoints(part)
      orientation == SignedXyArea(points)
      canonical == Canonicalized(points)
  IN  IF Len(part) < 4 THEN Failed("degenerate_ring")
      ELSE IF \E i \in DOMAIN part : ~ /\ ValidCoordinate(part[i].lon, HalfTurn)
                                       /\ ValidCoordinate(part[i].lat, Pole)
           THEN Failed("invalid_coordinate")
      ELSE IF orientation = 0 THEN Failed("degenerate_ring")
      ELSE IF canonical.error # "none" THEN canonical
      ELSE Ok([canonical.ring EXCEPT !.side = SideOf(orientation)])

(* validate_ring of the storage, which trusts no adapter. *)
ValidRing(ring) ==
  LET n == Len(ring.vertices) IN
  /\ n >= 3
  /\ ring.winding # 0 => ring.side # "unspecified"
  /\ \A i \in 1..n : Abs(ring.vertices[i].lat) <= Pole
  /\ -HalfTurn < ring.vertices[1].lon /\ ring.vertices[1].lon <= HalfTurn
  /\ \A i \in 1..n : Abs(EdgeEnd(ring, i).lon - ring.vertices[i].lon) < HalfTurn
  /\ ring.closing - ring.vertices[1].lon = ring.winding * Turn

(***************************************************************************)
(* Four times signed_wgs84_linear_ring_area: the line integral, with the   *)
(* term that a winding ring owes the pole, modulo the surface on the side  *)
(* of the interior.                                                        *)
(***************************************************************************)
EdgeIntegral(a, b) == (b.lon - a.lon) * (a.lat + b.lat)

SelectedArea(integral, winding, side) ==
  LET branch == 2 * winding * Turn * Pole - integral
      surface == 4 * Turn * Pole
  IN  IF side = "left" THEN branch % surface ELSE -((-branch) % surface)

RingArea(ring) ==
  LET integral == MapThenSumSet(
        LAMBDA i : EdgeIntegral(ring.vertices[i], EdgeEnd(ring, i)),
        DOMAIN ring.vertices)
  IN  IF ring.side = "unspecified" THEN -integral
      ELSE SelectedArea(integral, ring.winding, ring.side)
=============================================================================
