---------------------------- MODULE RingPipeline ----------------------------
(***************************************************************************)
(* The parts of a polygon file one after another: the reader decodes the   *)
(* part, the storage validates the ring, and the scene projects it about   *)
(* any central meridian as often as it is asked to.  Parts do not          *)
(* influence each other, except that the first that is refused ends its    *)
(* file.                                                                   *)
(***************************************************************************)
EXTENDS SeamSplit

CONSTANTS
  Part,          (* the parts of source files: sequences of points.        *)
  Central,       (* central meridians of projections.                      *)
  PieceLimit,    (* values of max_projection_pieces.                       *)
  Sample         (* points at which areas are compared.                    *)

ASSUME PipelineAssumption ==
  /\ \A p \in Part : p \in Seq([lon : Int, lat : Int])
  /\ \A s \in Sample : s.lon \in Int /\ s.lat \in Int
  /\ Central \subseteq Int
  /\ PieceLimit \subseteq Nat \ {0}

VARIABLES
  part,       (* the part read last.                                       *)
  decoded,    (* what the reader made of it, Failed("pending") before.     *)
  stored,     (* whether the storage accepted the ring.                    *)
  view,       (* the projection asked for last.                            *)
  split       (* the pieces it is split into.                              *)

vars == <<part, decoded, stored, view, split>>

NoView == [central |-> 0, limit |-> 0]

Init ==
  /\ part = <<>>
  /\ decoded = Failed("pending")
  /\ stored = FALSE
  /\ view = NoView
  /\ split = NoPieces("pending")

ReadPart(p) ==
  /\ decoded.error = "pending"
  /\ part' = p
  /\ decoded' = Decoded(p)
  /\ UNCHANGED <<stored, view, split>>

Store ==
  /\ decoded.error = "none" /\ ~stored
  /\ ValidRing(decoded.ring)
  /\ stored' = TRUE
  /\ UNCHANGED <<part, decoded, view, split>>

Project(central, limit) ==
  /\ stored
  /\ view' = [central |-> central, limit |-> limit]
  /\ split' = SplitForProjection(decoded.ring, central, limit)
  /\ UNCHANGED <<part, decoded, stored>>

(* The next part, of the same file or, after a refusal, of another one. *)
NextPart ==
  /\ decoded.error # "pending"
  /\ part' = <<>>
  /\ decoded' = Failed("pending")
  /\ stored' = FALSE
  /\ view' = NoView
  /\ split' = NoPieces("pending")

Next ==
  \/ \E p \in Part : ReadPart(p)
  \/ Store
  \/ \E central \in Central, limit \in PieceLimit : Project(central, limit)
  \/ NextPart

PipelineSpec == Init /\ [][Next]_vars

(***************************************************************************)
(* The reference: how often an oriented ring winds about a point, counted  *)
(* along the meridian north of it.  Rightward interiors count positive.    *)
(* Edges are shorter than a turn, so that each is met at most once.        *)
(***************************************************************************)
EdgeNorthOf(a, b, s) ==
  LET west == IF a.lon < b.lon THEN a ELSE b
      east == IF a.lon < b.lon THEN b ELSE a
      lon  == west.lon + ((s.lon - west.lon) % Turn)
  IN  /\ lon < east.lon
      /\ west.lat * (east.lon - lon) + east.lat * (lon - west.lon)
           > s.lat * (east.lon - west.lon)

EdgesNorthOf(ring, s) ==
  MapThenSumSet(LAMBDA i : LET a == ring.vertices[i]
                               b == EdgeEnd(ring, i)
                           IN  IF ~EdgeNorthOf(a, b, s) THEN 0
                               ELSE IF a.lon < b.lon THEN 1 ELSE -1,
                DOMAIN ring.vertices)

(* A ring that winds once encloses the pole on its interior side. *)
PolesEnclosed(ring) ==
  CASE ring.winding = 1  /\ ring.side = "left"  -> 1
    [] ring.winding = -1 /\ ring.side = "right" -> -1
    [] OTHER -> 0

Coverage(ring, s) == EdgesNorthOf(ring, s) - PolesEnclosed(ring)

CoverageOfPieces(pieces, s) ==
  MapThenSumSet(LAMBDA k : Coverage(pieces[k], s), DOMAIN pieces)

(***************************************************************************)
(* A simple polygon of the source, drawn in the plane of its file.         *)
(***************************************************************************)
Turning(o, a, b) == (a.lon - o.lon) * (b.lat - o.lat) - (a.lat - o.lat) * (b.lon - o.lon)
Between(x, u, v) == Min({u, v}) <= x /\ x <= Max({u, v})
OnSegment(p, a, b) ==
  Turning(a, b, p) = 0 /\ Between(p.lon, a.lon, b.lon) /\ Between(p.lat, a.lat, b.lat)

Meet(a, b, c, d) ==
  \/ OnSegment(a, c, d) \/ OnSegment(b, c, d) \/ OnSegment(c, a, b) \/ OnSegment(d, a, b)
  \/ /\ Turning(a, b, c) * Turning(a, b, d) < 0
     /\ Turning(c, d, a) * Turning(c, d, b) < 0

(* The part as a ring of the plane, without unwrapping. *)
Outline ==
  LET points == BoundedPoints(part)
      v == IF Last(points) = Head(points) THEN Front(points) ELSE points
  IN  LinearRing(v, Head(points).lon, 0, "unspecified")

SimplePolygon(v) ==
  LET n == Len(v)
      at(i) == v[(i % n) + 1]
  IN  /\ n >= 3
      /\ \A i \in 1..n : ~OnSegment(at(i + 1), at(i - 1), at(i))
                      /\ ~OnSegment(at(i - 1), at(i), at(i + 1))
      /\ \A i, j \in 0..(n - 1) :
           i + 1 < j /\ ~(i = 0 /\ j = n - 1) => ~Meet(at(i), at(i + 1), at(j), at(j + 1))

(* A part a cartographer would call a polygon: its points are in range, it *)
(* does not touch itself, and no edge reaches half round the world except  *)
(* along a pole, as the edge with which files close Antarctica does.       *)
Polygon ==
  /\ Len(part) >= 4
  /\ \A i \in DOMAIN part : /\ ValidCoordinate(part[i].lon, HalfTurn)
                            /\ ValidCoordinate(part[i].lat, Pole)
  /\ SimplePolygon(Outline.vertices)
  /\ \A i \in DOMAIN Outline.vertices :
       LET a == Outline.vertices[i]
           b == EdgeEnd(Outline, i)
       IN  \/ Abs(a.lon - b.lon) < HalfTurn
           \/ Abs(a.lon - b.lon) = Turn /\ a.lat = b.lat /\ Abs(a.lat) = Pole

-----------------------------------------------------------------------------
(* The reader and the storage check rings independently of each other and  *)
(* in different arithmetic; whatever the reader passes on is a ring the    *)
(* storage accepts, so that no import fails after its file was read.       *)
(* Arithmetic is exact here: how far rounded sums of longitudes may drift  *)
(* within the tolerances of geographic.cpp and dataset.cpp is outside it.  *)
AcceptedByStorage == decoded.error = "none" => ValidRing(decoded.ring)

(* A split that reports success has as many pieces as were asked for at    *)
(* most, and all of them lie in the domain of the projection.              *)
PiecesFit ==
  split.error = "none" =>
    /\ Len(split.pieces) <= view.limit
    /\ \A k \in DOMAIN split.pieces : \A lon \in Longitudes(split.pieces[k]) :
         InStrip(lon, view.central - HalfTurn, view.central + HalfTurn)

(* It has lost nothing and added nothing either, even of rings that cross  *)
(* themselves or wind over a pole: the pieces wind about each point of the *)
(* globe as often as the ring.                                             *)
SplitIsPartition ==
  /\ PiecesFit
  /\ split.error = "none" =>
       \A s \in Sample : CoverageOfPieces(split.pieces, s) = Coverage(decoded.ring, s)

(* A polygon is read, with the orientation its file gives it, and split    *)
(* about every meridian, whatever vertices and edges lie on the seam, and  *)
(* its pieces do not overlap: each point of the polygon is in one of them  *)
(* and no other point in any.  docs/PROJECTION-SEAM-TOPOLOGY.md:204 and    *)
(* :251 say that an edge coincident with the seam is rejected; as seam.cpp *)
(* and tests/test_seam_split.cpp:216 have it, the strip on its interior    *)
(* side owns it, and such polygons are among those claimed here.           *)
PolygonIsShown ==
  Polygon =>
    /\ decoded.error \in {"pending", "none"}
    /\ view.limit > 2 => split.error = "none"
    /\ split.error = "none" => \A s \in Sample :
         LET covers == {k \in DOMAIN split.pieces : Coverage(split.pieces[k], s) # 0}
         IN  /\ CoverageOfPieces(split.pieces, s) = EdgesNorthOf(Outline, s)
             /\ Cardinality(covers) = Abs(EdgesNorthOf(Outline, s))
=============================================================================
