------------------------------ MODULE SeamSplit ------------------------------
(***************************************************************************)
(* Cutting a canonical ring at the seam of a projection, the meridian half *)
(* a turn from the central one (src/src/projection/seam.cpp), after        *)
(* closing a winding ring over its pole (ring_piecewise.cpp).              *)
(*                                                                         *)
(* The unwrapped longitudes are divided into strips one turn wide.  In     *)
(* each strip the edges of the ring are clipped and joined to chains, and  *)
(* the ends of chains are paired along the two meridians of the strip.     *)
(* Longitudes and latitudes are exact where the code compares within an    *)
(* angular tolerance.                                                      *)
(***************************************************************************)
EXTENDS GeographicRing

(* The point of an edge at a longitude, exact on the grids of the models. *)
PointAt(a, b, lon) ==
  LET west == IF a.lon < b.lon THEN a ELSE b
      east == IF a.lon < b.lon THEN b ELSE a
  IN  Point(lon, west.lat + ((east.lat - west.lat) * (lon - west.lon))
                            \div (east.lon - west.lon))

InStrip(lon, left, right) == left <= lon /\ lon <= right
OnBoundary(p, left, right) == p.lon \in {left, right}

Longitudes(ring) == {ring.vertices[i].lon : i \in DOMAIN ring.vertices} \cup {ring.closing}

(* Rounds n/d to the nearest integer, halves away from zero. *)
Rounded(n, d) == LET r == (2 * Abs(n) + d) \div (2 * d) IN IF n < 0 THEN -r ELSE r

Shifted(ring, shift) ==
  [ring EXCEPT !.closing = @ + shift,
               !.vertices = [i \in DOMAIN @ |-> Point(@[i].lon + shift, @[i].lat)]]

(* The shift that brings the middle of the ring nearest to the meridian. *)
WholeRingShift(ring, central) ==
  LET lons == Longitudes(ring)
  IN  Rounded(2 * central - (Min(lons) + Max(lons)), 2 * Turn) * Turn

FitsOneBranch(ring, central) ==
  \A lon \in Longitudes(ring) : InStrip(lon + WholeRingShift(ring, central),
                                        central - HalfTurn, central + HalfTurn)

(***************************************************************************)
(* The segments of a ring in a strip.  An edge on a boundary belongs to    *)
(* the strip on whose side the interior of the ring lies.                  *)
(***************************************************************************)
Coincident(a, b, left, right) == a.lon = b.lon /\ OnBoundary(a, left, right)

BelongsToStrip(a, b, left, right, side) ==
  LET interiorIsWest == IF b.lat > a.lat THEN side = "left" ELSE side = "right"
  IN  /\ side # "unspecified"
      /\ a.lat # b.lat
      /\ interiorIsWest = (a.lon = right)

(* The segment of an edge in the strip, empty if it has none. *)
ClippedEdge(a, b, left, right) ==
  LET low  == Max({left, Min({a.lon, b.lon})})
      high == Min({right, Max({a.lon, b.lon})})
  IN  IF a.lon = b.lon
      THEN IF InStrip(a.lon, left, right) /\ a # b THEN <<a, b>> ELSE <<>>
      ELSE IF low >= high THEN <<>>
      ELSE IF a.lon < b.lon THEN <<PointAt(a, b, low), PointAt(a, b, high)>>
      ELSE <<PointAt(a, b, high), PointAt(a, b, low)>>

EdgeInStrip(ring, i, left, right) ==
  LET a == ring.vertices[i]
      b == EdgeEnd(ring, i)
  IN  IF ~Coincident(a, b, left, right) THEN ClippedEdge(a, b, left, right)
      ELSE IF BelongsToStrip(a, b, left, right, ring.side) THEN <<a, b>> ELSE <<>>

(* Ends of clipped segments that are cuts: on the boundary, of an edge that *)
(* goes on outside the strip.                                               *)
Crossings(ring, left, right) ==
  MapThenSumSet(
    LAMBDA i : LET a == ring.vertices[i]
                   b == EdgeEnd(ring, i)
                   s == EdgeInStrip(ring, i, left, right)
                   Cut(end) == IF InStrip(end.lon, left, right) THEN 0 ELSE 1
               IN  IF s = <<>> THEN 0 ELSE Cut(a) + Cut(b),
    DOMAIN ring.vertices)

(***************************************************************************)
(* Chains of segments, in the order of the ring.                           *)
(***************************************************************************)
AppendSegment(chains, segment) ==
  IF chains = <<>> \/ Last(Last(chains)) # segment[1] THEN Append(chains, segment)
  ELSE ReplaceAt(chains, Len(chains), Append(Last(chains), segment[2]))

(* As MergeCyclicChains, when the ring never starts inside a chain. *)
MergeCyclicChains_Not(chains) == chains

(* The ring starts inside the chain that its last segment ends. *)
MergeCyclicChains(chains) ==
  IF Len(chains) < 2 \/ Last(Last(chains)) # Head(Head(chains)) THEN chains
  ELSE <<Last(chains) \o Tail(Head(chains))>> \o SubSeq(chains, 2, Len(chains) - 1)

WithEdge(chains, segment) ==
  IF segment = <<>> THEN chains ELSE AppendSegment(chains, segment)

ChainsInStrip(ring, left, right) ==
  LET chains[i \in 0..Len(ring.vertices)] ==
        IF i = 0 THEN <<>>
        ELSE WithEdge(chains[i - 1], EdgeInStrip(ring, i, left, right))
  IN  MergeCyclicChains(chains[Len(ring.vertices)])

(***************************************************************************)
(* The ends of chains on a boundary are paired along it, in the direction  *)
(* in which the interior side traverses it: each end of a chain with the   *)
(* start of the next.                                                      *)
(***************************************************************************)
EndpointsOn(chains, boundary) ==
  {[chain |-> c, isStart |-> TRUE, lat |-> Head(chains[c]).lat] :
     c \in {k \in DOMAIN chains : Head(chains[k]).lon = boundary}} \cup
  {[chain |-> c, isStart |-> FALSE, lat |-> Last(chains[c]).lat] :
     c \in {k \in DOMAIN chains : Last(chains[k]).lon = boundary}}

Precedes(p, q, ascending) == IF ascending THEN p.lat < q.lat ELSE p.lat > q.lat

Before(endpoints, p, ascending) == {q \in endpoints : Precedes(q, p, ascending)}

AmbiguousTouch(endpoints) ==
  \/ Cardinality(endpoints) % 2 # 0
  \/ \E p, q \in endpoints : p # q /\ p.lat = q.lat

(* The first with the second, the third with the fourth, and so on. *)
Paired(endpoints, ascending) ==
  {pair \in endpoints \X endpoints :
     LET before == Before(endpoints, pair[1], ascending)
     IN  /\ Cardinality(before) % 2 = 0
         /\ Before(endpoints, pair[2], ascending) = before \cup {pair[1]}}

EndsMeetStarts(pairs) == \A p \in pairs : ~p[1].isStart /\ p[2].isStart

NextChain(pairs) ==
  [c \in {p[1].chain : p \in pairs} |-> (CHOOSE p \in pairs : p[1].chain = c)[2].chain]

(* The chains from one chain round to it again, in the order they follow. *)
Cycle(next, first) ==
  LET walk[k \in 0..Cardinality(DOMAIN next)] ==
        IF k = 0 THEN first ELSE next[walk[k - 1]]
      period == Min({k \in 1..Cardinality(DOMAIN next) : walk[k] = first})
  IN  [k \in 1..period |-> walk[k - 1]]

(* From each of n chains that no cycle before has visited. *)
Cycles(next, n) ==
  LET cycles[c \in 0..n] ==
        IF c = 0 THEN <<>>
        ELSE IF c = Min(ToSet(Cycle(next, c))) THEN Append(cycles[c - 1], Cycle(next, c))
        ELSE cycles[c - 1]
  IN  cycles[n]

Piece(points, shift, side) ==
  Shifted(LinearRing(points, Head(points).lon, 0, side), shift)

(***************************************************************************)
(* clip_ring_to_strip: the pieces of a ring in one strip, shifted into the *)
(* active domain, or the first thing that is wrong with them.              *)
(***************************************************************************)
NoPieces(error) == [error |-> error, pieces |-> <<>>, crossings |-> 0]

PiecesOfChains(ring, chains, left, right, shift, remaining) ==
  LET leftEnds  == EndpointsOn(chains, left)
      rightEnds == EndpointsOn(chains, right)
      leftPairs  == Paired(leftEnds, ring.side = "right")
      rightPairs == Paired(rightEnds, ring.side = "left")
      cycles == Cycles(NextChain(leftPairs \cup rightPairs), Len(chains))
      points == [k \in DOMAIN cycles |->
                   FlattenSeq([j \in DOMAIN cycles[k] |-> chains[cycles[k][j]]])]
      short == {k \in DOMAIN points : Len(points[k]) < 3}
  IN  IF \E c \in DOMAIN chains : ~ /\ OnBoundary(Head(chains[c]), left, right)
                                    /\ OnBoundary(Last(chains[c]), left, right)
      THEN NoPieces("topology_inconsistent")
      ELSE IF AmbiguousTouch(leftEnds) THEN NoPieces("ambiguous_seam_touch")
      ELSE IF ~EndsMeetStarts(leftPairs) THEN NoPieces("topology_inconsistent")
      ELSE IF AmbiguousTouch(rightEnds) THEN NoPieces("ambiguous_seam_touch")
      ELSE IF ~EndsMeetStarts(rightPairs) THEN NoPieces("topology_inconsistent")
      ELSE IF \E k \in short : k <= remaining THEN NoPieces("topology_inconsistent")
      ELSE IF Len(cycles) > remaining THEN NoPieces("piece_limit_exceeded")
      ELSE [error     |-> "none",
            pieces    |-> [k \in DOMAIN points |-> Piece(points[k], shift, ring.side)],
            crossings |-> Crossings(ring, left, right)]

(* As StripShift, towards the other side. *)
StripShift_Away(strip) == strip * Turn

StripShift(strip) == -(strip * Turn)

ClippedToStrip(ring, central, strip, remaining) ==
  LET left  == central - HalfTurn + strip * Turn
      right == left + Turn
      chains == ChainsInStrip(ring, left, right)
      closed == /\ Len(chains) = 1
                /\ Len(chains[1]) >= 4
                /\ Head(chains[1]) = Last(chains[1])
  IN  IF chains = <<>> THEN NoPieces("none")
      ELSE IF closed
      THEN [error     |-> "none",
            pieces    |-> <<Piece(Front(chains[1]), StripShift(strip), ring.side)>>,
            crossings |-> Crossings(ring, left, right)]
      ELSE PiecesOfChains(ring, chains, left, right, StripShift(strip), remaining)

(***************************************************************************)
(* split_wgs84_linear_ring_at_projection_seam.  The strips run from one    *)
(* before the ring to one after it, each with what the strips before it    *)
(* left of the limit on pieces.                                            *)
(***************************************************************************)
WithStrip(limit, sofar, clipped) ==
  IF clipped.error # "none" THEN clipped
  ELSE IF Len(sofar.pieces) + Len(clipped.pieces) > limit THEN NoPieces("piece_limit_exceeded")
  ELSE [error |-> "none", pieces |-> sofar.pieces \o clipped.pieces,
        crossings |-> sofar.crossings + clipped.crossings]

AndStrip(ring, central, limit, sofar, strip) ==
  IF sofar.error # "none" THEN sofar
  ELSE WithStrip(limit, sofar,
                 ClippedToStrip(ring, central, strip, limit - Len(sofar.pieces)))

(* compute_strip_range *)
StripOf(lon, central) == (lon - (central - HalfTurn)) \div Turn
FirstStrip(ring, central) == StripOf(Min(Longitudes(ring)), central) - 1
StripCount(ring, central) ==
  StripOf(Max(Longitudes(ring)), central) + 2 - FirstStrip(ring, central)

ClippedToStrips(ring, central, limit) ==
  LET first == FirstStrip(ring, central)
      sofar[k \in 0..StripCount(ring, central)] ==
        IF k = 0 THEN NoPieces("none")
        ELSE AndStrip(ring, central, limit, sofar[k - 1], first + k - 1)
  IN  sofar[StripCount(ring, central)]

AreaOfPieces(pieces) == MapThenSumSet(LAMBDA k : RingArea(pieces[k]), DOMAIN pieces)

(* verify_area_partition *)
WithSameArea(ring, result) ==
  IF AreaOfPieces(result.pieces) = RingArea(ring) THEN result
  ELSE [result EXCEPT !.error = "area_invariant_failed"]

Verified(ring, clipped) ==
  IF clipped.error # "none" THEN clipped
  ELSE IF clipped.pieces = <<>> THEN NoPieces("topology_inconsistent")
  ELSE IF clipped.crossings % 2 # 0 THEN NoPieces("ambiguous_seam_touch")
  ELSE WithSameArea(ring, clipped)

Split(ring, central, limit) ==
  IF ring.winding # 0 THEN NoPieces("nonzero_winding_unsupported")
  ELSE IF FitsOneBranch(ring, central)
  THEN WithSameArea(ring, [error |-> "none", crossings |-> 0,
         pieces |-> <<Shifted(ring, WholeRingShift(ring, central))>>])
  ELSE IF ring.side = "unspecified" THEN NoPieces("missing_interior_side")
  ELSE IF StripCount(ring, central) > limit + 2 THEN NoPieces("piece_limit_exceeded")
  ELSE Verified(ring, ClippedToStrips(ring, central, limit))

(***************************************************************************)
(* A ring that winds once is closed over the pole on the side of its       *)
(* interior before it is split (make_explicit_polar_closure): on to the    *)
(* pole, back one turn along it, and down to the first vertex.             *)
(***************************************************************************)
PoleOf(ring) == IF (ring.winding > 0) = (ring.side = "left") THEN Pole ELSE -Pole

PolarClosure(ring) ==
  LET first == ring.vertices[1]
      close == Point(ring.closing, first.lat)
      coast == IF Last(ring.vertices) = close THEN ring.vertices
               ELSE Append(ring.vertices, close)
  IN  LinearRing(coast \o <<Point(ring.closing, PoleOf(ring)), Point(first.lon, PoleOf(ring))>>,
                 first.lon, 0, ring.side)

(* The part of project_wgs84_linear_ring_piecewise_verified before each    *)
(* piece is projected.  Winding rings that cannot be closed are left to    *)
(* the projector of one branch, which refuses them too.                    *)
WithinBudget(ring, closed, result) ==
  IF result.error = "none" /\ RingArea(closed) # RingArea(ring)
  THEN NoPieces("aggregate_area_budget_unmet")
  ELSE result

SplitForProjection(ring, central, limit) ==
  LET closed == IF ring.winding = 0 THEN ring ELSE PolarClosure(ring)
  IN  IF ring.winding # 0 /\ ring.side = "unspecified" THEN NoPieces("geographic_area_failed")
      ELSE IF Abs(ring.winding) > 1 THEN NoPieces("unsupported_seam_topology")
      ELSE WithinBudget(ring, closed, Split(closed, central, limit))
=============================================================================
