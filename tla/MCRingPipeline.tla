--------------------------- MODULE MCRingPipeline ---------------------------
(***************************************************************************)
(* A turn of 32 and central meridians 0 and -8: seams at 16 and at 8.      *)
(* Longitudes are multiples of 4 and latitudes of 6, so that every edge    *)
(* shorter than half a turn crosses a seam at an integer.                  *)
(***************************************************************************)
EXTENDS RingPipeline

(* On the seams, on both sides of them, on the south pole and a roundoff   *)
(* out of range.  Four of them make a dart that crosses a seam four times, *)
(* three a triangle round the globe.                                       *)
Points ==
  {Point(-16, 0), Point(-12, 6), Point(-8, -6), Point(0, 0), Point(4, 0), Point(8, 6),
   Point(8, -6), Point(12, 6), Point(12, -6), Point(4, -12), Point(17, -12)}

(* Files repeat the first point of a part, but nothing makes them. *)
Open == {<<a, b, c, d>> : a, b, c, d \in Points}
Closed == {<<a, b, c, a>> : a, b, c \in Points}

(* A cap round the south pole as files draw it, an arch whose inner edge   *)
(* lies on a seam, and a snake that crosses a seam six times.              *)
Cap == <<Point(-16, 0), Point(-8, -6), Point(0, 0), Point(12, -6), Point(16, 0),
         Point(16, -12), Point(-16, -12)>>
Arch == <<Point(0, 12), Point(12, 12), Point(12, 6), Point(8, 6), Point(8, -6),
          Point(12, -6), Point(12, -12), Point(0, -12)>>
Snake == <<Point(4, 12), Point(12, 12), Point(12, 6), Point(0, 0), Point(12, 0),
           Point(12, -12), Point(0, -12), Point(0, -6), Point(8, -6), Point(-4, 0), Point(4, 6)>>
Mirrored(p) == [i \in DOMAIN p |-> Point(-p[i].lon, p[i].lat)]

Rotations(p) == {[i \in DOMAIN p |-> p[((i + k) % Len(p)) + 1]] : k \in DOMAIN p}
Long == UNION {Rotations(p) \cup Rotations(Reverse(p)) :
                 p \in {Cap, Mirrored(Cap), Arch, Snake, Mirrored(Snake)}}

OutOfRange == <<Point(0, 0), Point(8, 6), Point(18, 0)>>
TooShort == <<Point(0, 0), Point(8, 6), Point(8, -6)>>

Parts == Open \cup Closed \cup Long \cup {Append(p, p[1]) : p \in Long \cup {OutOfRange}}
              \cup {TooShort}

Meridians == {0, -8}

Samples == {Point(4 * i + 2, lat) : i \in -6..3, lat \in {-7, -2, 2, 5}}
=============================================================================
