------------------------- MODULE RingPipeline_proofs -------------------------
(***************************************************************************)
(* Rings of any number of vertices, on a globe of any size, read with any  *)
(* roundoff.                                                               *)
(*                                                                         *)
(* Unwrapping adds whole turns to each longitude and changes it by less    *)
(* than half a turn from vertex to vertex; so a ring closes a whole number *)
(* of turns from where it began, which is what the storage asks of it.     *)
(***************************************************************************)
EXTENDS RingPipeline, FiniteSetTheorems, SequenceTheorems, WellFoundedInduction, TLAPS

-----------------------------------------------------------------------------
(* Numbers.                                                                *)

LEMMA LeastNumber ==
  ASSUME NEW T, T \subseteq Nat, T # {}
  PROVE  \E m \in T : \A k \in T : m <= k
<1> DEFINE R == OpToRel(<, Nat)
<1>1. PICK m \in T : \A k \in T : ~(<<k, m>> \in R)
  <2>1. IsWellFoundedOn(R, Nat)
    BY NatLessThanWellFounded
  <2> HIDE DEF R
  <2> QED
    BY <2>1, WFMin
<1>2. \A k \in T : ~ k < m
  BY <1>1 DEF OpToRel
<1> QED
  BY <1>2

(* Induction, over a set instead of a predicate.                           *)
LEMMA UpTo ==
  ASSUME NEW m \in Nat, NEW n \in Nat, NEW T,
         m \in T, \A i \in m + 1 .. n : i - 1 \in T => i \in T
  PROVE  m .. n \subseteq T
<1> DEFINE Bad == {i \in m .. n : i \notin T}
<1> SUFFICES ASSUME Bad # {} PROVE FALSE
  OBVIOUS
<1>1. Bad \subseteq Nat
  OBVIOUS
<1>2. PICK i \in Bad : \A k \in Bad : i <= k
  <2> HIDE DEF Bad
  <2> QED
    BY <1>1, LeastNumber
<1>3. i # m /\ i \in m + 1 .. n
  BY <1>2
<1>4. i - 1 \in m .. n /\ i - 1 \notin Bad
  BY <1>2, <1>3
<1> QED
  BY <1>2, <1>3, <1>4

LEMMA Globe ==
  /\ Turn \in Nat \ {0} /\ HalfTurn \in Nat \ {0} /\ Turn = 2 * HalfTurn
  /\ Pole \in Nat \ {0} /\ Roundoff \in Nat
BY RingAssumption DEF HalfTurn

LEMMA Division ==
  ASSUME NEW x \in Int, NEW t \in Nat \ {0}
  PROVE  \E q \in Int, r \in 0 .. t - 1 :
           q = x \div t /\ r = x % t /\ x = q * t + r
<1>1. PICK q \in Int, r \in Int : q = x \div t /\ r = x % t
  OBVIOUS
<1>2. r \in 0 .. t - 1
  BY <1>1
<1>3. x = q * t + r
  BY <1>1
<1> QED
  BY <1>1, <1>2, <1>3

LEMMA Quotient ==
  ASSUME NEW k \in Int, NEW t \in Nat \ {0}
  PROVE  (k * t) \div t = k
OBVIOUS

(* Longitudes of the same meridian.                                        *)
SameMeridian(x, y) == \E k \in Int : x = y + k * Turn

LEMMA Distributes ==
  ASSUME NEW j \in Int, NEW k \in Int, NEW t \in Int
  PROVE  (j + k) * t = j * t + k * t /\ (j - k) * t = j * t - k * t
OBVIOUS

LEMMA MeridianReflexive ==
  ASSUME NEW x \in Int
  PROVE  SameMeridian(x, x)
<1>1. x = x + 0 * Turn
  BY Globe
<1> QED
  BY <1>1 DEF SameMeridian

LEMMA MeridianTurn ==
  ASSUME NEW x \in Int
  PROVE  SameMeridian(x + Turn, x) /\ SameMeridian(x - Turn, x)
<1>1. x + Turn = x + 1 * Turn /\ x - Turn = x + (0 - 1) * Turn
  BY Globe
<1> QED
  BY <1>1 DEF SameMeridian

LEMMA MeridianSymmetric ==
  ASSUME NEW x \in Int, NEW y \in Int, SameMeridian(x, y)
  PROVE  SameMeridian(y, x)
<1>1. PICK k \in Int : x = y + k * Turn
  BY DEF SameMeridian
<1>2. (0 - k) * Turn = 0 * Turn - k * Turn
  BY Globe, Distributes
<1>3. y = x + (0 - k) * Turn
  BY <1>1, <1>2, Globe
<1> QED
  BY <1>3 DEF SameMeridian

LEMMA MeridianSum ==
  ASSUME NEW x \in Int, NEW y \in Int, SameMeridian(x, y),
         NEW u \in Int, NEW v \in Int, SameMeridian(u, v)
  PROVE  SameMeridian(x + u, y + v) /\ SameMeridian(x - u, y - v)
<1>1. PICK j \in Int : x = y + j * Turn
  BY DEF SameMeridian
<1>2. PICK k \in Int : u = v + k * Turn
  BY DEF SameMeridian
<1>3. (j + k) * Turn = j * Turn + k * Turn /\ (j - k) * Turn = j * Turn - k * Turn
  BY Globe, Distributes
<1>4. j * Turn \in Int /\ k * Turn \in Int
  BY Globe
<1>5. x + u = (y + v) + (j + k) * Turn /\ x - u = (y - v) + (j - k) * Turn
  BY <1>1, <1>2, <1>3, <1>4
<1>6. j + k \in Int /\ j - k \in Int
  OBVIOUS
<1> QED
  BY <1>5, <1>6 DEF SameMeridian

(* The remainder by a turn differs by whole turns and is at most half one. *)
LEMMA RemainderWraps ==
  ASSUME NEW x \in Int
  PROVE  Remainder(x) \in -HalfTurn .. HalfTurn /\ SameMeridian(Remainder(x), x)
<1>1. PICK q \in Int, r \in 0 .. Turn - 1 :
             q = x \div Turn /\ r = x % Turn /\ x = q * Turn + r
  BY Globe, Division
<1>2. \/ Remainder(x) = r /\ r <= HalfTurn
      \/ Remainder(x) = r - Turn /\ r >= HalfTurn
  BY <1>1, Globe DEF Remainder
<1>3. SameMeridian(r, x)
  <2>1. x = r + q * Turn /\ r \in Int
    BY <1>1, Globe
  <2>2. SameMeridian(x, r)
    BY <2>1 DEF SameMeridian
  <2> QED
    BY <2>1, <2>2, MeridianSymmetric
<1>4. SameMeridian(r - Turn, x)
  <2>1. x + 0 = x /\ r + (-Turn) = r - Turn /\ r \in Int /\ Turn \in Int /\ 0 \in Int /\ -Turn \in Int
    BY Globe
  <2>2. SameMeridian(-Turn, 0)
    BY MeridianTurn, Globe
  <2>3. SameMeridian(r + (-Turn), x + 0)
    BY <1>3, <2>1, <2>2, MeridianSum
  <2> QED
    BY <2>1, <2>3
<1> QED
  BY <1>2, <1>3, <1>4, Globe

LEMMA PrincipalWraps ==
  ASSUME NEW x \in Int
  PROVE  /\ PrincipalLongitude(x) \in -HalfTurn + 1 .. HalfTurn
         /\ SameMeridian(PrincipalLongitude(x), x)
<1>1. Remainder(x) \in -HalfTurn .. HalfTurn /\ SameMeridian(Remainder(x), x)
  BY RemainderWraps
<1>2. SameMeridian(Remainder(x) + Turn, x)
  <2>1. /\ Remainder(x) \in Int /\ Turn \in Int /\ 0 \in Int /\ x + 0 = x
        /\ 0 + Turn = Turn
    BY <1>1, Globe
  <2>2. SameMeridian(Turn, 0)
    BY <2>1, MeridianTurn
  <2>3. SameMeridian(Remainder(x) + Turn, x + 0)
    BY <1>1, <2>1, <2>2, MeridianSum
  <2> QED
    BY <2>1, <2>3
<1> QED
  BY <1>1, <1>2, Globe DEF PrincipalLongitude

(***************************************************************************)
(* Recursive functions: what each value follows from the one before by     *)
(* step[i], a function, is defined.                                        *)
(***************************************************************************)
Follows(f, m, n, b, step) ==
  f[m] = b /\ \A i \in m + 1 .. n : f[i] = step[i][f[i - 1]]

LEMMA Recursion ==
  ASSUME NEW S, NEW m \in Nat, NEW n \in Nat, m <= n,
         NEW b \in S, NEW step \in [m + 1 .. n -> [S -> S]]
  PROVE  \E f \in [m .. n -> S] : Follows(f, m, n, b, step)
<1> DEFINE T == {k \in m .. n : \E f \in [m .. k -> S] : Follows(f, m, k, b, step)}
<1>1. m \in T
  <2>1. [i \in m .. m |-> b] \in [m .. m -> S]
    OBVIOUS
  <2>2. Follows([i \in m .. m |-> b], m, m, b, step)
    <3>1. m \in m .. m /\ \A i \in m + 1 .. m : FALSE
      OBVIOUS
    <3> QED
      BY <3>1 DEF Follows
  <2>3. PICK f \in [m .. m -> S] : Follows(f, m, m, b, step)
    BY <2>1, <2>2
  <2>4. m \in m .. n
    OBVIOUS
  <2> QED
    BY <2>3, <2>4
<1>2. ASSUME NEW k \in m + 1 .. n, k - 1 \in T
      PROVE  k \in T
  <2>1. PICK f \in [m .. k - 1 -> S] : Follows(f, m, k - 1, b, step)
    BY <1>2
  <2> DEFINE g == [i \in m .. k |-> IF i = k THEN step[k][f[k - 1]] ELSE f[i]]
  <2>2. k - 1 \in m .. k - 1 /\ k \in m .. n /\ m # k /\ m \in m .. k
    OBVIOUS
  <2>3. step[k][f[k - 1]] \in S
    BY <2>2
  <2>4. g \in [m .. k -> S]
    <3>1. ASSUME NEW i \in m .. k, i # k PROVE f[i] \in S
      <4>1. i \in m .. k - 1
        BY <3>1
      <4> QED
        BY <4>1
    <3> QED
      BY <2>3, <3>1
  <2>5. g[m] = b
    BY <2>1, <2>2 DEF Follows
  <2>6. ASSUME NEW i \in m + 1 .. k PROVE g[i] = step[i][g[i - 1]]
    <3>1. i - 1 \in m .. k /\ i - 1 # k /\ i \in m .. k
      OBVIOUS
    <3>2. i # k => i \in m + 1 .. k - 1
      OBVIOUS
    <3> QED
      BY <2>1, <3>1, <3>2 DEF Follows
  <2> HIDE DEF g
  <2>7. Follows(g, m, k, b, step)
    BY <2>5, <2>6 DEF Follows
  <2> QED
    BY <2>2, <2>4, <2>7
<1>3. n \in T
  <2>1. m .. n \subseteq T
    <3> HIDE DEF T
    <3> QED
      BY <1>1, <1>2, UpTo
  <2>2. n \in m .. n
    OBVIOUS
  <2> HIDE DEF T
  <2> QED
    BY <2>1, <2>2
<1> QED
  BY <1>3

-----------------------------------------------------------------------------
(* The reader.                                                             *)

GeoPoint == [lon : Int, lat : Int]

LEMMA PointsAreOnGlobe ==
  ASSUME NEW points \in Seq(GeoPoint), NEW i \in 1 .. Len(points)
  PROVE  points[i] \in GeoPoint /\ points[i].lon \in Int /\ points[i].lat \in Int
<1>1. points[i] \in GeoPoint
  OBVIOUS
<1> QED
  BY <1>1 DEF GeoPoint

LEMMA DeltaWraps ==
  ASSUME NEW points \in Seq(GeoPoint), NEW n \in 1 .. Len(points), NEW i \in 1 .. n
  PROVE  LET next == points[(i % n) + 1] IN
         /\ next = IF i = n THEN points[1] ELSE points[i + 1]
         /\ next \in GeoPoint
         /\ Delta(points, n, i) \in -HalfTurn .. HalfTurn
         /\ SameMeridian(Delta(points, n, i), next.lon - points[i].lon)
<1>1. n \in Nat \ {0} /\ i \in Nat
  OBVIOUS
<1>2. (i % n) + 1 = IF i = n THEN 1 ELSE i + 1
  BY <1>1
<1>3. (i % n) + 1 \in 1 .. Len(points) /\ i \in 1 .. Len(points) /\ 1 \in 1 .. Len(points)
  BY <1>1, <1>2
<1>4. points[(i % n) + 1] \in GeoPoint /\ points[i] \in GeoPoint
  BY <1>3
<1>5. points[(i % n) + 1].lon - points[i].lon \in Int
  BY <1>4 DEF GeoPoint
<1> QED
  BY <1>2, <1>4, <1>5, RemainderWraps DEF Delta

LEMMA UnwrappedFollows ==
  ASSUME NEW points \in Seq(GeoPoint), NEW n \in 1 .. Len(points)
  PROVE  LET lon == Unwrapped(points, n) IN
         /\ lon \in [1 .. n -> Int]
         /\ lon[1] = PrincipalLongitude(points[1].lon)
         /\ \A i \in 2 .. n : lon[i] = lon[i - 1] + Delta(points, n, i - 1)
<1> DEFINE b == PrincipalLongitude(points[1].lon)
           step == [i \in 2 .. n |-> [x \in Int |-> x + Delta(points, n, i - 1)]]
           Rule(f, i) == IF i = 1 THEN b ELSE f[i - 1] + Delta(points, n, i - 1)
<1>1. b \in Int
  <2>1. points[1] \in GeoPoint
    OBVIOUS
  <2> QED
    BY <2>1, PrincipalWraps, Globe DEF GeoPoint
<1>2. ASSUME NEW i \in 2 .. n
      PROVE  Delta(points, n, i - 1) \in Int
  <2>1. i - 1 \in 1 .. n
    OBVIOUS
  <2> QED
    BY <2>1, DeltaWraps, Globe
<1>3. step \in [1 + 1 .. n -> [Int -> Int]]
  BY <1>2
<1>4. PICK f \in [1 .. n -> Int] : Follows(f, 1, n, b, step)
  <2> HIDE DEF b, step
  <2>1. n \in Nat /\ 1 \in Nat /\ 1 <= n
    OBVIOUS
  <2> QED
    BY <1>1, <1>3, <2>1, Recursion
<1>5. f = [i \in 1 .. n |-> Rule(f, i)]
  <2>1. ASSUME NEW i \in 1 .. n PROVE f[i] = Rule(f, i)
    <3>1. CASE i = 1
      BY <1>4, <3>1 DEF Follows
    <3>2. CASE i # 1
      <4>1. i \in 2 .. n /\ i - 1 \in 1 .. n /\ i \in 1 + 1 .. n
        BY <3>2
      <4>2. f[i] = step[i][f[i - 1]] /\ f[i - 1] \in Int
        BY <1>4, <4>1 DEF Follows
      <4> QED
        BY <3>2, <4>1, <4>2
    <3> QED
      BY <3>1, <3>2
  <2>2. f = [i \in 1 .. n |-> f[i]]
    OBVIOUS
  <2> HIDE DEF Rule
  <2> QED
    BY <2>1, <2>2
<1>6. PICK lon : lon = Unwrapped(points, n)
  OBVIOUS
<1>7. lon = [i \in 1 .. n |-> Rule(lon, i)]
  <2>1. lon = CHOOSE g : g = [i \in 1 .. n |-> Rule(g, i)]
    BY <1>6 DEF Unwrapped
  <2> HIDE DEF Rule
  <2> QED
    BY <1>5, <2>1
<1>8. lon[1] = b /\ \A i \in 2 .. n : lon[i] = lon[i - 1] + Delta(points, n, i - 1)
  BY <1>7
<1>9. lon \in [1 .. n -> Int]
  <2> DEFINE T == {i \in 1 .. n : lon[i] \in Int}
  <2>1. 1 \in T
    BY <1>1, <1>8
  <2>2. ASSUME NEW i \in 1 + 1 .. n, i - 1 \in T
        PROVE  i \in T
    BY <1>2, <1>8, <2>2
  <2>3. 1 .. n \subseteq T
    <3>1. 1 \in Nat /\ n \in Nat
      OBVIOUS
    <3> HIDE DEF T
    <3> QED
      BY <2>1, <2>2, <3>1, UpTo
  <2> QED
    BY <1>7, <2>3
<1> QED
  BY <1>6, <1>8, <1>9

LEMMA UnwrappedStaysOnMeridian ==
  ASSUME NEW points \in Seq(GeoPoint), NEW n \in 1 .. Len(points), NEW i \in 1 .. n
  PROVE  SameMeridian(Unwrapped(points, n)[i], points[i].lon)
<1>1. PICK lon : lon = Unwrapped(points, n)
  OBVIOUS
<1>2. /\ lon \in [1 .. n -> Int]
      /\ lon[1] = PrincipalLongitude(points[1].lon)
      /\ \A k \in 2 .. n : lon[k] = lon[k - 1] + Delta(points, n, k - 1)
  BY <1>1, UnwrappedFollows
<1>3. \A k \in 1 .. n : points[k].lon \in Int
  BY PointsAreOnGlobe
<1> DEFINE T == {k \in 1 .. n : SameMeridian(lon[k], points[k].lon)}
<1>4. 1 \in T
  <2>1. 1 \in 1 .. n
    OBVIOUS
  <2>2. SameMeridian(lon[1], points[1].lon)
    BY <1>2, <1>3, <2>1, PrincipalWraps
  <2> QED
    BY <2>1, <2>2
<1>5. ASSUME NEW k \in 1 + 1 .. n, k - 1 \in T
      PROVE  k \in T
  <2>1. k - 1 \in 1 .. n /\ k \in 1 .. n /\ k \in 2 .. n /\ k - 1 # n /\ (k - 1) + 1 = k
    OBVIOUS
  <2> DEFINE delta == Delta(points, n, k - 1)
  <2>2. /\ delta \in Int
        /\ SameMeridian(delta, points[k].lon - points[k - 1].lon)
    <3>1. /\ delta \in -HalfTurn .. HalfTurn
          /\ ((k - 1) % n) + 1 \in 1 .. Len(points)
          /\ points[((k - 1) % n) + 1] = points[k]
          /\ SameMeridian(delta, points[((k - 1) % n) + 1].lon - points[k - 1].lon)
      <4>1. ((k - 1) % n) + 1 = k /\ k \in 1 .. Len(points)
        BY <2>1
      <4> QED
        BY <2>1, <4>1, DeltaWraps
    <3> QED
      BY <3>1, Globe
  <2>3. SameMeridian(lon[k - 1], points[k - 1].lon)
    BY <1>5
  <2>4. /\ lon[k] = lon[k - 1] + delta /\ lon[k - 1] \in Int
        /\ points[k].lon \in Int /\ points[k - 1].lon \in Int
    BY <1>2, <1>3, <2>1
  <2>5. /\ points[k - 1].lon + (points[k].lon - points[k - 1].lon) = points[k].lon
        /\ points[k].lon - points[k - 1].lon \in Int
    BY <2>4
  <2> HIDE DEF delta
  <2>6. SameMeridian(lon[k - 1] + delta,
                     points[k - 1].lon + (points[k].lon - points[k - 1].lon))
    BY <2>2, <2>3, <2>4, <2>5, MeridianSum
  <2>7. SameMeridian(lon[k], points[k].lon)
    BY <2>4, <2>5, <2>6
  <2> QED
    BY <2>1, <2>7
<1>6. 1 .. n \subseteq T
  <2>1. 1 \in Nat /\ n \in Nat
    OBVIOUS
  <2> HIDE DEF T
  <2> QED
    BY <1>4, <1>5, <2>1, UpTo
<1> QED
  BY <1>1, <1>6

(* A ring that keeps what the storage asks of longitudes.                  *)
Closes(ring) ==
  LET n == Len(ring.vertices) IN
  /\ n >= 3
  /\ -HalfTurn < ring.vertices[1].lon /\ ring.vertices[1].lon <= HalfTurn
  /\ \A i \in 1 .. n : Abs(EdgeEnd(ring, i).lon - ring.vertices[i].lon) < HalfTurn
  /\ ring.closing - ring.vertices[1].lon = ring.winding * Turn

LEMMA VertexCounts ==
  ASSUME NEW points \in Seq(GeoPoint)
  PROVE  VertexCount(points) \in 0 .. Len(points)
BY DEF VertexCount

(* The turns of a ring are whole, so that the tolerance within which the   *)
(* code rounds them never refuses one.                                     *)
LEMMA TurnsAreWhole ==
  ASSUME NEW points \in Seq(GeoPoint), NEW n \in 1 .. Len(points), NEW lon, NEW closing,
         lon = Unwrapped(points, n), closing = lon[n] + Delta(points, n, n)
  PROVE  /\ closing \in Int
         /\ \E k \in Int : closing - lon[1] = k * Turn
<1>1. lon \in [1 .. n -> Int] /\ n \in 1 .. n /\ 1 \in 1 .. n
  <2>1. n \in 1 .. n /\ 1 \in 1 .. n
    OBVIOUS
  <2> QED
    BY <2>1, UnwrappedFollows
<1>2. points[1].lon \in Int /\ points[n].lon \in Int
  BY PointsAreOnGlobe
<1>3. /\ Delta(points, n, n) \in Int
      /\ SameMeridian(Delta(points, n, n), points[1].lon - points[n].lon)
  <2>1. (n % n) + 1 = 1
    OBVIOUS
  <2> QED
    BY <1>1, <2>1, DeltaWraps, Globe
<1>4. SameMeridian(lon[n], points[n].lon) /\ SameMeridian(lon[1], points[1].lon)
  BY <1>1, UnwrappedStaysOnMeridian
<1>5. closing \in Int /\ lon[n] \in Int /\ lon[1] \in Int
  BY <1>1, <1>3
<1>6. SameMeridian(closing, points[1].lon)
  <2>1. SameMeridian(lon[n] + Delta(points, n, n),
                     points[n].lon + (points[1].lon - points[n].lon))
    <3>1. points[1].lon - points[n].lon \in Int
      BY <1>2
    <3> QED
      BY <1>2, <1>3, <1>4, <1>5, <3>1, MeridianSum
  <2>2. points[n].lon + (points[1].lon - points[n].lon) = points[1].lon
    BY <1>2
  <2> QED
    BY <2>1, <2>2
<1>7. SameMeridian(closing - lon[1], points[1].lon - points[1].lon)
  BY <1>2, <1>4, <1>5, <1>6, MeridianSum
<1>8. PICK k \in Int : closing - lon[1] = (points[1].lon - points[1].lon) + k * Turn
  BY <1>7 DEF SameMeridian
<1>9. closing - lon[1] = k * Turn
  BY <1>2, <1>8, Globe
<1> QED
  BY <1>5, <1>9

LEMMA CanonicalRings ==
  ASSUME NEW points \in Seq(GeoPoint), Canonicalized(points).error = "none"
  PROVE  LET ring == Canonicalized(points).ring IN
         /\ ring.side = "unspecified"
         /\ ring = LinearRing(ring.vertices, ring.closing, ring.winding, ring.side)
         /\ Closes(ring)
         /\ \A i \in 1 .. Len(ring.vertices) :
              i \in 1 .. Len(points) /\ ring.vertices[i].lat = points[i].lat
         /\ ring.winding \in Int /\ ring.closing \in Int
         /\ ring.vertices \in Seq(GeoPoint)
<1> DEFINE n == VertexCount(points)
           lon == Unwrapped(points, n)
           closing == lon[n] + Delta(points, n, n)
           vertices == [i \in 1 .. n |-> Point(lon[i], points[i].lat)]
           winding == (closing - lon[1]) \div Turn
           ring == LinearRing(vertices, closing, winding, "unspecified")
<1>1. /\ ~(n < 3) /\ \A i \in 1 .. n : ~AmbiguousHalfTurn(Delta(points, n, i))
      /\ Canonicalized(points).ring = ring
  BY DEF Canonicalized, Failed, Ok
<1>2. n \in 3 .. Len(points)
  <2>1. n \in 0 .. Len(points)
    BY VertexCounts
  <2> QED
    BY <1>1, <2>1
<1>3. /\ lon \in [1 .. n -> Int]
      /\ lon[1] = PrincipalLongitude(points[1].lon)
      /\ \A i \in 2 .. n : lon[i] = lon[i - 1] + Delta(points, n, i - 1)
  <2>1. n \in 1 .. Len(points)
    BY <1>2
  <2> HIDE DEF n
  <2> QED
    BY <2>1, UnwrappedFollows
<1>4. closing \in Int /\ \E k \in Int : closing - lon[1] = k * Turn
  <2>1. n \in 1 .. Len(points)
    BY <1>2
  <2> HIDE DEF n
  <2> QED
    BY <2>1, TurnsAreWhole
<1>5. PICK k \in Int : closing - lon[1] = k * Turn
  BY <1>4
<1> HIDE DEF n, lon, closing
<1>6. winding = k
  BY <1>5, Globe, Quotient
<1>7. /\ ring.vertices = vertices /\ ring.closing = closing /\ ring.winding = winding
      /\ ring.side = "unspecified"
  BY DEF LinearRing
<1>8. vertices \in Seq(GeoPoint) /\ Len(vertices) = n
  <2>1. \A i \in 1 .. n : points[i] \in GeoPoint
    BY <1>2
  <2>2. \A i \in 1 .. n : Point(lon[i], points[i].lat) \in GeoPoint
    BY <1>3, <2>1 DEF Point, GeoPoint
  <2> QED
    BY <1>2, <2>2
<1>9. Closes(ring)
  <2>0. ASSUME NEW i \in 1 .. n
        PROVE  ring.vertices[i].lon = lon[i]
    <3>1. vertices[i].lon = lon[i]
      BY DEF Point
    <3> HIDE DEF ring, vertices, winding
    <3> QED
      BY <1>7, <3>1
  <2>1. ASSUME NEW i \in 1 .. n
        PROVE  EdgeEnd(ring, i).lon - ring.vertices[i].lon = Delta(points, n, i)
    <3>1. Delta(points, n, i) \in Int /\ lon[i] \in Int /\ n \in 1 .. Len(points)
      <4>1. n \in 1 .. Len(points)
        BY <1>2
      <4> QED
        BY <1>3, <4>1, DeltaWraps, Globe
    <3>2. CASE i < n
      <4>1. i + 1 \in 2 .. n /\ (i + 1) - 1 = i /\ i + 1 \in 1 .. n
        BY <1>2, <3>2
      <4>2. lon[i + 1] = lon[i] + Delta(points, n, i)
        BY <1>3, <4>1
      <4>3. EdgeEnd(ring, i).lon = lon[i + 1]
        <5>1. EdgeEnd(ring, i) = vertices[i + 1]
          <6> HIDE DEF ring, vertices, winding
          <6> QED
            BY <1>7, <1>8, <3>2 DEF EdgeEnd
        <5> QED
          BY <4>1, <5>1 DEF Point
      <4>4. ring.vertices[i].lon = lon[i]
        BY <2>0
      <4> QED
        BY <3>1, <4>2, <4>3, <4>4
    <3>3. CASE ~(i < n)
      <4>1. i = n
        BY <1>2, <3>3
      <4>2. EdgeEnd(ring, i).lon = closing /\ ring.vertices[i].lon = lon[i]
        <5>1. EdgeEnd(ring, i).lon = closing
          <6> HIDE DEF ring, vertices, winding
          <6> QED
            BY <1>7, <1>8, <3>3 DEF EdgeEnd, Point
        <5> QED
          BY <2>0, <5>1
      <4> QED
        BY <3>1, <4>1, <4>2 DEF closing
    <3> QED
      BY <3>2, <3>3
  <2>2. ASSUME NEW i \in 1 .. n
        PROVE  Abs(Delta(points, n, i)) < HalfTurn
    <3>1. Delta(points, n, i) \in -HalfTurn .. HalfTurn
      <4>1. n \in 1 .. Len(points)
        BY <1>2
      <4> QED
        BY <4>1, DeltaWraps
    <3> QED
      BY <1>1, <3>1, Globe DEF AmbiguousHalfTurn, Abs
  <2>3. 1 \in 1 .. n /\ ring.vertices[1].lon = lon[1]
    <3>1. 1 \in 1 .. n
      BY <1>2
    <3> QED
      BY <2>0, <3>1
  <2>4. -HalfTurn < lon[1] /\ lon[1] <= HalfTurn
    <3>1. points[1].lon \in Int
      <4>1. 1 \in 1 .. Len(points)
        BY <1>2
      <4> QED
        BY <4>1, PointsAreOnGlobe
    <3>2. lon[1] \in -HalfTurn + 1 .. HalfTurn
      BY <1>3, <3>1, PrincipalWraps
    <3> QED
      BY <3>2, Globe
  <2>5. ring.closing - ring.vertices[1].lon = ring.winding * Turn
    BY <1>5, <1>6, <1>7, <2>3
  <2>6. Len(ring.vertices) = n
    BY <1>7, <1>8
  <2> HIDE DEF ring, vertices, winding
  <2> QED
    BY <1>2, <2>1, <2>2, <2>3, <2>4, <2>5, <2>6 DEF Closes
<1>10. \A i \in 1 .. n : i \in 1 .. Len(points) /\ ring.vertices[i].lat = points[i].lat
  BY <1>2, <1>7 DEF Point
<1>11. ring = LinearRing(ring.vertices, ring.closing, ring.winding, ring.side)
  BY <1>7
<1> HIDE DEF ring, vertices, winding
<1> QED
  BY <1>1, <1>4, <1>6, <1>7, <1>8, <1>9, <1>10, <1>11

LEMMA BoundedPointsAreInRange ==
  ASSUME NEW p \in Seq(GeoPoint)
  PROVE  /\ BoundedPoints(p) \in Seq(GeoPoint)
         /\ Len(BoundedPoints(p)) = Len(p)
         /\ \A i \in 1 .. Len(p) : Abs(BoundedPoints(p)[i].lat) <= Pole
<1> DEFINE At(i) == Point(Bounded(p[i].lon, HalfTurn), Bounded(p[i].lat, Pole))
<1>1. ASSUME NEW i \in 1 .. Len(p)
      PROVE  At(i) \in GeoPoint /\ Abs(At(i).lat) <= Pole
  BY PointsAreOnGlobe, Globe DEF Point, Bounded, Abs, GeoPoint
<1>2. BoundedPoints(p) = [i \in 1 .. Len(p) |-> At(i)]
  BY DEF BoundedPoints
<1> HIDE DEF At
<1> QED
  BY <1>1, <1>2

(* Whatever sequence of points the reader makes a ring of, the storage     *)
(* accepts the ring.                                                       *)
LEMMA ReaderMakesValidRings ==
  ASSUME NEW p \in Seq(GeoPoint), Decoded(p).error = "none"
  PROVE  ValidRing(Decoded(p).ring)
<1> DEFINE points == BoundedPoints(p)
           canonical == Canonicalized(points)
           side == SideOf(SignedXyArea(points))
           ring == Decoded(p).ring
<1>1. canonical.error = "none" /\ ring = [canonical.ring EXCEPT !.side = side]
  BY DEF Decoded, Failed, Ok
<1>2. /\ points \in Seq(GeoPoint)
      /\ \A i \in 1 .. Len(points) : Abs(points[i].lat) <= Pole
  BY BoundedPointsAreInRange
<1> HIDE DEF points
<1>3. PICK source : source = canonical.ring
  OBVIOUS
<1>4. /\ source = LinearRing(source.vertices, source.closing, source.winding, source.side)
      /\ Closes(source)
      /\ \A i \in 1 .. Len(source.vertices) :
           i \in 1 .. Len(points) /\ source.vertices[i].lat = points[i].lat
  BY <1>1, <1>2, <1>3, CanonicalRings
<1>5. /\ ring.vertices = source.vertices /\ ring.closing = source.closing
      /\ ring.winding = source.winding /\ ring.side = side
  <2> HIDE DEF canonical, side, ring
  <2> QED
    BY <1>1, <1>3, <1>4 DEF LinearRing
<1>6. side # "unspecified"
  BY DEF SideOf
<1> HIDE DEF canonical, side, ring
<1>7. \A i \in 1 .. Len(ring.vertices) : EdgeEnd(ring, i) = EdgeEnd(source, i)
  BY <1>5 DEF EdgeEnd
<1>8. ValidRing(ring)
  BY <1>2, <1>4, <1>5, <1>6, <1>7 DEF ValidRing, Closes
<1> QED
  BY <1>8 DEF ring

-----------------------------------------------------------------------------
(* What is decoded is what the reader made of a part.                      *)
DecodedOK ==
  decoded = Failed("pending") \/ \E p \in Part : part = p /\ decoded = Decoded(p)

LEMMA DecodedIsKept == PipelineSpec => []DecodedOK
<1>1. Init => DecodedOK
  BY DEF Init, DecodedOK
<1>2. DecodedOK /\ [Next]_vars => DecodedOK'
  <2> SUFFICES ASSUME DecodedOK, [Next]_vars PROVE DecodedOK'
    OBVIOUS
  <2>1. CASE \E p \in Part : ReadPart(p)
    BY <2>1 DEF ReadPart, DecodedOK
  <2>2. CASE Store
    BY <2>2 DEF Store, DecodedOK
  <2>3. CASE \E central \in Central, limit \in PieceLimit : Project(central, limit)
    BY <2>3 DEF Project, DecodedOK
  <2>4. CASE NextPart
    BY <2>4 DEF NextPart, DecodedOK
  <2>5. CASE UNCHANGED vars
    BY <2>5 DEF vars, DecodedOK
  <2> QED
    BY <2>1, <2>2, <2>3, <2>4, <2>5 DEF Next
<1> QED
  BY <1>1, <1>2, PTL DEF PipelineSpec

(* Reader and storage agree on what a ring is: no import fails at the      *)
(* storage after its file was read.                                        *)
THEOREM RingsAreAccepted == PipelineSpec => []AcceptedByStorage
<1>1. DecodedOK => AcceptedByStorage
  <2> SUFFICES ASSUME DecodedOK, decoded.error = "none"
               PROVE  ValidRing(decoded.ring)
    BY DEF AcceptedByStorage
  <2>1. decoded # Failed("pending")
    BY DEF Failed
  <2>2. PICK p \in Part : decoded = Decoded(p)
    BY <2>1 DEF DecodedOK
  <2>3. p \in Seq(GeoPoint)
    BY PipelineAssumption DEF GeoPoint
  <2> QED
    BY <2>2, <2>3, ReaderMakesValidRings
<1> QED
  BY <1>1, DecodedIsKept, PTL

-----------------------------------------------------------------------------
(* The ends of chains along a boundary.  Finitely many, no two of them at  *)
(* one latitude, they are ordered; each but the last has a next one.       *)
Spaced(E) ==
  /\ IsFiniteSet(E)
  /\ \A p \in E : p.lat \in Int
  /\ \A p, q \in E : p # q => p.lat # q.lat

LEMMA PrecedesOrders ==
  ASSUME NEW E, Spaced(E), NEW ascending \in BOOLEAN
  PROVE  /\ \A p \in E : ~Precedes(p, p, ascending)
         /\ \A p, q \in E : p # q => (Precedes(p, q, ascending) <=> ~Precedes(q, p, ascending))
         /\ \A p, q, r \in E : Precedes(p, q, ascending) /\ Precedes(q, r, ascending)
                                 => Precedes(p, r, ascending)
         /\ \E descending \in BOOLEAN :
              \A p, q \in E : Precedes(p, q, descending) <=> Precedes(q, p, ascending)
<1>1. CASE ascending
  <2>1. \A p, q \in E : Precedes(p, q, FALSE) <=> Precedes(q, p, ascending)
    BY <1>1 DEF Spaced, Precedes
  <2>2. /\ \A p \in E : ~Precedes(p, p, ascending)
        /\ \A p, q \in E : p # q => (Precedes(p, q, ascending) <=> ~Precedes(q, p, ascending))
        /\ \A p, q, r \in E : Precedes(p, q, ascending) /\ Precedes(q, r, ascending)
                                => Precedes(p, r, ascending)
    BY <1>1 DEF Spaced, Precedes
  <2>3. TRUE \in BOOLEAN /\ FALSE \in BOOLEAN
    OBVIOUS
  <2> QED
    BY <2>1, <2>2, <2>3, Zenon
<1>2. CASE ~ascending
  <2>1. \A p, q \in E : Precedes(p, q, TRUE) <=> Precedes(q, p, ascending)
    BY <1>2 DEF Spaced, Precedes
  <2>2. /\ \A p \in E : ~Precedes(p, p, ascending)
        /\ \A p, q \in E : p # q => (Precedes(p, q, ascending) <=> ~Precedes(q, p, ascending))
        /\ \A p, q, r \in E : Precedes(p, q, ascending) /\ Precedes(q, r, ascending)
                                => Precedes(p, r, ascending)
    BY <1>2 DEF Spaced, Precedes
  <2>3. TRUE \in BOOLEAN /\ FALSE \in BOOLEAN
    OBVIOUS
  <2> QED
    BY <2>1, <2>2, <2>3, Zenon
<1> QED
  BY <1>1, <1>2

LEMMA FirstInOrder ==
  ASSUME NEW E, Spaced(E), NEW A \in SUBSET E, A # {}, NEW ascending \in BOOLEAN
  PROVE  \E q \in A : \A r \in A : r # q => Precedes(q, r, ascending)
<1> DEFINE Rank(q) == Cardinality(Before(A, q, ascending))
           T == {Rank(q) : q \in A}
<1>1. IsFiniteSet(A)
  BY FS_Subset DEF Spaced
<1>2. ASSUME NEW q \in A
      PROVE  Rank(q) \in Nat /\ IsFiniteSet(Before(A, q, ascending))
  <2>1. Before(A, q, ascending) \in SUBSET A
    BY DEF Before
  <2>2. IsFiniteSet(Before(A, q, ascending))
    BY <1>1, <2>1, FS_Subset
  <2> QED
    BY <2>2, FS_CardinalityType
<1>3. T \subseteq Nat /\ T # {}
  BY <1>2
<1>4. PICK m \in T : \A k \in T : m <= k
  <2> HIDE DEF T
  <2> QED
    BY <1>3, LeastNumber
<1>5. PICK q \in A : Rank(q) = m
  BY <1>4
<1>6. ASSUME NEW r \in A, r # q, ~Precedes(q, r, ascending)
      PROVE  FALSE
  <2>1. Precedes(r, q, ascending)
    BY <1>6, PrecedesOrders
  <2>2. r \in Before(A, q, ascending)
    BY <2>1 DEF Before
  <2>3. r \notin Before(A, r, ascending)
    BY PrecedesOrders DEF Before
  <2>4. Before(A, r, ascending) \in SUBSET Before(A, q, ascending)
    BY <2>1, PrecedesOrders DEF Before
  <2>5. Rank(r) <= Rank(q) /\ Rank(r) # Rank(q)
    BY <1>2, <2>2, <2>3, <2>4, FS_Subset
  <2>6. Rank(r) \in T
    OBVIOUS
  <2>7. m <= Rank(r) /\ Rank(r) \in Nat /\ Rank(q) \in Nat
    BY <1>2, <1>4, <2>6
  <2> HIDE DEF Rank
  <2> QED
    BY <1>5, <2>5, <2>7
<1> QED
  BY <1>6

LEMMA BeforeIsFinite ==
  ASSUME NEW E, Spaced(E), NEW p \in E, NEW ascending \in BOOLEAN
  PROVE  /\ IsFiniteSet(Before(E, p, ascending))
         /\ Cardinality(Before(E, p, ascending)) \in Nat
         /\ p \notin Before(E, p, ascending)
         /\ Cardinality(Before(E, p, ascending) \cup {p}) =
              Cardinality(Before(E, p, ascending)) + 1
<1>1. Before(E, p, ascending) \in SUBSET E
  BY DEF Before
<1>2. IsFiniteSet(Before(E, p, ascending))
  BY <1>1, FS_Subset DEF Spaced
<1>3. p \notin Before(E, p, ascending)
  BY PrecedesOrders DEF Before
<1> QED
  BY <1>2, <1>3, FS_CardinalityType, FS_AddElement

LEMMA NextInOrder ==
  ASSUME NEW E, Spaced(E), NEW p \in E, NEW ascending \in BOOLEAN,
         Cardinality(E) % 2 = 0, Cardinality(Before(E, p, ascending)) % 2 = 0
  PROVE  \E q \in E : Before(E, q, ascending) = Before(E, p, ascending) \cup {p}
<1> DEFINE A == {r \in E : Precedes(p, r, ascending)}
           before == Before(E, p, ascending)
<1>1. A # {}
  <2> SUFFICES ASSUME A = {} PROVE FALSE
    OBVIOUS
  <2>1. E = before \cup {p}
    BY PrecedesOrders DEF Before
  <2>2. Cardinality(E) = Cardinality(before) + 1 /\ Cardinality(before) \in Nat
    BY <2>1, BeforeIsFinite
  <2>3. Cardinality(before) % 2 = 0
    OBVIOUS
  <2> HIDE DEF before
  <2> QED
    BY <2>2, <2>3
<1>2. PICK q \in A : \A r \in A : r # q => Precedes(q, r, ascending)
  <2>1. A \in SUBSET E
    OBVIOUS
  <2> HIDE DEF A
  <2> QED
    BY <1>1, <2>1, FirstInOrder
<1>3. q \in E /\ Precedes(p, q, ascending)
  OBVIOUS
<1>4. ASSUME NEW r \in Before(E, q, ascending)
      PROVE  r \in before \cup {p}
  BY <1>2, <1>3, PrecedesOrders DEF Before
<1>5. ASSUME NEW r \in before \cup {p}
      PROVE  r \in Before(E, q, ascending)
  BY <1>3, PrecedesOrders DEF Before
<1> HIDE DEF before, A
<1>6. Before(E, q, ascending) = before \cup {p}
  BY <1>4, <1>5
<1> QED
  BY <1>3, <1>6 DEF before

LEMMA PreviousInOrder ==
  ASSUME NEW E, Spaced(E), NEW p \in E, NEW ascending \in BOOLEAN,
         Cardinality(Before(E, p, ascending)) % 2 # 0
  PROVE  \E q \in E : /\ Before(E, p, ascending) = Before(E, q, ascending) \cup {q}
                      /\ Cardinality(Before(E, q, ascending)) % 2 = 0
<1> DEFINE before == Before(E, p, ascending)
<1>1. before # {} /\ before \in SUBSET E
  <2>1. before # {}
    BY FS_EmptySet
  <2> QED
    BY <2>1 DEF Before
<1> PICK descending \in BOOLEAN :
           \A p1, q1 \in E : Precedes(p1, q1, descending) <=> Precedes(q1, p1, ascending)
  BY PrecedesOrders
<1>2. PICK q \in before : \A r \in before : r # q => Precedes(q, r, descending)
  <2> HIDE DEF before
  <2> QED
    BY <1>1, FirstInOrder
<1>3. q \in E /\ Precedes(q, p, ascending)
  BY <1>1 DEF Before
<1>4. ASSUME NEW r \in before, r # q
      PROVE  Precedes(r, q, ascending) /\ r \in E
  BY <1>1, <1>2, <1>3, <1>4
<1>5. before = Before(E, q, ascending) \cup {q}
  <2>1. ASSUME NEW r \in before PROVE r \in Before(E, q, ascending) \cup {q}
    BY <1>4 DEF Before
  <2>2. ASSUME NEW r \in Before(E, q, ascending) \cup {q} PROVE r \in before
    BY <1>3, PrecedesOrders DEF Before
  <2> HIDE DEF before
  <2> QED
    BY <2>1, <2>2
<1>6. /\ Cardinality(before) = Cardinality(Before(E, q, ascending)) + 1
      /\ Cardinality(Before(E, q, ascending)) \in Nat
  BY <1>3, <1>5, BeforeIsFinite
<1>7. Cardinality(before) % 2 # 0
  OBVIOUS
<1> HIDE DEF before
<1>8. Cardinality(Before(E, q, ascending)) % 2 = 0
  BY <1>6, <1>7
<1> QED
  BY <1>3, <1>5, <1>8 DEF before

(* Each is in a pair.                                                      *)
LEMMA EveryEndIsPaired ==
  ASSUME NEW E, Spaced(E), Cardinality(E) % 2 = 0, NEW p \in E, NEW ascending \in BOOLEAN
  PROVE  \E pair \in Paired(E, ascending) : p = pair[1] \/ p = pair[2]
<1>1. CASE Cardinality(Before(E, p, ascending)) % 2 = 0
  <2>1. PICK q \in E : Before(E, q, ascending) = Before(E, p, ascending) \cup {p}
    BY <1>1, NextInOrder
  <2>2. <<p, q>> \in Paired(E, ascending)
    BY <1>1, <2>1 DEF Paired
  <2> QED
    BY <2>2
<1>2. CASE Cardinality(Before(E, p, ascending)) % 2 # 0
  <2>1. PICK q \in E : /\ Before(E, p, ascending) = Before(E, q, ascending) \cup {q}
                       /\ Cardinality(Before(E, q, ascending)) % 2 = 0
    BY <1>2, PreviousInOrder
  <2>2. <<q, p>> \in Paired(E, ascending)
    BY <2>1 DEF Paired
  <2> QED
    BY <2>2
<1> QED
  BY <1>1, <1>2

(* And in only one place of it.                                            *)
LEMMA PairsAreDisjoint ==
  ASSUME NEW E, Spaced(E), NEW ascending \in BOOLEAN,
         NEW P \in Paired(E, ascending), NEW Q \in Paired(E, ascending),
         P[1] = Q[1] \/ P[2] = Q[2]
  PROVE  P = Q
<1>1. /\ P = <<P[1], P[2]>> /\ P[1] \in E /\ P[2] \in E
      /\ Q = <<Q[1], Q[2]>> /\ Q[1] \in E /\ Q[2] \in E
      /\ Before(E, P[2], ascending) = Before(E, P[1], ascending) \cup {P[1]}
      /\ Before(E, Q[2], ascending) = Before(E, Q[1], ascending) \cup {Q[1]}
  BY DEF Paired
<1>2. CASE P[1] = Q[1]
  <2>1. Before(E, P[2], ascending) = Before(E, Q[2], ascending)
    BY <1>1, <1>2
  <2>2. P[2] = Q[2]
    BY <1>1, <2>1, PrecedesOrders DEF Before
  <2> QED
    BY <1>1, <1>2, <2>2
<1>3. CASE P[2] = Q[2]
  <2>1. Before(E, P[1], ascending) \cup {P[1]} = Before(E, Q[1], ascending) \cup {Q[1]}
    BY <1>1, <1>3
  <2>2. P[1] = Q[1]
    <3> SUFFICES ASSUME P[1] # Q[1] PROVE FALSE
      OBVIOUS
    <3>1. P[1] \in Before(E, Q[1], ascending) /\ Q[1] \in Before(E, P[1], ascending)
      BY <2>1
    <3> QED
      BY <1>1, <3>1, PrecedesOrders DEF Before
  <2> QED
    BY <1>1, <1>3, <2>2
<1> QED
  BY <1>2, <1>3

-----------------------------------------------------------------------------
(* The chains of a strip are sequences of at least one of its points.      *)
StripPoint(left, right) == {p \in GeoPoint : left <= p.lon /\ p.lon <= right}
Chain(left, right) == Seq(StripPoint(left, right)) \ {<<>>}

LEMMA ChainsHaveEnds ==
  ASSUME NEW left \in Int, NEW right \in Int, NEW chain \in Chain(left, right)
  PROVE  /\ Len(chain) \in Nat \ {0} /\ DOMAIN chain = 1 .. Len(chain)
         /\ Head(chain) \in StripPoint(left, right) /\ Last(chain) \in StripPoint(left, right)
         /\ Head(chain).lon \in Int /\ Last(chain).lon \in Int
         /\ Head(chain).lat \in Int /\ Last(chain).lat \in Int
<1>1. chain \in Seq(StripPoint(left, right)) /\ chain # <<>>
  BY DEF Chain
<1>2. Len(chain) \in Nat \ {0} /\ DOMAIN chain = 1 .. Len(chain)
  BY <1>1, EmptySeq, SMT
<1>3. Head(chain) = chain[1] /\ Last(chain) = chain[Len(chain)]
  BY <1>1 DEF Last
<1>4. Head(chain) \in StripPoint(left, right) /\ Last(chain) \in StripPoint(left, right)
  BY <1>1, <1>2, <1>3
<1> QED
  BY <1>2, <1>4 DEF StripPoint, GeoPoint

LEMMA EndsAreSpaced ==
  ASSUME NEW left \in Int, NEW right \in Int, NEW chains \in Seq(Chain(left, right)),
         NEW boundary \in Int, ~AmbiguousTouch(EndpointsOn(chains, boundary))
  PROVE  Spaced(EndpointsOn(chains, boundary))
           /\ Cardinality(EndpointsOn(chains, boundary)) % 2 = 0
<1> DEFINE E == EndpointsOn(chains, boundary)
           Starts == {k \in DOMAIN chains : Head(chains[k]).lon = boundary}
           Ends == {k \in DOMAIN chains : Last(chains[k]).lon = boundary}
           start == [c \in Starts |-> [chain |-> c, isStart |-> TRUE, lat |-> Head(chains[c]).lat]]
           end == [c \in Ends |-> [chain |-> c, isStart |-> FALSE, lat |-> Last(chains[c]).lat]]
<1>1. IsFiniteSet(Starts) /\ IsFiniteSet(Ends)
  <2>1. DOMAIN chains = 1 .. Len(chains) /\ Len(chains) \in Int
    OBVIOUS
  <2>2. IsFiniteSet(DOMAIN chains)
    BY <2>1, FS_Interval
  <2>3. Starts \in SUBSET DOMAIN chains /\ Ends \in SUBSET DOMAIN chains
    OBVIOUS
  <2> HIDE DEF Starts, Ends
  <2> QED
    BY <2>2, <2>3, FS_Subset
<1>2. E = {start[c] : c \in Starts} \cup {end[c] : c \in Ends}
  BY DEF EndpointsOn
<1>3. start \in Surjection(Starts, {start[c] : c \in Starts})
  BY DEF Surjection
<1>4. end \in Surjection(Ends, {end[c] : c \in Ends})
  BY DEF Surjection
<1>5. IsFiniteSet(E)
  <2> HIDE DEF E, Starts, Ends, start, end
  <2>1. IsFiniteSet({start[c] : c \in Starts}) /\ IsFiniteSet({end[c] : c \in Ends})
    BY <1>1, <1>3, <1>4, FS_Surjection
  <2> QED
    BY <1>2, <2>1, FS_Union
<1>6. \A p \in E : p.lat \in Int
  <2>1. \A c \in DOMAIN chains : chains[c] \in Chain(left, right)
    OBVIOUS
  <2> QED
    BY <2>1, ChainsHaveEnds DEF EndpointsOn
<1>7. Cardinality(E) % 2 = 0 /\ \A p, q \in E : p # q => p.lat # q.lat
  BY DEF AmbiguousTouch
<1> HIDE DEF E
<1>8. Spaced(E)
  BY <1>5, <1>6, <1>7 DEF Spaced
<1> QED
  BY <1>7, <1>8 DEF E

(* Which chain follows which, once every end of a chain has met a start.   *)
LEMMA ChainsFollowEachOther ==
  ASSUME NEW left \in Int, NEW right \in Int, left < right,
         NEW chains \in Seq(Chain(left, right)),
         \A c \in DOMAIN chains : /\ OnBoundary(Head(chains[c]), left, right)
                                  /\ OnBoundary(Last(chains[c]), left, right),
         NEW up \in BOOLEAN, NEW down \in BOOLEAN,
         ~AmbiguousTouch(EndpointsOn(chains, left)),
         EndsMeetStarts(Paired(EndpointsOn(chains, left), up)),
         ~AmbiguousTouch(EndpointsOn(chains, right)),
         EndsMeetStarts(Paired(EndpointsOn(chains, right), down))
  PROVE  LET next == NextChain(Paired(EndpointsOn(chains, left), up)
                                 \cup Paired(EndpointsOn(chains, right), down))
         IN /\ next \in [DOMAIN chains -> DOMAIN chains]
            /\ \A c, d \in DOMAIN chains : next[c] = next[d] => c = d
<1> DEFINE E(b) == EndpointsOn(chains, b)
           order(b) == IF b = left THEN up ELSE down
           P(b) == Paired(E(b), order(b))
           pairs == P(left) \cup P(right)
           next == NextChain(pairs)
           End(c) == [chain |-> c, isStart |-> FALSE, lat |-> Last(chains[c]).lat]
           Start(c) == [chain |-> c, isStart |-> TRUE, lat |-> Head(chains[c]).lat]
           B == {left, right}
<1>1. ASSUME NEW b \in B
      PROVE  /\ Spaced(E(b)) /\ Cardinality(E(b)) % 2 = 0 /\ EndsMeetStarts(P(b))
             /\ order(b) \in BOOLEAN
  <2>1. b \in Int /\ ~AmbiguousTouch(E(b)) /\ EndsMeetStarts(P(b)) /\ order(b) \in BOOLEAN
    OBVIOUS
  <2> QED
    BY <2>1, EndsAreSpaced
<1>2. \A b \in B : \A e \in E(b) :
        IF e.isStart THEN e.chain \in DOMAIN chains /\ e = Start(e.chain)
                            /\ Head(chains[e.chain]).lon = b
        ELSE e.chain \in DOMAIN chains /\ e = End(e.chain) /\ Last(chains[e.chain]).lon = b
  BY DEF EndpointsOn
<1>3. \A c \in DOMAIN chains : \E b \in B : End(c) \in E(b)
  BY DEF EndpointsOn, OnBoundary
<1>4. ASSUME NEW b \in B, NEW pair \in P(b)
      PROVE  /\ pair[1] \in E(b) /\ pair[2] \in E(b)
             /\ ~pair[1].isStart /\ pair[2].isStart
  BY <1>1 DEF Paired, EndsMeetStarts
<1>5. ASSUME NEW b \in B, NEW pair \in P(b), NEW a \in B, NEW other \in P(a),
             pair[1].chain = other[1].chain \/ pair[2].chain = other[2].chain
      PROVE  pair = other
  <2>1. /\ pair[1] = End(pair[1].chain) /\ Last(chains[pair[1].chain]).lon = b
        /\ pair[2] = Start(pair[2].chain) /\ Head(chains[pair[2].chain]).lon = b
    BY <1>2, <1>4
  <2>2. /\ other[1] = End(other[1].chain) /\ Last(chains[other[1].chain]).lon = a
        /\ other[2] = Start(other[2].chain) /\ Head(chains[other[2].chain]).lon = a
    BY <1>2, <1>4
  <2>3. a = b /\ (pair[1] = other[1] \/ pair[2] = other[2])
    <3> HIDE DEF End, Start, P, B
    <3> QED
      BY <1>5, <2>1, <2>2
  <2> QED
    BY <1>1, <2>3, PairsAreDisjoint
<1>6. \A pair \in pairs : \E b \in B : pair \in P(b)
  OBVIOUS
<1>7. ASSUME NEW c \in DOMAIN chains
      PROVE  \E pair \in pairs : pair[1].chain = c
  <2>1. PICK b \in B : End(c) \in E(b)
    BY <1>3
  <2>2. PICK pair \in P(b) : End(c) = pair[1] \/ End(c) = pair[2]
    BY <1>1, <2>1, EveryEndIsPaired
  <2>3. ~End(c).isStart /\ End(c).chain = c
    OBVIOUS
  <2>4. pair[2].isStart
    BY <1>4
  <2>5. pair \in pairs
    OBVIOUS
  <2> HIDE DEF End, P, pairs
  <2> QED
    BY <2>2, <2>3, <2>4, <2>5
<1>8. ASSUME NEW pair \in pairs
      PROVE  pair[1].chain \in DOMAIN chains /\ pair[2].chain \in DOMAIN chains
  <2>1. PICK b \in B : pair \in P(b)
    BY <1>6
  <2>2. pair[1] \in E(b) /\ pair[2] \in E(b)
    BY <1>4, <2>1
  <2> HIDE DEF P, E, pairs, Start, End
  <2> QED
    BY <1>2, <2>2
<1>9. ASSUME NEW pair \in pairs, NEW other \in pairs,
             pair[1].chain = other[1].chain \/ pair[2].chain = other[2].chain
      PROVE  pair = other
  <2>1. PICK b \in B : pair \in P(b)
    BY <1>6
  <2>2. PICK a \in B : other \in P(a)
    BY <1>6
  <2> HIDE DEF P, B, pairs
  <2> QED
    BY <1>5, <1>9, <2>1, <2>2
<1> HIDE DEF pairs
<1>10. {pair[1].chain : pair \in pairs} = DOMAIN chains
  BY <1>7, <1>8
<1>11. next = [c \in DOMAIN chains |->
                 (CHOOSE pair \in pairs : pair[1].chain = c)[2].chain]
  BY <1>10 DEF NextChain
<1>12. ASSUME NEW c \in DOMAIN chains
       PROVE  \E pair \in pairs : pair[1].chain = c /\ next[c] = pair[2].chain
  BY <1>7, <1>11
<1> HIDE DEF next
<1>13. next \in [DOMAIN chains -> DOMAIN chains]
  BY <1>8, <1>11, <1>12
<1>14. ASSUME NEW c \in DOMAIN chains, NEW d \in DOMAIN chains, next[c] = next[d]
       PROVE  c = d
  <2>1. PICK pair \in pairs : pair[1].chain = c /\ next[c] = pair[2].chain
    BY <1>12
  <2>2. PICK other \in pairs : other[1].chain = d /\ next[d] = other[2].chain
    BY <1>12
  <2> QED
    BY <1>9, <1>14, <2>1, <2>2
<1>15. pairs = Paired(EndpointsOn(chains, left), up)
                 \cup Paired(EndpointsOn(chains, right), down)
  BY DEF pairs
<1> QED
  BY <1>13, <1>14, <1>15 DEF next

-----------------------------------------------------------------------------
(* Whatever chain a piece begins with, following the chains leads back to  *)
(* it: none of the others can be visited twice before.                     *)
LEMMA LeastIsMin ==
  ASSUME NEW T, T \subseteq Nat, T # {}
  PROVE  Min(T) \in T /\ \A k \in T : Min(T) <= k
BY LeastNumber DEF Min

Permutes(next, n) ==
  next \in [1 .. n -> 1 .. n] /\ \A c, d \in 1 .. n : next[c] = next[d] => c = d

ReturnsTo(cycle, next, n, first) ==
  /\ cycle \in Seq(1 .. n) /\ Len(cycle) \in 1 .. n
  /\ cycle[1] = first /\ next[Last(cycle)] = first
  /\ \A k \in 2 .. Len(cycle) : cycle[k] = next[cycle[k - 1]] /\ cycle[k] # first

LEMMA ChainsClose ==
  ASSUME NEW n \in Nat, NEW next, Permutes(next, n),
         NEW first \in 1 .. n
  PROVE  ReturnsTo(Cycle(next, first), next, n, first)
<1> USE DEF Permutes
<1> DEFINE D == 1 .. n
           Rule(g, k) == IF k = 0 THEN first ELSE next[g[k - 1]]
           N == Cardinality(DOMAIN next)
           walk == CHOOSE g : g = [k \in 0 .. N |-> Rule(g, k)]
           Home == {k \in 1 .. N : walk[k] = first}
           Met == {i \in 0 .. n : \E j \in i + 1 .. n : walk[i] = walk[j]}
<1>1. Cardinality(D) = n /\ IsFiniteSet(D) /\ N = n
  <2>1. DOMAIN next = 1 .. n
    OBVIOUS
  <2>2. Cardinality(1 .. n) = n /\ IsFiniteSet(1 .. n)
    BY FS_Interval
  <2> QED
    BY <2>1, <2>2
<1>0. Cycle(next, first) = [k \in 1 .. Min(Home) |-> walk[k - 1]]
  BY DEF Cycle
<1> HIDE DEF N
<1>2. /\ walk \in [0 .. n -> D] /\ walk[0] = first
      /\ \A k \in 1 .. n : walk[k] = next[walk[k - 1]]
  <2> DEFINE step == [k \in 0 + 1 .. n |-> next]
  <2>1. step \in [0 + 1 .. n -> [D -> D]]
    OBVIOUS
  <2>2. PICK f \in [0 .. n -> D] : Follows(f, 0, n, first, step)
    <3>1. 0 \in Nat /\ 0 <= n /\ first \in D
      OBVIOUS
    <3> HIDE DEF step, D
    <3> QED
      BY <2>1, <3>1, Recursion
  <2>3. \A k \in 0 .. n : f[k] = Rule(f, k)
    <3>1. \A k \in 0 .. n : k # 0 => k \in 0 + 1 .. n
      OBVIOUS
    <3> QED
      BY <2>2, <3>1 DEF Follows
  <2>4. f = [k \in 0 .. n |-> f[k]]
    OBVIOUS
  <2>5. f = [k \in 0 .. n |-> Rule(f, k)]
    <3> HIDE DEF Rule
    <3> QED
      BY <2>3, <2>4
  <2>6. walk = [k \in 0 .. n |-> Rule(walk, k)]
    <3>1. f = [k \in 0 .. N |-> Rule(f, k)]
      <4> HIDE DEF Rule
      <4> QED
        BY <1>1, <2>5
    <3>2. walk = [k \in 0 .. N |-> Rule(walk, k)]
      <4> HIDE DEF Rule
      <4> QED
        BY <3>1
    <3> HIDE DEF Rule, walk
    <3> QED
      BY <1>1, <3>2
  <2>7. \A k \in 0 .. n : walk[k] = Rule(walk, k)
    <3> HIDE DEF walk, Rule
    <3> QED
      BY <2>6
  <2>8. 0 \in 0 .. n /\ \A k \in 1 .. n : k \in 0 .. n /\ k # 0
    OBVIOUS
  <2>9. walk[0] = first /\ \A k \in 1 .. n : walk[k] = next[walk[k - 1]]
    <3> HIDE DEF walk
    <3> QED
      BY <2>7, <2>8
  <2> DEFINE In == {k \in 0 .. n : walk[k] \in D}
  <2>10. 0 .. n \subseteq In
    <3>1. 0 \in In
      BY <2>8, <2>9
    <3>2. ASSUME NEW k \in 1 .. n, walk[k - 1] \in D PROVE walk[k] \in D
      <4> HIDE DEF walk
      <4> QED
        BY <2>9, <3>2
    <3>3. \A k \in 0 + 1 .. n : k - 1 \in In => k \in In
      <4> HIDE DEF walk, D
      <4> QED
        BY <3>2
    <3> HIDE DEF In
    <3> QED
      BY <3>1, <3>3, UpTo
  <2>11. walk = [k \in 0 .. n |-> walk[k]]
    <3> HIDE DEF walk, Rule
    <3> QED
      BY <2>6
  <2>12. walk \in [0 .. n -> D]
    <3> HIDE DEF walk
    <3> QED
      BY <2>10, <2>11
  <2> QED
    BY <2>9, <2>12
<1> HIDE DEF walk
<1>3. Met # {}
  <2>1. Cardinality(0 .. n) = n + 1 /\ IsFiniteSet(0 .. n)
    BY FS_Interval
  <2>2. Cardinality(D) < Cardinality(0 .. n)
    BY <1>1, <2>1
  <2>3. \E i, j \in 0 .. n : i # j /\ walk[i] = walk[j]
    <3>1. walk \in [0 .. n -> D]
      BY <1>2
    <3> PICK S : S = 0 .. n
      OBVIOUS
    <3>2. /\ IsFiniteSet(S) /\ IsFiniteSet(D) /\ Cardinality(D) < Cardinality(S)
          /\ walk \in [S -> D]
      BY <1>1, <2>1, <2>2, <3>1
    <3> HIDE DEF D
    <3>3. \E x, y \in S : x # y /\ walk[x] = walk[y]
      BY <3>2, FS_PigeonHole
    <3> QED
      BY <3>3
  <2>4. PICK i \in 0 .. n, j \in 0 .. n : i < j /\ walk[i] = walk[j]
    BY <2>3
  <2> QED
    BY <2>4
<1>4. PICK i \in Met : \A k \in Met : i <= k
  <2>1. Met \subseteq Nat
    OBVIOUS
  <2> HIDE DEF Met
  <2> QED
    BY <1>3, <2>1, LeastNumber
<1>5. PICK j \in i + 1 .. n : walk[i] = walk[j]
  BY <1>4
<1>6. i = 0
  <2> SUFFICES ASSUME i # 0 PROVE FALSE
    OBVIOUS
  <2>1. i \in 1 .. n /\ j \in 1 .. n /\ i - 1 \in 0 .. n /\ j - 1 \in 0 .. n
    BY <1>4, <1>5
  <2>2. next[walk[i - 1]] = next[walk[j - 1]]
    BY <1>2, <1>5, <2>1
  <2>3. walk[i - 1] \in D /\ walk[j - 1] \in D
    BY <1>2, <2>1
  <2>4. walk[i - 1] = walk[j - 1]
    BY <2>2, <2>3
  <2>5. i - 1 \in Met
    BY <1>5, <2>1, <2>4
  <2> QED
    BY <1>4, <2>1, <2>5
<1>7. j \in Home
  BY <1>1, <1>2, <1>5, <1>6
<1>8. Min(Home) \in Home /\ \A k \in Home : Min(Home) <= k
  <2>1. Home \subseteq Nat
    BY <1>1
  <2>2. Home # {}
    BY <1>7
  <2> HIDE DEF Home
  <2> QED
    BY <2>1, <2>2, LeastIsMin
<1>10. PICK period \in 1 .. n :
         /\ period = Min(Home) /\ walk[period] = first
         /\ \A k \in 1 .. n : walk[k] = first => period <= k
  BY <1>1, <1>8
<1>11. Cycle(next, first) = [k \in 1 .. period |-> walk[k - 1]]
  BY <1>0, <1>10
<1> HIDE DEF D, Home, Met
<1>12. ASSUME NEW k \in 1 .. period
       PROVE  walk[k - 1] \in D /\ Cycle(next, first)[k] = walk[k - 1]
  <2>1. k - 1 \in 0 .. n
    OBVIOUS
  <2> QED
    BY <1>2, <1>11, <2>1
<1>13. Cycle(next, first) \in Seq(D) /\ Len(Cycle(next, first)) = period
  BY <1>11, <1>12
<1>14. Cycle(next, first)[1] = first
  <2>1. 1 \in 1 .. period
    OBVIOUS
  <2> QED
    BY <1>2, <1>12, <2>1
<1>15. next[Last(Cycle(next, first))] = first
  <2>1. period \in 1 .. period
    OBVIOUS
  <2> QED
    BY <1>2, <1>10, <1>12, <1>13, <2>1 DEF Last
<1>16. ASSUME NEW k \in 2 .. period
       PROVE  /\ Cycle(next, first)[k] = next[Cycle(next, first)[k - 1]]
              /\ Cycle(next, first)[k] # first
  <2>1. k \in 1 .. period /\ k - 1 \in 1 .. period /\ k - 1 \in 1 .. n
    OBVIOUS
  <2>2. Cycle(next, first)[k] = walk[k - 1] /\ Cycle(next, first)[k - 1] = walk[(k - 1) - 1]
    BY <1>12, <2>1
  <2>3. walk[k - 1] = next[walk[(k - 1) - 1]]
    BY <1>2, <2>1
  <2>4. walk[k - 1] # first
    <3>1. walk[k - 1] = first => period <= k - 1
      BY <1>10, <2>1
    <3>2. ~(period <= k - 1)
      OBVIOUS
    <3> QED
      BY <3>1, <3>2
  <2> QED
    BY <2>2, <2>3, <2>4
<1> QED
  BY <1>13, <1>14, <1>15, <1>16 DEF D, ReturnsTo

(* A piece visits none of its chains twice, and pieces that begin with     *)
(* chains of one piece are of the same chains.                             *)
Orbit(next, c) == {Cycle(next, c)[k] : k \in 1 .. Len(Cycle(next, c))}

(* The same, of a walk of m steps. *)
Walks(walk, m, next, n, first) ==
  /\ m \in Nat \ {0} /\ walk \in [1 .. m -> 1 .. n]
  /\ walk[1] = first /\ next[walk[m]] = first
  /\ \A k \in 2 .. m : walk[k] = next[walk[k - 1]] /\ walk[k] # first

LEMMA CyclesAreWalks ==
  ASSUME NEW n \in Nat, NEW next, Permutes(next, n), NEW first \in 1 .. n
  PROVE  LET cycle == Cycle(next, first)
         IN /\ Walks(cycle, Len(cycle), next, n, first)
            /\ Orbit(next, first) = {cycle[k] : k \in 1 .. Len(cycle)}
<1> DEFINE cycle == Cycle(next, first)
<1>1. ReturnsTo(cycle, next, n, first)
  BY ChainsClose
<1>2. Orbit(next, first) = {cycle[k] : k \in 1 .. Len(cycle)}
  BY DEF Orbit
<1> HIDE DEF cycle
<1>3. /\ cycle \in Seq(1 .. n) /\ Len(cycle) \in 1 .. n
      /\ cycle[1] = first /\ next[cycle[Len(cycle)]] = first
      /\ \A k \in 2 .. Len(cycle) : cycle[k] = next[cycle[k - 1]] /\ cycle[k] # first
  BY <1>1 DEF ReturnsTo, Last
<1>4. cycle \in [1 .. Len(cycle) -> 1 .. n] /\ Len(cycle) \in Nat \ {0}
  BY <1>3
<1>5. Walks(cycle, Len(cycle), next, n, first)
  BY <1>3, <1>4 DEF Walks
<1> QED
  BY <1>2, <1>5 DEF cycle

LEMMA CyclesVisitOnce ==
  ASSUME NEW n \in Nat, NEW next, Permutes(next, n),
         NEW first \in 1 .. n
  PROVE  \A i, j \in 1 .. Len(Cycle(next, first)) :
           Cycle(next, first)[i] = Cycle(next, first)[j] => i = j
<1> PICK cycle : cycle = Cycle(next, first)
  OBVIOUS
<1>1. /\ Walks(cycle, Len(cycle), next, n, first)
  BY CyclesAreWalks
<1> PICK walk, m : walk = cycle /\ m = Len(cycle)
  OBVIOUS
<1>2. /\ m \in Nat \ {0} /\ walk \in [1 .. m -> 1 .. n]
      /\ walk[1] = first /\ next[walk[m]] = first
      /\ \A k \in 2 .. m : walk[k] = next[walk[k - 1]] /\ walk[k] # first
  BY <1>1 DEF Walks
<1> DEFINE Twice == {i \in 1 .. m : \E j \in i + 1 .. m : walk[i] = walk[j]}
<1>3. Twice = {}
  <2> SUFFICES ASSUME Twice # {} PROVE FALSE
    OBVIOUS
  <2>1. PICK i \in Twice : \A k \in Twice : i <= k
    <3>1. Twice \subseteq Nat
      OBVIOUS
    <3> HIDE DEF Twice
    <3> QED
      BY <3>1, LeastNumber
  <2>2. PICK j \in i + 1 .. m : walk[i] = walk[j]
    BY <2>1
  <2>3. i \in 1 .. m /\ j \in 2 .. m /\ i < j
    BY <2>1
  <2>4. i # 1
    BY <1>2, <2>2, <2>3
  <2>5. /\ i \in 2 .. m /\ i - 1 \in 1 .. m /\ j - 1 \in 1 .. m
        /\ j - 1 \in (i - 1) + 1 .. m
    BY <2>3, <2>4
  <2>6. next[walk[i - 1]] = next[walk[j - 1]]
    BY <1>2, <2>2, <2>3, <2>5
  <2>7. walk[i - 1] \in 1 .. n /\ walk[j - 1] \in 1 .. n
    BY <1>2, <2>5
  <2>8. walk[i - 1] = walk[j - 1]
    BY <2>6, <2>7 DEF Permutes
  <2>9. i - 1 \in Twice
    BY <2>5, <2>8
  <2> QED
    BY <2>1, <2>3, <2>9
<1>4. ASSUME NEW i \in 1 .. m, NEW j \in 1 .. m, i < j PROVE walk[i] # walk[j]
  <2>1. i \notin Twice /\ j \in i + 1 .. m
    BY <1>3, <1>4
  <2> QED
    BY <2>1
<1>5. \A i, j \in 1 .. m : walk[i] = walk[j] => i = j
  BY <1>4
<1> QED
  BY <1>5

LEMMA OrbitsAreClosed ==
  ASSUME NEW n \in Nat, NEW next, Permutes(next, n),
         NEW first \in 1 .. n
  PROVE  /\ first \in Orbit(next, first) /\ Orbit(next, first) \subseteq 1 .. n
         /\ \A x \in Orbit(next, first) : next[x] \in Orbit(next, first)
         /\ \A x \in 1 .. n : next[x] \in Orbit(next, first) => x \in Orbit(next, first)
<1> PICK cycle : cycle = Cycle(next, first)
  OBVIOUS
<1>1. /\ Walks(cycle, Len(cycle), next, n, first)
      /\ Orbit(next, first) = {cycle[k] : k \in 1 .. Len(cycle)}
  BY CyclesAreWalks
<1> PICK walk, m : walk = cycle /\ m = Len(cycle)
  OBVIOUS
<1>2. /\ m \in Nat \ {0} /\ walk \in [1 .. m -> 1 .. n]
      /\ walk[1] = first /\ next[walk[m]] = first
      /\ \A k \in 2 .. m : walk[k] = next[walk[k - 1]] /\ walk[k] # first
      /\ Orbit(next, first) = {walk[k] : k \in 1 .. m}
  BY <1>1 DEF Walks
<1>3. 1 \in 1 .. m /\ m \in 1 .. m
  BY <1>2
<1>4. ASSUME NEW k \in 1 .. m PROVE next[walk[k]] \in Orbit(next, first)
  <2>1. CASE k = m
    <3>1. next[walk[k]] = walk[1]
      BY <1>2, <2>1
    <3> QED
      BY <1>2, <1>3, <3>1
  <2>2. CASE k # m
    <3>1. k + 1 \in 2 .. m /\ k + 1 \in 1 .. m /\ (k + 1) - 1 = k
      BY <2>2
    <3>2. walk[k + 1] = next[walk[k]]
      BY <1>2, <3>1
    <3> QED
      BY <1>2, <3>1, <3>2
  <2> QED
    BY <2>1, <2>2
<1>5. ASSUME NEW k \in 1 .. m PROVE \E j \in 1 .. m : next[walk[j]] = walk[k]
  <2>1. CASE k = 1
    BY <1>2, <1>3, <2>1
  <2>2. CASE k # 1
    <3>1. k \in 2 .. m /\ k - 1 \in 1 .. m
      BY <2>2
    <3> QED
      BY <1>2, <3>1
  <2> QED
    BY <2>1, <2>2
<1>6. Orbit(next, first) \subseteq 1 .. n
  BY <1>2
<1>7. ASSUME NEW x \in 1 .. n, next[x] \in Orbit(next, first)
      PROVE  x \in Orbit(next, first)
  <2>1. PICK k \in 1 .. m : next[x] = walk[k]
    BY <1>2, <1>7
  <2>2. PICK j \in 1 .. m : next[walk[j]] = walk[k]
    BY <1>5
  <2>3. walk[j] \in 1 .. n /\ next[walk[j]] = next[x]
    BY <1>2, <2>1, <2>2
  <2>4. x = walk[j]
    BY <2>3 DEF Permutes
  <2> QED
    BY <1>2, <2>4
<1>8. first \in Orbit(next, first)
  BY <1>2, <1>3
<1>9. \A x \in Orbit(next, first) : next[x] \in Orbit(next, first)
  BY <1>2, <1>4
<1> QED
  BY <1>6, <1>7, <1>8, <1>9

LEMMA OrbitsAreShared ==
  ASSUME NEW n \in Nat, NEW next, Permutes(next, n),
         NEW c \in 1 .. n, NEW d \in Orbit(next, c)
  PROVE  d \in 1 .. n /\ Orbit(next, d) = Orbit(next, c)
<1>1. ASSUME NEW a \in 1 .. n, NEW X, a \in X, \A x \in X : next[x] \in X
      PROVE  Orbit(next, a) \subseteq X
  <2> PICK cycle : cycle = Cycle(next, a)
    OBVIOUS
  <2>1. /\ Walks(cycle, Len(cycle), next, n, a)
        /\ Orbit(next, a) = {cycle[k] : k \in 1 .. Len(cycle)}
    BY CyclesAreWalks
  <2> PICK walk, m : walk = cycle /\ m = Len(cycle)
    OBVIOUS
  <2>2. /\ m \in Nat \ {0} /\ walk \in [1 .. m -> 1 .. n]
        /\ walk[1] = a /\ next[walk[m]] = a
        /\ \A k \in 2 .. m : walk[k] = next[walk[k - 1]] /\ walk[k] # a
        /\ Orbit(next, a) = {walk[k] : k \in 1 .. m}
    BY <2>1 DEF Walks
  <2> DEFINE In == {k \in 1 .. m : walk[k] \in X}
  <2>3. 1 \in In
    BY <1>1, <2>2
  <2>4. \A k \in 1 + 1 .. m : k - 1 \in In => k \in In
    <3> SUFFICES ASSUME NEW k \in 1 + 1 .. m, walk[k - 1] \in X
                 PROVE  k \in 1 .. m /\ walk[k] \in X
      OBVIOUS
    <3>1. k \in 2 .. m /\ k \in 1 .. m
      OBVIOUS
    <3> QED
      BY <1>1, <2>2, <3>1
  <2>5. 1 .. m \subseteq In
    <3> HIDE DEF In
    <3> QED
      BY <2>2, <2>3, <2>4, UpTo
  <2>6. \A k \in 1 .. m : walk[k] \in X
    BY <2>5
  <2> QED
    BY <2>2, <2>6
<1>2. /\ d \in 1 .. n /\ c \in Orbit(next, c)
      /\ \A x \in Orbit(next, c) : next[x] \in Orbit(next, c)
  BY OrbitsAreClosed
<1>3. /\ d \in Orbit(next, d)
      /\ \A x \in Orbit(next, d) : next[x] \in Orbit(next, d)
      /\ \A x \in 1 .. n : next[x] \in Orbit(next, d) => x \in Orbit(next, d)
  BY <1>2, OrbitsAreClosed
<1>4. Orbit(next, d) \subseteq Orbit(next, c)
  BY <1>1, <1>2
<1>5. c \in Orbit(next, d)
  <2> PICK cycle : cycle = Cycle(next, c)
    OBVIOUS
  <2>1. /\ Walks(cycle, Len(cycle), next, n, c)
        /\ Orbit(next, c) = {cycle[k] : k \in 1 .. Len(cycle)}
    BY CyclesAreWalks
  <2> PICK walk, m : walk = cycle /\ m = Len(cycle)
    OBVIOUS
  <2>2. /\ m \in Nat \ {0} /\ walk \in [1 .. m -> 1 .. n]
        /\ walk[1] = c /\ next[walk[m]] = c
        /\ \A k \in 2 .. m : walk[k] = next[walk[k - 1]] /\ walk[k] # c
        /\ Orbit(next, c) = {walk[k] : k \in 1 .. m}
    BY <2>1 DEF Walks
  <2> DEFINE Met == {k \in 1 .. m : walk[k] \in Orbit(next, d)}
  <2>3. Met # {}
    BY <1>3, <2>2
  <2>4. PICK k \in Met : \A i \in Met : k <= i
    <3>1. Met \subseteq Nat
      OBVIOUS
    <3> HIDE DEF Met
    <3> QED
      BY <2>3, <3>1, LeastNumber
  <2>5. k = 1
    <3> SUFFICES ASSUME k # 1 PROVE FALSE
      OBVIOUS
    <3>1. k \in 2 .. m /\ k - 1 \in 1 .. m
      BY <2>4
    <3>2. walk[k - 1] \in 1 .. n /\ next[walk[k - 1]] \in Orbit(next, d)
      BY <2>2, <2>4, <3>1
    <3>3. walk[k - 1] \in Orbit(next, d)
      BY <1>3, <3>2
    <3>4. k - 1 \in Met
      BY <3>1, <3>3
    <3> QED
      BY <2>4, <3>1, <3>4
  <2> QED
    BY <2>2, <2>4, <2>5
<1>6. Orbit(next, c) \subseteq Orbit(next, d)
  BY <1>1, <1>2, <1>3, <1>5
<1> QED
  BY <1>2, <1>4, <1>6

-----------------------------------------------------------------------------
(* The chains of a ring in a strip are in the strip.                       *)
PlaneRing ==
  [vertices : Seq(GeoPoint) \ {<<>>}, closing : Int, winding : Int,
   side : {"left", "right", "unspecified"}]

LEMMA MinMaxOfTwo ==
  ASSUME NEW x \in Int, NEW y \in Int
  PROVE  /\ Min({x, y}) = IF x <= y THEN x ELSE y
         /\ Max({x, y}) = IF x <= y THEN y ELSE x
<1>1. \E z \in {x, y} : \A w \in {x, y} : z <= w
  OBVIOUS
<1>2. Min({x, y}) \in {x, y} /\ \A w \in {x, y} : Min({x, y}) <= w
  BY <1>1 DEF Min
<1>3. \E z \in {x, y} : \A w \in {x, y} : z >= w
  OBVIOUS
<1>4. Max({x, y}) \in {x, y} /\ \A w \in {x, y} : Max({x, y}) >= w
  BY <1>3 DEF Max
<1>5. CASE x = y
  BY <1>2, <1>4, <1>5
<1>6. CASE x # y
  BY <1>2, <1>4, <1>6
<1> QED
  BY <1>5, <1>6

LEMMA PointAtIsOnGlobe ==
  ASSUME NEW a \in GeoPoint, NEW b \in GeoPoint, a.lon # b.lon, NEW lon \in Int
  PROVE  PointAt(a, b, lon) \in GeoPoint /\ PointAt(a, b, lon).lon = lon
<1> DEFINE west == IF a.lon < b.lon THEN a ELSE b
           east == IF a.lon < b.lon THEN b ELSE a
           up == (east.lat - west.lat) * (lon - west.lon)
           along == east.lon - west.lon
<1>1. /\ west.lat \in Int /\ west.lon \in Int /\ east.lat \in Int /\ east.lon \in Int
      /\ along \in Nat \ {0}
  BY DEF GeoPoint
<1>2. up \in Int
  <2> HIDE DEF west, east
  <2> QED
    BY <1>1
<1>3. PointAt(a, b, lon) = Point(lon, west.lat + up \div along)
  BY DEF PointAt
<1> HIDE DEF west, east, up, along
<1>4. up \div along \in Int
  BY <1>1, <1>2
<1>5. west.lat + up \div along \in Int
  BY <1>1, <1>4
<1> QED
  BY <1>3, <1>5 DEF Point, GeoPoint

LEMMA EdgesAreOnGlobe ==
  ASSUME NEW ring \in PlaneRing, NEW i \in 1 .. Len(ring.vertices)
  PROVE  ring.vertices[i] \in GeoPoint /\ EdgeEnd(ring, i) \in GeoPoint
<1>1. ring.vertices \in Seq(GeoPoint) /\ ring.closing \in Int
  BY DEF PlaneRing
<1> PICK v \in Seq(GeoPoint) : v = ring.vertices
  BY <1>1
<1>2. v[i] \in GeoPoint /\ v[1] \in GeoPoint /\ (i < Len(v) => v[i + 1] \in GeoPoint)
  OBVIOUS
<1>3. CASE i < Len(v)
  BY <1>2, <1>3 DEF EdgeEnd
<1>4. CASE ~(i < Len(v))
  BY <1>1, <1>2, <1>4 DEF EdgeEnd, Point, GeoPoint
<1> QED
  BY <1>2, <1>3, <1>4

(* A segment of the strip.                                                 *)
Segment(left, right) ==
  {s \in Seq(StripPoint(left, right)) : Len(s) = 2}

LEMMA SegmentOf ==
  ASSUME NEW left, NEW right, NEW a \in StripPoint(left, right), NEW b \in StripPoint(left, right)
  PROVE  <<a, b>> \in Segment(left, right)
BY DEF Segment

LEMMA ClippedIsInStrip ==
  ASSUME NEW a \in GeoPoint, NEW b \in GeoPoint, NEW left \in Int, NEW right \in Int
  PROVE  ClippedEdge(a, b, left, right) \in Segment(left, right) \cup {<<>>}
<1> DEFINE low == Max({left, Min({a.lon, b.lon})})
           high == Min({right, Max({a.lon, b.lon})})
<1>1. a.lon \in Int /\ b.lon \in Int
  BY DEF GeoPoint
<1>2. CASE a.lon = b.lon
  <2>1. CASE InStrip(a.lon, left, right) /\ a # b
    <3>1. a \in StripPoint(left, right) /\ b \in StripPoint(left, right)
      BY <1>2, <2>1 DEF InStrip, StripPoint
    <3> QED
      BY <1>2, <2>1, <3>1, SegmentOf DEF ClippedEdge
  <2>2. CASE ~(InStrip(a.lon, left, right) /\ a # b)
    BY <1>2, <2>2 DEF ClippedEdge
  <2> QED
    BY <2>1, <2>2
<1>3. CASE a.lon # b.lon /\ ~(low >= high)
  <2> DEFINE least == Min({a.lon, b.lon})
             most == Max({a.lon, b.lon})
  <2>1. least \in Int /\ most \in Int
    <3>1. /\ least = IF a.lon <= b.lon THEN a.lon ELSE b.lon
          /\ most = IF a.lon <= b.lon THEN b.lon ELSE a.lon
      BY <1>1, MinMaxOfTwo, Zenon
    <3> HIDE DEF least, most
    <3> QED
      BY <1>1, <3>1
  <2>2. /\ low \in Int /\ high \in Int /\ left <= low /\ high <= right
    <3>1. low = Max({left, least}) /\ high = Min({right, most})
      OBVIOUS
    <3> HIDE DEF low, high, least, most
    <3>2. /\ Max({left, least}) = IF left <= least THEN least ELSE left
          /\ Min({right, most}) = IF right <= most THEN right ELSE most
      BY <2>1, MinMaxOfTwo, Zenon
    <3> QED
      BY <2>1, <3>1, <3>2
  <2> HIDE DEF low, high
  <2>3. low < high
    BY <1>3, <2>2
  <2>4. /\ PointAt(a, b, low) \in StripPoint(left, right)
        /\ PointAt(a, b, high) \in StripPoint(left, right)
    BY <1>3, <2>2, <2>3, PointAtIsOnGlobe DEF StripPoint
  <2>5. ClippedEdge(a, b, left, right) =
          IF a.lon < b.lon THEN <<PointAt(a, b, low), PointAt(a, b, high)>>
          ELSE <<PointAt(a, b, high), PointAt(a, b, low)>>
    BY <1>3 DEF ClippedEdge, low, high
  <2> QED
    BY <2>4, <2>5, SegmentOf
<1>4. CASE a.lon # b.lon /\ low >= high
  BY <1>4 DEF ClippedEdge
<1> QED
  BY <1>2, <1>3, <1>4

LEMMA EdgesAreInStrip ==
  ASSUME NEW ring \in PlaneRing, NEW i \in 1 .. Len(ring.vertices),
         NEW left \in Int, NEW right \in Int, left < right
  PROVE  EdgeInStrip(ring, i, left, right) \in Segment(left, right) \cup {<<>>}
<1> DEFINE a == ring.vertices[i]
           b == EdgeEnd(ring, i)
<1>1. a \in GeoPoint /\ b \in GeoPoint
  BY EdgesAreOnGlobe
<1>2. CASE ~Coincident(a, b, left, right)
  BY <1>1, <1>2, ClippedIsInStrip DEF EdgeInStrip
<1>3. CASE Coincident(a, b, left, right)
  <2>1. a \in StripPoint(left, right) /\ b \in StripPoint(left, right)
    BY <1>1, <1>3 DEF Coincident, OnBoundary, StripPoint
  <2> QED
    BY <1>3, <2>1, SegmentOf DEF EdgeInStrip
<1> QED
  BY <1>2, <1>3

LEMMA SegmentsMakeChains ==
  ASSUME NEW left \in Int, NEW right \in Int,
         NEW chains \in Seq(Chain(left, right)), NEW s \in Segment(left, right) \cup {<<>>}
  PROVE  WithEdge(chains, s) \in Seq(Chain(left, right))
<1> DEFINE S == StripPoint(left, right)
           C == Chain(left, right)
<1>1. CASE s = <<>>
  BY <1>1 DEF WithEdge
<1>2. CASE s # <<>>
  <2>1. s \in Seq(S) /\ Len(s) = 2 /\ s \in C
    BY <1>2 DEF Segment, Chain
  <2>2. CASE chains = <<>> \/ Last(Last(chains)) # s[1]
    <3>1. WithEdge(chains, s) = Append(chains, s)
      BY <1>2, <2>2 DEF WithEdge, AppendSegment
    <3> HIDE DEF C
    <3> QED
      BY <2>1, <3>1 DEF C
  <2>3. CASE ~(chains = <<>> \/ Last(Last(chains)) # s[1])
    <3> DEFINE longer == Append(Last(chains), s[2])
    <3>1. WithEdge(chains, s) = [chains EXCEPT ![Len(chains)] = longer]
      BY <1>2, <2>3 DEF WithEdge, AppendSegment, ReplaceAt
    <3>2. Len(chains) \in 1 .. Len(chains)
      BY <2>3, EmptySeq
    <3>3. Last(chains) \in C
      BY <3>2 DEF Last
    <3>4. Last(chains) \in Seq(S) /\ s[2] \in S
      <4>1. 2 \in 1 .. Len(s)
        BY <2>1
      <4>2. s[2] \in S
        BY <2>1, <4>1, ElementOfSeq
      <4> QED
        BY <3>3, <4>2 DEF Chain
    <3>5. longer \in Seq(S) /\ Len(longer) # 0
      <4> HIDE DEF S
      <4> QED
        BY <3>4
    <3>6. longer \in C
      BY <3>5, EmptySeq DEF Chain
    <3> HIDE DEF longer, C
    <3> QED
      BY <3>1, <3>2, <3>6, ExceptSeq DEF C
  <2> QED
    BY <2>2, <2>3
<1> QED
  BY <1>1, <1>2

LEMMA MergedChains ==
  ASSUME NEW left \in Int, NEW right \in Int, NEW chains \in Seq(Chain(left, right))
  PROVE  MergeCyclicChains(chains) \in Seq(Chain(left, right))
<1> DEFINE S == StripPoint(left, right)
           C == Chain(left, right)
           merged == Last(chains) \o Tail(Head(chains))
           others == SubSeq(chains, 2, Len(chains) - 1)
<1>1. CASE Len(chains) < 2 \/ Last(Last(chains)) # Head(Head(chains))
  BY <1>1 DEF MergeCyclicChains
<1>2. CASE ~(Len(chains) < 2 \/ Last(Last(chains)) # Head(Head(chains)))
  <2>1. Len(chains) \in Nat /\ 2 <= Len(chains)
    BY <1>2
  <2>2. Head(chains) \in C /\ Last(chains) \in C
    <3>1. 1 \in 1 .. Len(chains) /\ Len(chains) \in 1 .. Len(chains)
      BY <2>1
    <3>2. Head(chains) = chains[1] /\ Last(chains) = chains[Len(chains)]
      BY DEF Last
    <3> QED
      BY <3>1, <3>2, ElementOfSeq
  <2>3. /\ Head(chains) \in Seq(S) /\ Head(chains) # <<>>
        /\ Last(chains) \in Seq(S) /\ Last(chains) # <<>>
    BY <2>2 DEF Chain
  <2>4. merged \in Seq(S) /\ merged # <<>>
    <3>1. Tail(Head(chains)) \in Seq(S)
      BY <2>3, HeadTailProperties
    <3> HIDE DEF S
    <3> QED
      BY <2>3, <3>1, ConcatProperties, ConcatEqualIffEmpty
  <2>5. merged \in C
    BY <2>4 DEF Chain
  <2>6. others \in Seq(C)
    <3>1. \A i \in 2 .. Len(chains) - 1 : chains[i] \in C
      BY <2>1, ElementOfSeq
    <3>2. 2 \in Int /\ Len(chains) - 1 \in Int
      BY <2>1
    <3> HIDE DEF C
    <3> QED
      BY <3>1, <3>2, SubSeqProperties
  <2>7. MergeCyclicChains(chains) = <<merged>> \o others
    BY <1>2 DEF MergeCyclicChains
  <2> HIDE DEF merged, others, C
  <2>8. <<merged>> \in Seq(C)
    BY <2>5
  <2>9. <<merged>> \o others \in Seq(C)
    BY <2>6, <2>8, ConcatProperties
  <2> QED
    BY <2>7, <2>9 DEF C
<1> QED
  BY <1>1, <1>2

LEMMA ChainsAreInStrip ==
  ASSUME NEW ring \in PlaneRing, NEW left \in Int, NEW right \in Int, left < right
  PROVE  ChainsInStrip(ring, left, right) \in Seq(Chain(left, right))
<1> DEFINE C == Seq(Chain(left, right))
           n == Len(ring.vertices)
           edge(i) == EdgeInStrip(ring, i, left, right)
           step == [i \in 0 + 1 .. n |-> [c \in C |-> WithEdge(c, edge(i))]]
           Rule(f, i) == IF i = 0 THEN <<>> ELSE WithEdge(f[i - 1], edge(i))
           chains == CHOOSE f : f = [i \in 0 .. n |-> Rule(f, i)]
<1>1. ring.vertices \in Seq(GeoPoint)
  BY DEF PlaneRing
<1>2. n \in Nat /\ 0 \in Nat /\ 0 <= n
  BY <1>1
<1>3. step \in [0 + 1 .. n -> [C -> C]]
  <2> SUFFICES ASSUME NEW i \in 0 + 1 .. n, NEW c \in C
               PROVE  WithEdge(c, edge(i)) \in C
    OBVIOUS
  <2>1. i \in 1 .. Len(ring.vertices)
    OBVIOUS
  <2>2. edge(i) \in Segment(left, right) \cup {<<>>}
    BY <2>1, EdgesAreInStrip
  <2> HIDE DEF edge
  <2> QED
    BY <2>2, SegmentsMakeChains
<1>4. <<>> \in C
  BY EmptySeq
<1>5. PICK f \in [0 .. n -> C] : Follows(f, 0, n, <<>>, step)
  <2> HIDE DEF step, C, n
  <2> QED
    BY <1>2, <1>3, <1>4, Recursion
<1>6. f = [i \in 0 .. n |-> Rule(f, i)]
  <2>1. ASSUME NEW i \in 0 .. n PROVE f[i] = Rule(f, i)
    <3>1. CASE i = 0
      BY <1>5, <3>1 DEF Follows
    <3>2. CASE i # 0
      <4>1. i \in 0 + 1 .. n /\ i - 1 \in 0 .. n
        BY <1>2, <3>2
      <4>2. f[i] = step[i][f[i - 1]] /\ f[i - 1] \in C
        <5> HIDE DEF step, C
        <5> QED
          BY <1>5, <4>1 DEF Follows
      <4> HIDE DEF C, edge
      <4> QED
        BY <3>2, <4>1, <4>2
    <3> QED
      BY <3>1, <3>2
  <2>2. f = [i \in 0 .. n |-> f[i]]
    <3> HIDE DEF C
    <3> QED
      BY <1>5
  <2> HIDE DEF Rule
  <2> QED
    BY <2>1, <2>2
<1>7. chains = [i \in 0 .. n |-> Rule(chains, i)]
  <2> HIDE DEF Rule
  <2> QED
    BY <1>6
<1>8. ChainsInStrip(ring, left, right) = MergeCyclicChains(chains[n])
  BY DEF ChainsInStrip
<1>9. chains[n] \in C
  <2> DEFINE In == {i \in 0 .. n : chains[i] \in C}
  <2>1. 0 \in In
    <3>1. 0 \in 0 .. n
      BY <1>2
    <3>2. chains[0] = Rule(chains, 0)
      <4> HIDE DEF chains, Rule
      <4> QED
        BY <1>7, <3>1
    <3> HIDE DEF chains
    <3> QED
      BY <1>4, <3>1, <3>2
  <2>2. ASSUME NEW i \in 0 + 1 .. n, i - 1 \in In PROVE i \in In
    <3>1. i \in 0 .. n /\ i # 0 /\ i \in 1 .. Len(ring.vertices)
      BY <1>2
    <3>2. chains[i] = WithEdge(chains[i - 1], edge(i))
      <4>1. chains[i] = Rule(chains, i)
        <5> HIDE DEF chains, Rule
        <5> QED
          BY <1>7, <3>1
      <4> HIDE DEF chains, edge
      <4> QED
        BY <3>1, <4>1
    <3>3. edge(i) \in Segment(left, right) \cup {<<>>}
      BY <3>1, EdgesAreInStrip
    <3> HIDE DEF edge, chains
    <3>4. chains[i] \in C
      BY <2>2, <3>2, <3>3, SegmentsMakeChains
    <3> QED
      BY <3>1, <3>4
  <2>3. 0 .. n \subseteq In
    <3> HIDE DEF In, n
    <3> QED
      BY <1>2, <2>1, <2>2, UpTo
  <2> HIDE DEF chains, C
  <2> QED
    BY <1>2, <2>3
<1> HIDE DEF chains
<1> QED
  BY <1>8, <1>9, MergedChains

-----------------------------------------------------------------------------
(* Pieces in the domain of a projection.                                   *)
Fitting(central) ==
  {r \in PlaneRing : \A lon \in Longitudes(r) :
                       InStrip(lon, central - HalfTurn, central + HalfTurn)}

LEMMA ShiftedRings ==
  ASSUME NEW ring \in PlaneRing, NEW shift \in Int
  PROVE  /\ Shifted(ring, shift) \in PlaneRing
         /\ Longitudes(Shifted(ring, shift)) = {lon + shift : lon \in Longitudes(ring)}
         /\ Longitudes(ring) \subseteq Int
<1> PICK v \in Seq(GeoPoint) \ {<<>>} : v = ring.vertices
  BY DEF PlaneRing
<1> DEFINE moved == [i \in DOMAIN v |-> Point(v[i].lon + shift, v[i].lat)]
<1>1. /\ ring.closing \in Int /\ ring.winding \in Int
      /\ ring.side \in {"left", "right", "unspecified"}
      /\ ring = [vertices |-> v, closing |-> ring.closing, winding |-> ring.winding,
                 side |-> ring.side]
  BY DEF PlaneRing
<1>2. Shifted(ring, shift) = [vertices |-> moved, closing |-> ring.closing + shift,
                              winding |-> ring.winding, side |-> ring.side]
  <2>1. Shifted(ring, shift) = [ring EXCEPT !.closing = ring.closing + shift, !.vertices = moved]
    BY DEF Shifted
  <2> PICK c, w, side : c = ring.closing /\ w = ring.winding /\ side = ring.side
    OBVIOUS
  <2>2. ring = [vertices |-> v, closing |-> c, winding |-> w, side |-> side]
    BY <1>1
  <2> HIDE DEF moved
  <2> QED
    BY <2>1, <2>2
<1>3. DOMAIN v = 1 .. Len(v) /\ Len(v) \in Nat \ {0}
  <2>1. v \in Seq(GeoPoint) /\ v # <<>>
    OBVIOUS
  <2> QED
    BY <2>1, EmptySeq, LenProperties
<1>4. ASSUME NEW i \in 1 .. Len(v)
      PROVE  /\ v[i].lon \in Int /\ moved[i] \in GeoPoint
             /\ moved[i].lon = v[i].lon + shift
  <2>1. v[i] \in GeoPoint
    OBVIOUS
  <2> QED
    BY <1>3, <2>1 DEF Point, GeoPoint
<1>5. moved \in Seq(GeoPoint) /\ Len(moved) = Len(v) /\ DOMAIN moved = 1 .. Len(v)
  <2> DEFINE At(i) == Point(v[i].lon + shift, v[i].lat)
  <2>1. moved = [i \in 1 .. Len(v) |-> At(i)]
    BY <1>3
  <2>2. \A i \in 1 .. Len(v) : At(i) \in GeoPoint
    BY <1>3, <1>4
  <2> HIDE DEF moved, At
  <2>3. moved \in Seq(GeoPoint)
    BY <1>3, <2>1, <2>2
  <2>4. DOMAIN moved = 1 .. Len(v)
    BY <2>1
  <2> QED
    BY <1>3, <2>3, <2>4
<1>6. moved # <<>>
  BY <1>3, <1>5, EmptySeq
<1> HIDE DEF moved
<1>7. Shifted(ring, shift) \in PlaneRing
  BY <1>1, <1>2, <1>5, <1>6 DEF PlaneRing
<1>8. Longitudes(ring) = {v[i].lon : i \in 1 .. Len(v)} \cup {ring.closing}
  BY <1>3 DEF Longitudes
<1>9. Longitudes(Shifted(ring, shift)) =
        {moved[i].lon : i \in 1 .. Len(v)} \cup {ring.closing + shift}
  BY <1>2, <1>5 DEF Longitudes
<1>10. Longitudes(Shifted(ring, shift)) = {lon + shift : lon \in Longitudes(ring)}
  BY <1>4, <1>8, <1>9
<1>11. Longitudes(ring) \subseteq Int
  BY <1>1, <1>4, <1>8
<1> QED
  BY <1>7, <1>10, <1>11

LEMMA PiecesAreFitting ==
  ASSUME NEW central \in Int, NEW strip \in Int, NEW left \in Int, NEW right \in Int,
         left = central - HalfTurn + strip * Turn, right = left + Turn,
         NEW points \in Chain(left, right), NEW side \in {"left", "right", "unspecified"}
  PROVE  Piece(points, StripShift(strip), side) \in Fitting(central)
<1> DEFINE ring == LinearRing(points, Head(points).lon, 0, side)
           shift == StripShift(strip)
<1>1. shift \in Int /\ left + shift = central - HalfTurn /\ right + shift = central + HalfTurn
  <2> PICK turns \in Int : turns = strip * Turn
    BY Globe
  <2> QED
    BY Globe DEF StripShift
<1>2. points \in Seq(StripPoint(left, right)) /\ points # <<>>
  BY DEF Chain
<1>3. \A i \in 1 .. Len(points) : points[i] \in StripPoint(left, right)
  BY <1>2, ElementOfSeq
<1>4. DOMAIN points = 1 .. Len(points) /\ Len(points) \in Nat \ {0}
  BY ChainsHaveEnds
<1>5. points \in Seq(GeoPoint)
  <2>1. points = [i \in 1 .. Len(points) |-> points[i]]
    BY <1>2, <1>4
  <2>2. \A i \in 1 .. Len(points) : points[i] \in GeoPoint
    BY <1>3 DEF StripPoint
  <2> QED
    BY <1>4, <2>1, <2>2
<1>6. Head(points) \in StripPoint(left, right)
  BY ChainsHaveEnds
<1>7. ring \in PlaneRing
  BY <1>2, <1>5, <1>6 DEF LinearRing, PlaneRing, StripPoint, GeoPoint
<1>8. \A lon \in Longitudes(ring) : left <= lon /\ lon <= right
  BY <1>3, <1>4, <1>6 DEF Longitudes, LinearRing, StripPoint
<1>9. Piece(points, shift, side) = Shifted(ring, shift)
  BY DEF Piece
<1> HIDE DEF ring, shift
<1>10. /\ Shifted(ring, shift) \in PlaneRing
       /\ Longitudes(Shifted(ring, shift)) = {lon + shift : lon \in Longitudes(ring)}
       /\ Longitudes(ring) \subseteq Int
  BY <1>1, <1>7, ShiftedRings
<1>11. ASSUME NEW lon \in Longitudes(Shifted(ring, shift))
       PROVE  InStrip(lon, central - HalfTurn, central + HalfTurn)
  <2>1. PICK x \in Longitudes(ring) : lon = x + shift
    BY <1>10
  <2>2. x \in Int /\ left <= x /\ x <= right
    BY <1>8, <1>10
  <2>3. left + shift <= lon /\ lon <= right + shift
    BY <1>1, <2>1, <2>2
  <2> QED
    BY <1>1, <2>3 DEF InStrip
<1> QED
  BY <1>9, <1>10, <1>11 DEF Fitting, shift

(* A piece is made of whole chains.                                        *)
LEMMA JoinedChains ==
  ASSUME NEW left \in Int, NEW right \in Int,
         NEW chains \in Seq(Chain(left, right)), chains # <<>>
  PROVE  FlattenSeq(chains) \in Chain(left, right)
<1> DEFINE C == Chain(left, right)
           n == Len(chains)
           step == [i \in 1 + 1 .. n |-> [c \in C |-> c \o chains[i]]]
           Rule(f, i) == IF i = 1 THEN chains[i] ELSE f[i - 1] \o chains[i]
           flatten == CHOOSE f : f = [i \in 1 .. n |-> Rule(f, i)]
<1>1. n \in Nat \ {0} /\ 1 \in Nat /\ 1 <= n /\ 1 \in 1 .. n /\ n \in 1 .. n
  BY EmptySeq
<1>2. \A i \in 1 .. n : chains[i] \in C
  BY ElementOfSeq
<1>3. ASSUME NEW c \in C, NEW i \in 1 .. n
      PROVE  c \o chains[i] \in C
  <2>1. /\ c \in Seq(StripPoint(left, right)) /\ c # <<>>
        /\ chains[i] \in Seq(StripPoint(left, right))
    BY <1>2 DEF Chain
  <2> QED
    BY <2>1, ConcatProperties, ConcatEqualIffEmpty DEF Chain
<1>4. step \in [1 + 1 .. n -> [C -> C]]
  <2> SUFFICES ASSUME NEW i \in 1 + 1 .. n, NEW c \in C
               PROVE  c \o chains[i] \in C
    OBVIOUS
  <2>1. i \in 1 .. n
    BY <1>1
  <2> QED
    BY <1>3, <2>1
<1>5. PICK f \in [1 .. n -> C] : Follows(f, 1, n, chains[1], step)
  <2> HIDE DEF step, C, n
  <2> QED
    BY <1>1, <1>2, <1>4, Recursion
<1>6. f = [i \in 1 .. n |-> Rule(f, i)]
  <2>1. ASSUME NEW i \in 1 .. n PROVE f[i] = Rule(f, i)
    <3>1. CASE i = 1
      BY <1>5, <3>1 DEF Follows
    <3>2. CASE i # 1
      <4>1. i \in 1 + 1 .. n /\ i - 1 \in 1 .. n
        BY <1>1, <3>2
      <4>2. f[i] = step[i][f[i - 1]] /\ f[i - 1] \in C
        <5> HIDE DEF step, C
        <5> QED
          BY <1>5, <4>1 DEF Follows
      <4> HIDE DEF C
      <4> QED
        BY <3>2, <4>1, <4>2
    <3> QED
      BY <3>1, <3>2
  <2>2. f = [i \in 1 .. n |-> f[i]]
    <3> HIDE DEF C
    <3> QED
      BY <1>5
  <2> HIDE DEF Rule
  <2> QED
    BY <2>1, <2>2
<1>7. flatten = [i \in 1 .. n |-> Rule(flatten, i)]
  <2> HIDE DEF Rule
  <2> QED
    BY <1>6
<1>8. FlattenSeq(chains) = flatten[n]
  BY <1>1 DEF FlattenSeq
<1> HIDE DEF flatten
<1>9. \A i \in 1 .. n : flatten[i] = Rule(flatten, i)
  <2> HIDE DEF Rule
  <2> QED
    BY <1>7
<1>10. flatten[n] \in C
  <2> DEFINE In == {i \in 1 .. n : flatten[i] \in C}
  <2>1. 1 \in In
    <3>1. flatten[1] = chains[1]
      BY <1>1, <1>9
    <3> HIDE DEF C
    <3> QED
      BY <1>1, <1>2, <3>1
  <2>2. ASSUME NEW i \in 1 + 1 .. n, i - 1 \in In PROVE i \in In
    <3>1. i \in 1 .. n /\ i # 1
      BY <1>1
    <3>2. flatten[i] = flatten[i - 1] \o chains[i]
      BY <1>9, <3>1
    <3> HIDE DEF C
    <3> QED
      BY <1>3, <2>2, <3>1, <3>2
  <2>3. 1 .. n \subseteq In
    <3> HIDE DEF In, n
    <3> QED
      BY <1>1, <2>1, <2>2, UpTo
  <2> HIDE DEF C
  <2> QED
    BY <1>1, <2>3
<1> QED
  BY <1>8, <1>10

(* The cycles that are found, one after the other.                         *)
Leads(next, c) == c = Min(ToSet(Cycle(next, c)))

Accumulates(f, next, n) ==
  /\ f \in [0 .. n -> Seq(Seq(1 .. n) \ {<<>>})]
  /\ f[0] = <<>> /\ f[n] = Cycles(next, n)
  /\ \A c \in 1 .. n : f[c] = IF Leads(next, c)
                             THEN Append(f[c - 1], Cycle(next, c))
                             ELSE f[c - 1]

LEMMA CyclesAccumulate ==
  ASSUME NEW n \in Nat, NEW next, Permutes(next, n)
  PROVE  \E f : Accumulates(f, next, n)
<1> DEFINE S == Seq(Seq(1 .. n) \ {<<>>})
           least(c) == c = Min(ToSet(Cycle(next, c)))
           with(f, c) == IF least(c) THEN Append(f, Cycle(next, c)) ELSE f
           step == [c \in 0 + 1 .. n |-> [f \in S |-> with(f, c)]]
           Rule(g, c) == IF c = 0 THEN <<>> ELSE with(g[c - 1], c)
           cycles == CHOOSE g : g = [c \in 0 .. n |-> Rule(g, c)]
<1>1. ASSUME NEW c \in 1 .. n, NEW f \in S
      PROVE  with(f, c) \in S
  <2>1. Cycle(next, c) \in Seq(1 .. n) /\ Len(Cycle(next, c)) \in 1 .. n
    BY ChainsClose DEF ReturnsTo
  <2>2. Cycle(next, c) \in Seq(1 .. n) \ {<<>>}
    <3> PICK cycle : cycle = Cycle(next, c)
      OBVIOUS
    <3>1. Len(cycle) # 0 /\ cycle \in Seq(1 .. n)
      BY <2>1
    <3> QED
      BY <3>1, EmptySeq
  <2> HIDE DEF least
  <2> QED
    BY <2>2
<1> HIDE DEF with
<1>2. step \in [0 + 1 .. n -> [S -> S]]
  <2> SUFFICES ASSUME NEW c \in 0 + 1 .. n, NEW f \in S
               PROVE  with(f, c) \in S
    OBVIOUS
  <2>1. c \in 1 .. n
    OBVIOUS
  <2> HIDE DEF S
  <2> QED
    BY <1>1, <2>1
<1>3. 0 \in Nat /\ 0 <= n /\ <<>> \in S
  BY EmptySeq
<1>4. PICK f \in [0 .. n -> S] : Follows(f, 0, n, <<>>, step)
  <2> HIDE DEF step, S
  <2> QED
    BY <1>2, <1>3, Recursion
<1>5. f = [c \in 0 .. n |-> Rule(f, c)]
  <2>1. ASSUME NEW c \in 0 .. n PROVE f[c] = Rule(f, c)
    <3>1. CASE c = 0
      BY <1>4, <3>1 DEF Follows
    <3>2. CASE c # 0
      <4>1. c \in 0 + 1 .. n /\ c - 1 \in 0 .. n
        BY <3>2
      <4>2. f[c] = step[c][f[c - 1]] /\ f[c - 1] \in S
        <5> HIDE DEF step, S
        <5> QED
          BY <1>4, <4>1 DEF Follows
      <4> HIDE DEF S
      <4> QED
        BY <3>2, <4>1, <4>2
    <3> QED
      BY <3>1, <3>2
  <2>2. f = [c \in 0 .. n |-> f[c]]
    <3> HIDE DEF S
    <3> QED
      BY <1>4
  <2> HIDE DEF Rule
  <2> QED
    BY <2>1, <2>2
<1>6. cycles = [c \in 0 .. n |-> Rule(cycles, c)]
  <2> HIDE DEF Rule
  <2> QED
    BY <1>5
<1>7. Cycles(next, n) = cycles[n]
  BY DEF Cycles, with
<1> HIDE DEF cycles
<1>8. \A c \in 0 .. n : cycles[c] = Rule(cycles, c)
  <2> HIDE DEF Rule
  <2> QED
    BY <1>6
<1>9. cycles \in [0 .. n -> S]
  <2> DEFINE In == {c \in 0 .. n : cycles[c] \in S}
  <2>1. 0 \in In
    <3>1. 0 \in 0 .. n
      OBVIOUS
    <3>2. cycles[0] = <<>>
      BY <1>8, <3>1
    <3> HIDE DEF S
    <3> QED
      BY <1>3, <3>1, <3>2
  <2>2. ASSUME NEW c \in 0 + 1 .. n, c - 1 \in In PROVE c \in In
    <3>1. c \in 0 .. n /\ c # 0 /\ c \in 1 .. n
      OBVIOUS
    <3>2. cycles[c] = with(cycles[c - 1], c)
      BY <1>8, <3>1
    <3> HIDE DEF S
    <3> QED
      BY <1>1, <2>2, <3>1, <3>2
  <2>3. 0 .. n \subseteq In
    <3> HIDE DEF In
    <3> QED
      BY <1>3, <2>1, <2>2, UpTo
  <2>4. \A c \in 0 .. n : cycles[c] \in S
    BY <2>3
  <2>5. cycles = [c \in 0 .. n |-> cycles[c]]
    <3> HIDE DEF Rule
    <3> QED
      BY <1>6
  <2> HIDE DEF S
  <2> QED
    BY <2>4, <2>5
<1>10. 0 \in 0 .. n /\ \A c \in 1 .. n : c \in 0 .. n /\ c # 0
  OBVIOUS
<1>11. cycles[0] = <<>> /\ \A c \in 1 .. n : cycles[c] = with(cycles[c - 1], c)
  BY <1>8, <1>10
<1>12. \A c \in 1 .. n : cycles[c] = IF Leads(next, c)
                                   THEN Append(cycles[c - 1], Cycle(next, c))
                                   ELSE cycles[c - 1]
  BY <1>11 DEF with, Leads
<1> QED
  BY <1>7, <1>9, <1>11, <1>12 DEF Accumulates

LEMMA AppendIsLonger ==
  ASSUME NEW S, NEW list \in Seq(S), NEW x
  PROVE  /\ DOMAIN Append(list, x) = DOMAIN list \cup {Len(list) + 1}
         /\ Len(list) + 1 \notin DOMAIN list
         /\ Append(list, x)[Len(list) + 1] = x
         /\ \A k \in DOMAIN list : Append(list, x)[k] = list[k]
<1>1. DOMAIN list = 1 .. Len(list) /\ Len(list) \in Nat
  BY LenProperties
<1>2. \A m \in Nat : 1 .. m + 1 = (1 .. m) \cup {m + 1} /\ m + 1 \notin 1 .. m
  OBVIOUS
<1>3. list \in Seq(S \cup {x}) /\ x \in S \cup {x}
  OBVIOUS
<1> DEFINE T == S \cup {x}
<1> HIDE DEF T
<1>4. /\ Append(list, x) \in Seq(T) /\ Len(Append(list, x)) = Len(list) + 1
      /\ \A i \in 1 .. Len(list) : Append(list, x)[i] = list[i]
      /\ Append(list, x)[Len(list) + 1] = x
  BY <1>3, AppendProperties DEF T
<1>5. DOMAIN Append(list, x) = 1 .. Len(list) + 1
  BY <1>4
<1> QED
  BY <1>1, <1>2, <1>4, <1>5

LEMMA CyclesAreFound ==
  ASSUME NEW n \in Nat, NEW next, Permutes(next, n)
  PROVE  Cycles(next, n) \in Seq(Seq(1 .. n) \ {<<>>})
<1>1. n \in 0 .. n
  OBVIOUS
<1> QED
  BY <1>1, CyclesAccumulate DEF Accumulates

(* The leader of a piece is its first chain: the least that the piece has, *)
(* so that a piece is begun once, from the first of its chains that no     *)
(* piece before has visited.                                               *)
LEMMA LeadersAreLeast ==
  ASSUME NEW n \in Nat, NEW next, Permutes(next, n), NEW c \in 1 .. n
  PROVE  Leads(next, c) <=> c = Min(Orbit(next, c))
<1>1. Orbit(next, c) = ToSet(Cycle(next, c))
  <2> PICK cycle : cycle = Cycle(next, c)
    OBVIOUS
  <2>1. cycle \in Seq(1 .. n)
    BY ChainsClose DEF ReturnsTo
  <2>2. DOMAIN cycle = 1 .. Len(cycle)
    BY <2>1
  <2>3. ToSet(cycle) = {cycle[i] : i \in DOMAIN cycle}
    BY DEF ToSet
  <2>4. Orbit(next, c) = {cycle[k] : k \in 1 .. Len(cycle)}
    BY DEF Orbit
  <2> QED
    BY <2>2, <2>3, <2>4
<1> QED
  BY <1>1 DEF Leads

LEMMA OneLeader ==
  ASSUME NEW n \in Nat, NEW next, Permutes(next, n), NEW d \in 1 .. n
  PROVE  \E c \in 1 .. n :
           /\ Leads(next, c) /\ d \in Orbit(next, c)
           /\ \A b \in 1 .. n : Leads(next, b) /\ d \in Orbit(next, b) => b = c
<1>1. d \in Orbit(next, d) /\ Orbit(next, d) \subseteq 1 .. n
  BY OrbitsAreClosed
<1>2. Min(Orbit(next, d)) \in Orbit(next, d)
  <2>1. Orbit(next, d) \subseteq Nat /\ Orbit(next, d) # {}
    BY <1>1
  <2> QED
    BY <2>1, LeastIsMin
<1> PICK c : c = Min(Orbit(next, d))
  OBVIOUS
<1>3. c \in Orbit(next, d) /\ c \in 1 .. n
  BY <1>1, <1>2
<1>4. Orbit(next, c) = Orbit(next, d)
  BY <1>3, OrbitsAreShared
<1>5. Leads(next, c)
  BY <1>3, <1>4, LeadersAreLeast
<1>6. ASSUME NEW b \in 1 .. n, Leads(next, b), d \in Orbit(next, b)
      PROVE  b = c
  <2>1. Orbit(next, d) = Orbit(next, b)
    BY <1>6, OrbitsAreShared
  <2>2. b = Min(Orbit(next, b))
    BY <1>6, LeadersAreLeast
  <2> QED
    BY <2>1, <2>2
<1> QED
  BY <1>1, <1>3, <1>4, <1>5, <1>6

(* The pieces that are found among the first c chains: one of each leader. *)
FoundOnce(list, next, c) ==
  /\ \A k \in DOMAIN list : \E l \in 1 .. c : Leads(next, l) /\ list[k] = Cycle(next, l)
  /\ \A l \in 1 .. c : Leads(next, l) => \E k \in DOMAIN list : list[k] = Cycle(next, l)
  /\ \A k, m \in DOMAIN list : list[k] = list[m] => k = m

LEMMA OnceMore ==
  ASSUME NEW n \in Nat, NEW next, Permutes(next, n), NEW c \in 1 .. n,
         NEW S, NEW list \in Seq(S), FoundOnce(list, next, c - 1)
  PROVE  FoundOnce(IF Leads(next, c) THEN Append(list, Cycle(next, c)) ELSE list, next, c)
<1>1. 1 .. c = (1 .. c - 1) \cup {c} /\ c \notin 1 .. c - 1 /\ 1 .. c - 1 \subseteq 1 .. n
  OBVIOUS
<1>2. CASE ~Leads(next, c)
  BY <1>1, <1>2 DEF FoundOnce
<1>3. CASE Leads(next, c)
  <2> PICK cycle : cycle = Cycle(next, c)
    OBVIOUS
  <2> PICK longer : longer = Append(list, cycle)
    OBVIOUS
  <2>1. /\ DOMAIN longer = DOMAIN list \cup {Len(list) + 1}
        /\ Len(list) + 1 \notin DOMAIN list
        /\ longer[Len(list) + 1] = cycle
        /\ \A k \in DOMAIN list : longer[k] = list[k]
    BY AppendIsLonger
  <2>2. ASSUME NEW k \in DOMAIN list PROVE list[k] # cycle
    <3>1. PICK l \in 1 .. c - 1 : list[k] = Cycle(next, l)
      BY DEF FoundOnce
    <3>2. Cycle(next, l)[1] = l /\ Cycle(next, c)[1] = c
      BY <1>1, ChainsClose DEF ReturnsTo
    <3> QED
      BY <1>1, <3>1, <3>2
  <2>3. FoundOnce(longer, next, c)
    <3>1. \A k \in DOMAIN longer : \E l \in 1 .. c : Leads(next, l) /\ longer[k] = Cycle(next, l)
      BY <1>1, <1>3, <2>1 DEF FoundOnce
    <3>2. ASSUME NEW l \in 1 .. c, Leads(next, l)
          PROVE  \E k \in DOMAIN longer : longer[k] = Cycle(next, l)
      <4>1. CASE l = c
        BY <2>1, <4>1
      <4>2. CASE l # c
        BY <1>1, <2>1, <3>2, <4>2 DEF FoundOnce
      <4> QED
        BY <4>1, <4>2
    <3>3. \A k, m \in DOMAIN longer : longer[k] = longer[m] => k = m
      BY <2>1, <2>2 DEF FoundOnce
    <3> QED
      BY <3>1, <3>2, <3>3 DEF FoundOnce
  <2> QED
    BY <1>3, <2>3
<1> QED
  BY <1>2, <1>3

LEMMA CyclesAreOnce ==
  ASSUME NEW n \in Nat, NEW next, Permutes(next, n)
  PROVE  FoundOnce(Cycles(next, n), next, n)
<1> DEFINE S == Seq(1 .. n) \ {<<>>}
<1> PICK f : Accumulates(f, next, n)
  BY CyclesAccumulate
<1>1. /\ f \in [0 .. n -> Seq(S)]
      /\ f[0] = <<>> /\ f[n] = Cycles(next, n)
      /\ \A c \in 1 .. n : f[c] = IF Leads(next, c)
                                 THEN Append(f[c - 1], Cycle(next, c))
                                 ELSE f[c - 1]
  BY DEF Accumulates
<1> HIDE DEF S
<1> DEFINE In == {c \in 0 .. n : FoundOnce(f[c], next, c)}
<1>2. 0 \in In
  <2>1. 1 .. 0 = {} /\ DOMAIN <<>> = {} /\ 0 \in 0 .. n
    OBVIOUS
  <2> QED
    BY <1>1, <2>1 DEF FoundOnce
<1>3. ASSUME NEW c \in 0 + 1 .. n, c - 1 \in In PROVE c \in In
  <2>1. c \in 1 .. n /\ c \in 0 .. n /\ c - 1 \in 0 .. n
    OBVIOUS
  <2>2. f[c - 1] \in Seq(S) /\ FoundOnce(f[c - 1], next, c - 1)
    BY <1>1, <1>3, <2>1
  <2>3. FoundOnce(IF Leads(next, c) THEN Append(f[c - 1], Cycle(next, c)) ELSE f[c - 1],
                  next, c)
    BY <2>1, <2>2, OnceMore
  <2> QED
    BY <1>1, <2>1, <2>3
<1>4. 0 .. n \subseteq In
  <2> HIDE DEF In
  <2> QED
    BY <1>2, <1>3, UpTo
<1>5. n \in 0 .. n
  OBVIOUS
<1> QED
  BY <1>1, <1>4, <1>5

LEMMA EveryIndexIsOnce ==
  ASSUME NEW n \in Nat, NEW next, Permutes(next, n), NEW d \in 1 .. n
  PROVE  LET cycles == Cycles(next, n)
         IN \E k \in DOMAIN cycles : \E j \in DOMAIN cycles[k] :
              /\ cycles[k][j] = d
              /\ \A l \in DOMAIN cycles : \A i \in DOMAIN cycles[l] :
                   cycles[l][i] = d => l = k /\ i = j
<1> DEFINE cycles == Cycles(next, n)
<1>1. FoundOnce(cycles, next, n)
  BY CyclesAreOnce
<1> HIDE DEF cycles
<1>2. PICK c \in 1 .. n :
        /\ Leads(next, c) /\ d \in Orbit(next, c)
        /\ \A b \in 1 .. n : Leads(next, b) /\ d \in Orbit(next, b) => b = c
  BY OneLeader
<1>3. PICK k \in DOMAIN cycles : cycles[k] = Cycle(next, c)
  BY <1>1, <1>2 DEF FoundOnce
<1>4. \A b \in 1 .. n : /\ DOMAIN Cycle(next, b) = 1 .. Len(Cycle(next, b))
                        /\ \A i \in DOMAIN Cycle(next, b) : Cycle(next, b)[i] \in Orbit(next, b)
  <2> SUFFICES ASSUME NEW b \in 1 .. n
               PROVE  /\ DOMAIN Cycle(next, b) = 1 .. Len(Cycle(next, b))
                      /\ \A i \in DOMAIN Cycle(next, b) :
                           Cycle(next, b)[i] \in Orbit(next, b)
    OBVIOUS
  <2>1. Cycle(next, b) \in Seq(1 .. n)
    BY ChainsClose DEF ReturnsTo
  <2>2. DOMAIN Cycle(next, b) = 1 .. Len(Cycle(next, b))
    <3> PICK cycle : cycle = Cycle(next, b)
      OBVIOUS
    <3> QED
      BY <2>1, LenProperties
  <2> QED
    BY <2>2 DEF Orbit
<1>5. PICK j \in DOMAIN Cycle(next, c) : Cycle(next, c)[j] = d
  BY <1>2, <1>4 DEF Orbit
<1>6. ASSUME NEW l \in DOMAIN cycles, NEW i \in DOMAIN cycles[l], cycles[l][i] = d
      PROVE  l = k /\ i = j
  <2>1. PICK b \in 1 .. n : Leads(next, b) /\ cycles[l] = Cycle(next, b)
    BY <1>1 DEF FoundOnce
  <2>2. d \in Orbit(next, b)
    BY <1>4, <1>6, <2>1
  <2>3. b = c
    BY <1>2, <2>1, <2>2
  <2>4. l = k
    BY <1>1, <1>3, <2>1, <2>3 DEF FoundOnce
  <2>5. /\ i \in 1 .. Len(Cycle(next, c)) /\ j \in 1 .. Len(Cycle(next, c))
        /\ Cycle(next, c)[i] = Cycle(next, c)[j]
    BY <1>4, <1>5, <1>6, <2>1, <2>3
  <2>6. i = j
    BY <2>5, CyclesVisitOnce
  <2> QED
    BY <2>4, <2>6
<1>7. j \in DOMAIN cycles[k] /\ cycles[k][j] = d
  BY <1>3, <1>5
<1> QED
  BY <1>6, <1>7 DEF cycles

(* Whatever ring is cut: once every chain that leaves through a boundary   *)
(* of the strip meets one that enters there, every chain is walked at      *)
(* exactly one place of exactly one piece. So the walk of                  *)
(* clip_ring_to_strip meets no chain that it has visited, none without a   *)
(* follower, and never takes more steps than there are chains: the three   *)
(* refusals inside that loop cannot happen.                                *)
THEOREM EveryChainIsInOnePiece ==
  ASSUME NEW left \in Int, NEW right \in Int, left < right,
         NEW chains \in Seq(Chain(left, right)),
         \A c \in DOMAIN chains : /\ OnBoundary(Head(chains[c]), left, right)
                                  /\ OnBoundary(Last(chains[c]), left, right),
         NEW up \in BOOLEAN, NEW down \in BOOLEAN,
         ~AmbiguousTouch(EndpointsOn(chains, left)),
         EndsMeetStarts(Paired(EndpointsOn(chains, left), up)),
         ~AmbiguousTouch(EndpointsOn(chains, right)),
         EndsMeetStarts(Paired(EndpointsOn(chains, right), down))
  PROVE  LET next == NextChain(Paired(EndpointsOn(chains, left), up)
                                 \cup Paired(EndpointsOn(chains, right), down))
             cycles == Cycles(next, Len(chains))
         IN \A c \in DOMAIN chains :
              \E k \in DOMAIN cycles : \E j \in DOMAIN cycles[k] :
                /\ cycles[k][j] = c
                /\ \A l \in DOMAIN cycles : \A i \in DOMAIN cycles[l] :
                     cycles[l][i] = c => l = k /\ i = j
<1> DEFINE next == NextChain(Paired(EndpointsOn(chains, left), up)
                               \cup Paired(EndpointsOn(chains, right), down))
<1>1. /\ next \in [DOMAIN chains -> DOMAIN chains]
      /\ \A c, d \in DOMAIN chains : next[c] = next[d] => c = d
  BY ChainsFollowEachOther
<1>2. DOMAIN chains = 1 .. Len(chains) /\ Len(chains) \in Nat
  BY LenProperties
<1> HIDE DEF next
<1>3. Permutes(next, Len(chains))
  BY <1>1, <1>2 DEF Permutes
<1>4. \A c \in 1 .. Len(chains) :
        \E k \in DOMAIN Cycles(next, Len(chains)) :
          \E j \in DOMAIN Cycles(next, Len(chains))[k] :
            /\ Cycles(next, Len(chains))[k][j] = c
            /\ \A l \in DOMAIN Cycles(next, Len(chains)) :
                 \A i \in DOMAIN Cycles(next, Len(chains))[l] :
                   Cycles(next, Len(chains))[l][i] = c => l = k /\ i = j
  BY <1>2, <1>3, EveryIndexIsOnce
<1> QED
  BY <1>2, <1>4 DEF next

LEMMA PiecesOfChainsFit ==
  ASSUME NEW ring \in PlaneRing, NEW central \in Int, NEW strip \in Int,
         NEW left \in Int, NEW right \in Int,
         left = central - HalfTurn + strip * Turn, right = left + Turn,
         NEW chains \in Seq(Chain(left, right)), NEW remaining,
         PiecesOfChains(ring, chains, left, right, StripShift(strip), remaining).error = "none"
  PROVE  PiecesOfChains(ring, chains, left, right, StripShift(strip), remaining).pieces
           \in Seq(Fitting(central))
<1> DEFINE shift == StripShift(strip)
           result == PiecesOfChains(ring, chains, left, right, shift, remaining)
           leftPairs  == Paired(EndpointsOn(chains, left), ring.side = "right")
           rightPairs == Paired(EndpointsOn(chains, right), ring.side = "left")
           next == NextChain(leftPairs \cup rightPairs)
           n == Len(chains)
           cycles == Cycles(next, n)
           joined(k) == FlattenSeq([j \in DOMAIN cycles[k] |-> chains[cycles[k][j]]])
           points == [k \in DOMAIN cycles |-> joined(k)]
           pieces == [k \in DOMAIN points |-> Piece(points[k], shift, ring.side)]
<1>1. /\ \A c \in DOMAIN chains : /\ OnBoundary(Head(chains[c]), left, right)
                                  /\ OnBoundary(Last(chains[c]), left, right)
      /\ ~AmbiguousTouch(EndpointsOn(chains, left)) /\ EndsMeetStarts(leftPairs)
      /\ ~AmbiguousTouch(EndpointsOn(chains, right)) /\ EndsMeetStarts(rightPairs)
      /\ result.pieces = pieces
  <2> HIDE DEF next
  <2> QED
    BY DEF PiecesOfChains, NoPieces, next
<1>2. n \in Nat /\ DOMAIN chains = 1 .. n /\ left < right
  BY Globe
<1>3. /\ next \in [1 .. n -> 1 .. n]
      /\ \A c, d \in 1 .. n : next[c] = next[d] => c = d
  <2>1. \E up \in BOOLEAN : leftPairs = Paired(EndpointsOn(chains, left), up)
    <3>1. (ring.side = "right") \in BOOLEAN
      OBVIOUS
    <3> WITNESS (ring.side = "right") \in BOOLEAN
    <3> QED
      OBVIOUS
  <2>2. \E down \in BOOLEAN : rightPairs = Paired(EndpointsOn(chains, right), down)
    <3>1. (ring.side = "left") \in BOOLEAN
      OBVIOUS
    <3> WITNESS (ring.side = "left") \in BOOLEAN
    <3> QED
      OBVIOUS
  <2> HIDE DEF leftPairs, rightPairs
  <2> PICK up \in BOOLEAN : leftPairs = Paired(EndpointsOn(chains, left), up)
    BY <2>1
  <2> PICK down \in BOOLEAN : rightPairs = Paired(EndpointsOn(chains, right), down)
    BY <2>2
  <2>3. /\ \A c \in DOMAIN chains : /\ OnBoundary(Head(chains[c]), left, right)
                                    /\ OnBoundary(Last(chains[c]), left, right)
        /\ ~AmbiguousTouch(EndpointsOn(chains, left))
        /\ EndsMeetStarts(Paired(EndpointsOn(chains, left), up))
        /\ ~AmbiguousTouch(EndpointsOn(chains, right))
        /\ EndsMeetStarts(Paired(EndpointsOn(chains, right), down))
        /\ left < right
    BY <1>1, <1>2
  <2> PICK follower : follower = NextChain(Paired(EndpointsOn(chains, left), up)
                                            \cup Paired(EndpointsOn(chains, right), down))
    OBVIOUS
  <2>4. /\ follower \in [DOMAIN chains -> DOMAIN chains]
        /\ \A c, d \in DOMAIN chains : follower[c] = follower[d] => c = d
    BY <2>3, ChainsFollowEachOther
  <2>5. /\ next \in [DOMAIN chains -> DOMAIN chains]
        /\ \A c, d \in DOMAIN chains : next[c] = next[d] => c = d
    <3>1. next = follower
      OBVIOUS
    <3> HIDE DEF next
    <3> QED
      BY <2>4, <3>1
  <2> HIDE DEF next, n
  <2> QED
    BY <1>2, <2>5
<1> HIDE DEF next, n
<1>4. cycles \in Seq(Seq(1 .. n) \ {<<>>})
  BY <1>2, <1>3, CyclesAreFound DEF Permutes
<1> HIDE DEF cycles
<1>5. ASSUME NEW k \in DOMAIN cycles
      PROVE  joined(k) \in Chain(left, right)
  <2> PICK cycle \in Seq(1 .. n) \ {<<>>} : cycle = cycles[k]
    BY <1>4
  <2> DEFINE some == [j \in DOMAIN cycle |-> chains[cycle[j]]]
  <2>1. cycle \in Seq(1 .. n) /\ cycle # <<>>
    OBVIOUS
  <2>2. DOMAIN cycle = 1 .. Len(cycle) /\ Len(cycle) \in Nat \ {0}
    BY <2>1, EmptySeq, LenProperties
  <2>3. \A j \in 1 .. Len(cycle) : cycle[j] \in 1 .. n
    BY <2>1, ElementOfSeq
  <2>4. \A c \in 1 .. n : chains[c] \in Chain(left, right)
    BY <1>2, ElementOfSeq DEF n
  <2>5. some \in Seq(Chain(left, right)) /\ some # <<>>
    <3> DEFINE at(j) == chains[cycle[j]]
    <3>1. \A j \in 1 .. Len(cycle) : at(j) \in Chain(left, right)
      BY <2>3, <2>4
    <3>2. some = [j \in 1 .. Len(cycle) |-> at(j)]
      BY <2>2
    <3> HIDE DEF at, some
    <3>3. some \in Seq(Chain(left, right)) /\ Len(some) = Len(cycle)
      BY <2>2, <3>1, <3>2
    <3> QED
      BY <2>2, <3>3, EmptySeq
  <2>6. joined(k) = FlattenSeq(some)
    OBVIOUS
  <2> HIDE DEF some
  <2> QED
    BY <2>5, <2>6, JoinedChains
<1>6. ring.side \in {"left", "right", "unspecified"}
  BY DEF PlaneRing
<1> HIDE DEF joined
<1>7. ASSUME NEW k \in DOMAIN cycles
      PROVE  Piece(points[k], shift, ring.side) \in Fitting(central)
  BY <1>5, <1>6, PiecesAreFitting
<1>8. DOMAIN cycles = 1 .. Len(cycles) /\ Len(cycles) \in Nat
  BY <1>4, LenProperties
<1>9. pieces \in Seq(Fitting(central))
  <2> DEFINE at(k) == Piece(points[k], shift, ring.side)
  <2>1. pieces = [k \in 1 .. Len(cycles) |-> at(k)]
    BY <1>8
  <2>2. \A k \in 1 .. Len(cycles) : at(k) \in Fitting(central)
    BY <1>7, <1>8
  <2> HIDE DEF at, pieces
  <2> QED
    BY <1>8, <2>1, <2>2
<1> QED
  BY <1>1, <1>9

LEMMA StripsFit ==
  ASSUME NEW ring \in PlaneRing, NEW central \in Int, NEW strip \in Int, NEW remaining,
         ClippedToStrip(ring, central, strip, remaining).error = "none"
  PROVE  ClippedToStrip(ring, central, strip, remaining).pieces \in Seq(Fitting(central))
<1> DEFINE left == central - HalfTurn + strip * Turn
           right == left + Turn
           chains == ChainsInStrip(ring, left, right)
           closed == /\ Len(chains) = 1
                     /\ Len(chains[1]) >= 4
                     /\ Head(chains[1]) = Last(chains[1])
           result == ClippedToStrip(ring, central, strip, remaining)
<1>1. left \in Int /\ right \in Int /\ left < right
  BY Globe
<1>2. chains \in Seq(Chain(left, right))
  <2> HIDE DEF left, right
  <2> QED
    BY <1>1, ChainsAreInStrip
<1>3. ring.side \in {"left", "right", "unspecified"}
  BY DEF PlaneRing
<1>4. CASE chains = <<>>
  <2>1. result.pieces = <<>>
    BY <1>4 DEF ClippedToStrip, NoPieces
  <2> QED
    BY <2>1, EmptySeq
<1>5. CASE chains # <<>> /\ closed
  <2> DEFINE ends == Front(chains[1])
             piece == Piece(ends, StripShift(strip), ring.side)
  <2>1. result.pieces = <<piece>>
    BY <1>5 DEF ClippedToStrip
  <2>2. ends \in Chain(left, right)
    <3> PICK chain : chain = chains[1]
      OBVIOUS
    <3> HIDE DEF left, right, chains
    <3>1. chain \in Chain(left, right) /\ Len(chain) >= 4
      <4>1. 1 \in 1 .. Len(chains)
        BY <1>5
      <4> QED
        BY <1>2, <1>5, <4>1, ElementOfSeq
    <3>2. chain \in Seq(StripPoint(left, right)) /\ Len(chain) - 1 \in Int
      BY <3>1 DEF Chain
    <3>3. \A i \in 1 .. Len(chain) - 1 : chain[i] \in StripPoint(left, right)
      BY <3>1, <3>2, ElementOfSeq
    <3>4. /\ SubSeq(chain, 1, Len(chain) - 1) \in Seq(StripPoint(left, right))
          /\ Len(SubSeq(chain, 1, Len(chain) - 1)) = IF 1 <= Len(chain) - 1
               THEN Len(chain) - 1 - 1 + 1 ELSE 0
      BY <3>2, <3>3, SubSeqProperties
    <3>5. Len(SubSeq(chain, 1, Len(chain) - 1)) # 0
      <4>1. Len(chain) \in Nat /\ 1 <= Len(chain) - 1
        BY <3>1, <3>2
      <4>2. Len(SubSeq(chain, 1, Len(chain) - 1)) = Len(chain) - 1 - 1 + 1
        BY <3>4, <4>1
      <4>3. \A m \in Nat : 1 <= m - 1 => m - 1 - 1 + 1 # 0
        OBVIOUS
      <4>4. Len(chain) - 1 - 1 + 1 # 0
        BY <4>1, <4>3
      <4> QED
        BY <4>2, <4>4
    <3>6. ends = SubSeq(chain, 1, Len(chain) - 1)
      BY DEF Front
    <3> QED
      BY <3>4, <3>5, <3>6, EmptySeq DEF Chain
  <2> HIDE DEF ends
  <2>3. piece \in Fitting(central)
    BY <1>1, <1>3, <2>2, PiecesAreFitting
  <2> HIDE DEF piece
  <2> QED
    BY <2>1, <2>3
<1>6. CASE chains # <<>> /\ ~closed
  <2>1. result = PiecesOfChains(ring, chains, left, right, StripShift(strip), remaining)
    BY <1>6 DEF ClippedToStrip
  <2>2. left = central - HalfTurn + strip * Turn /\ right = left + Turn
    OBVIOUS
  <2>3. PiecesOfChains(ring, chains, left, right, StripShift(strip), remaining).error = "none"
    BY <2>1
  <2> HIDE DEF left, right, chains
  <2>4. PiecesOfChains(ring, chains, left, right, StripShift(strip), remaining).pieces
          \in Seq(Fitting(central))
    BY <1>1, <1>2, <2>2, <2>3, PiecesOfChainsFit
  <2> QED
    BY <2>1, <2>4
<1> QED
  BY <1>4, <1>5, <1>6

-----------------------------------------------------------------------------
(* The strips of a ring.                                                   *)
LEMMA LeastValue ==
  ASSUME NEW n \in Nat \ {0}, NEW f \in [1 .. n -> Int]
  PROVE  \E i \in 1 .. n : \A j \in 1 .. n : f[i] <= f[j]
<1> DEFINE T == {k \in 1 .. n : \E i \in 1 .. k : \A j \in 1 .. k : f[i] <= f[j]}
<1>1. 1 \in T
  OBVIOUS
<1>2. ASSUME NEW k \in 1 + 1 .. n, k - 1 \in T PROVE k \in T
  <2>1. PICK i \in 1 .. k - 1 : \A j \in 1 .. k - 1 : f[i] <= f[j]
    BY <1>2
  <2>2. f[i] \in Int /\ f[k] \in Int /\ i \in 1 .. k /\ k \in 1 .. k /\ k \in 1 .. n
    OBVIOUS
  <2>3. CASE f[i] <= f[k]
    <3>1. ASSUME NEW j \in 1 .. k PROVE f[i] <= f[j]
      BY <2>1, <2>3
    <3> QED
      BY <2>2, <3>1
  <2>4. CASE f[k] < f[i]
    <3>1. ASSUME NEW j \in 1 .. k PROVE f[k] <= f[j]
      <4>1. CASE j = k
        BY <2>2, <4>1
      <4>2. CASE j # k
        <5>1. j \in 1 .. k - 1 /\ j \in 1 .. n
          BY <4>2
        <5>2. f[i] <= f[j] /\ f[j] \in Int
          BY <2>1, <5>1
        <5> QED
          BY <2>2, <2>4, <5>2
      <4> QED
        BY <4>1, <4>2
    <3> QED
      BY <2>2, <3>1
  <2> QED
    BY <2>2, <2>3, <2>4
<1>3. 1 .. n \subseteq T
  <2>1. 1 \in Nat /\ n \in Nat
    OBVIOUS
  <2> HIDE DEF T
  <2> QED
    BY <1>1, <1>2, <2>1, UpTo
<1>4. n \in T
  <2>1. n \in 1 .. n
    OBVIOUS
  <2> QED
    BY <1>3, <2>1
<1> QED
  BY <1>4

LEMMA LongitudesHaveExtremes ==
  ASSUME NEW ring \in PlaneRing
  PROVE  /\ Min(Longitudes(ring)) \in Int /\ Max(Longitudes(ring)) \in Int
         /\ Min(Longitudes(ring)) <= Max(Longitudes(ring))
<1> PICK v \in Seq(GeoPoint) \ {<<>>} : v = ring.vertices
  BY DEF PlaneRing
<1> DEFINE n == Len(v) + 1
           f == [i \in 1 .. n |-> IF i <= Len(v) THEN v[i].lon ELSE ring.closing]
           g == [i \in 1 .. n |-> -f[i]]
           L == Longitudes(ring)
<1>1. DOMAIN v = 1 .. Len(v) /\ Len(v) \in Nat /\ n \in Nat \ {0} /\ ring.closing \in Int
  BY DEF PlaneRing
<1>2. ASSUME NEW i \in 1 .. n PROVE f[i] \in Int
  <2>1. i <= Len(v) => v[i].lon \in Int
    <3>1. i <= Len(v) => i \in 1 .. Len(v)
      BY <1>1
    <3>2. \A j \in 1 .. Len(v) : v[j] \in GeoPoint
      BY ElementOfSeq
    <3> QED
      BY <3>1, <3>2 DEF GeoPoint
  <2> QED
    BY <1>1, <2>1
<1>3. L = {f[i] : i \in 1 .. n}
  <2>1. ASSUME NEW lon \in L PROVE lon \in {f[i] : i \in 1 .. n}
    <3>1. CASE lon = ring.closing
      <4>1. n \in 1 .. n /\ ~(n <= Len(v))
        BY <1>1
      <4> QED
        BY <3>1, <4>1
    <3>2. CASE lon # ring.closing
      <4>1. PICK i \in 1 .. Len(v) : lon = v[i].lon
        BY <1>1, <3>2 DEF Longitudes
      <4>2. i \in 1 .. n /\ i <= Len(v)
        BY <1>1
      <4> QED
        BY <4>1, <4>2
    <3> QED
      BY <3>1, <3>2
  <2>2. ASSUME NEW i \in 1 .. n PROVE f[i] \in L
    <3>1. CASE i <= Len(v)
      <4>1. i \in DOMAIN ring.vertices /\ f[i] = ring.vertices[i].lon
        BY <1>1, <3>1
      <4> HIDE DEF f
      <4> QED
        BY <4>1 DEF Longitudes
    <3>2. CASE ~(i <= Len(v))
      BY <3>2 DEF Longitudes
    <3> QED
      BY <3>1, <3>2
  <2> HIDE DEF f, L
  <2> QED
    BY <2>1, <2>2
<1>4. f \in [1 .. n -> Int] /\ g \in [1 .. n -> Int]
  <2> HIDE DEF n
  <2>1. f \in [1 .. n -> Int]
    BY <1>2
  <2> HIDE DEF f
  <2>2. g \in [1 .. n -> Int]
    BY <2>1
  <2> QED
    BY <2>1, <2>2
<1> HIDE DEF f, L, n
<1>5. PICK i \in 1 .. n : \A j \in 1 .. n : f[i] <= f[j]
  BY <1>1, <1>4, LeastValue
<1>6. PICK k \in 1 .. n : \A j \in 1 .. n : g[k] <= g[j]
  <2> HIDE DEF g
  <2> QED
    BY <1>1, <1>4, LeastValue
<1>7. \A j \in 1 .. n : f[k] >= f[j]
  BY <1>2, <1>6
<1>8. Min(L) \in L /\ \A y \in L : Min(L) <= y
  BY <1>3, <1>5 DEF Min
<1>9. Max(L) \in L /\ \A y \in L : Max(L) >= y
  BY <1>3, <1>7 DEF Max
<1> QED
  BY <1>2, <1>3, <1>8, <1>9 DEF L

LEMMA QuotientsAreMonotone ==
  ASSUME NEW x \in Int, NEW y \in Int, x <= y, NEW t \in Nat \ {0}
  PROVE  x \div t \in Int /\ y \div t \in Int /\ x \div t <= y \div t
<1>1. PICK q \in Int, r \in 0 .. t - 1 : q = x \div t /\ x = q * t + r
  BY Division
<1>2. PICK p \in Int, s \in 0 .. t - 1 : p = y \div t /\ y = p * t + s
  BY Division
<1>3. q <= p
  <2> SUFFICES ASSUME p < q PROVE FALSE
    BY <1>1, <1>2
  <2> PICK d \in Nat : d = q - p - 1
    OBVIOUS
  <2>1. q = p + (d + 1)
    OBVIOUS
  <2>2. q * t = p * t + (d + 1) * t /\ (d + 1) * t = d * t + 1 * t
    BY <2>1, Distributes
  <2>3. d * t \in Nat /\ p * t \in Int /\ 1 * t = t
    OBVIOUS
  <2> QED
    BY <1>1, <1>2, <2>2, <2>3
<1> QED
  BY <1>1, <1>2, <1>3

LEMMA StripsAreCounted ==
  ASSUME NEW ring \in PlaneRing, NEW central \in Int
  PROVE  FirstStrip(ring, central) \in Int /\ StripCount(ring, central) \in Nat
<1> DEFINE base == central - HalfTurn
           west == Min(Longitudes(ring))
           east == Max(Longitudes(ring))
<1>1. west \in Int /\ east \in Int /\ west <= east /\ base \in Int
  BY LongitudesHaveExtremes, Globe
<1>2. /\ FirstStrip(ring, central) = (west - base) \div Turn - 1
      /\ StripCount(ring, central) = (east - base) \div Turn + 2 - FirstStrip(ring, central)
  BY DEF FirstStrip, StripCount, StripOf
<1> HIDE DEF west, east, base
<1>3. west - base \in Int /\ east - base \in Int /\ west - base <= east - base
  BY <1>1
<1>4. /\ (west - base) \div Turn \in Int /\ (east - base) \div Turn \in Int
      /\ (west - base) \div Turn <= (east - base) \div Turn
  BY <1>3, Globe, QuotientsAreMonotone
<1> QED
  BY <1>2, <1>4

(* What the strips so far have given: an error, or pieces in the domain of *)
(* the projection, within the limit.                                       *)
Kept(result, central, limit) ==
  result.error = "none" =>
    /\ "error" \in DOMAIN result
    /\ result.pieces \in Seq(Fitting(central)) /\ Len(result.pieces) <= limit

LEMMA StripsAreKept ==
  ASSUME NEW ring \in PlaneRing, NEW central \in Int, NEW strip \in Int,
         NEW limit \in Nat, NEW sofar, Kept(sofar, central, limit)
  PROVE  Kept(AndStrip(ring, central, limit, sofar, strip), central, limit)
<1> DEFINE clipped == ClippedToStrip(ring, central, strip, limit - Len(sofar.pieces))
           result == AndStrip(ring, central, limit, sofar, strip)
<1>1. CASE sofar.error # "none"
  BY <1>1 DEF AndStrip
<1>2. CASE sofar.error = "none"
  <2>1. result = WithStrip(limit, sofar, clipped)
    BY <1>2 DEF AndStrip
  <2> SUFFICES ASSUME result.error = "none"
               PROVE  /\ "error" \in DOMAIN result
                      /\ result.pieces \in Seq(Fitting(central)) /\ Len(result.pieces) <= limit
    BY DEF Kept
  <2>2. /\ clipped.error = "none"
        /\ Len(sofar.pieces) + Len(clipped.pieces) <= limit
        /\ result.pieces = sofar.pieces \o clipped.pieces
        /\ "error" \in DOMAIN result
    <3> HIDE DEF clipped, result
    <3>1. clipped.error = "none"
      BY <2>1 DEF WithStrip
    <3>2. ~(Len(sofar.pieces) + Len(clipped.pieces) > limit)
      BY <2>1, <3>1 DEF WithStrip, NoPieces
    <3>3. result.pieces = sofar.pieces \o clipped.pieces /\ "error" \in DOMAIN result
      BY <2>1, <3>1, <3>2 DEF WithStrip
    <3>4. sofar.pieces \in Seq(Fitting(central))
      BY <1>2 DEF Kept
    <3>5. clipped.pieces \in Seq(Fitting(central))
      BY <3>1, StripsFit DEF clipped
    <3>6. Len(sofar.pieces) \in Nat /\ Len(clipped.pieces) \in Nat
      BY <3>4, <3>5, LenProperties
    <3>7. Len(sofar.pieces) + Len(clipped.pieces) <= limit
      <4>1. \A m, n \in Nat : ~(m + n > limit) => m + n <= limit
        OBVIOUS
      <4> QED
        BY <3>2, <3>6, <4>1
    <3> QED
      BY <3>1, <3>3, <3>7
  <2>3. clipped.pieces \in Seq(Fitting(central))
    BY <2>2, StripsFit
  <2>4. sofar.pieces \in Seq(Fitting(central))
    BY <1>2 DEF Kept
  <2> HIDE DEF clipped, result
  <2>5. /\ sofar.pieces \o clipped.pieces \in Seq(Fitting(central))
        /\ Len(sofar.pieces \o clipped.pieces) = Len(sofar.pieces) + Len(clipped.pieces)
    BY <2>3, <2>4, ConcatProperties
  <2> QED
    BY <2>2, <2>5
<1> QED
  BY <1>1, <1>2

LEMMA AllStripsAreKept ==
  ASSUME NEW ring \in PlaneRing, NEW central \in Int, NEW limit \in Nat
  PROVE  Kept(ClippedToStrips(ring, central, limit), central, limit)
<1> DEFINE n == StripCount(ring, central)
           first == FirstStrip(ring, central)
           with(r, k) == AndStrip(ring, central, limit, r, first + k - 1)
           Rule(f, k) == IF k = 0 THEN NoPieces("none") ELSE with(f[k - 1], k)
           sofar == CHOOSE f : f = [k \in 0 .. n |-> Rule(f, k)]
           Known == {k \in 0 .. n : \E f : f = [i \in 0 .. k |-> Rule(f, i)]}
<1>1. n \in Nat /\ 0 \in Nat /\ 0 \in 0 .. n /\ n \in 0 .. n /\ first \in Int
  BY StripsAreCounted
<1>2. ClippedToStrips(ring, central, limit) = sofar[n]
  BY DEF ClippedToStrips
<1> HIDE DEF n, first
<1>3. 0 \in Known
  <2> DEFINE f == [i \in 0 .. 0 |-> NoPieces("none")]
  <2>1. \A i \in 0 .. 0 : i = 0
    OBVIOUS
  <2>2. f = [i \in 0 .. 0 |-> Rule(f, i)]
    BY <2>1
  <2> HIDE DEF f, Rule
  <2> QED
    BY <1>1, <2>2
<1>4. ASSUME NEW k \in 0 + 1 .. n, k - 1 \in Known PROVE k \in Known
  <2>0. k \in 0 .. n /\ k - 1 \in 0 .. k - 1 /\ k # 0 /\ 0 .. k - 1 \subseteq 0 .. k
    BY <1>1
  <2>1. PICK f : f = [i \in 0 .. k - 1 |-> Rule(f, i)]
    BY <1>4
  <2>2. \A i \in 0 .. k - 1 : f[i] = Rule(f, i)
    <3> HIDE DEF Rule
    <3> QED
      BY <2>1
  <2> DEFINE g == [i \in 0 .. k |-> IF i = k THEN with(f[k - 1], k) ELSE f[i]]
  <2> HIDE DEF with
  <2>3. \A i \in 0 .. k - 1 : g[i] = f[i]
    BY <2>0
  <2>4. g[k] = with(f[k - 1], k)
    BY <1>1
  <2>5. ASSUME NEW i \in 0 .. k PROVE g[i] = Rule(g, i)
    <3>1. CASE i = k
      <4>1. g[k - 1] = f[k - 1]
        BY <2>0, <2>3
      <4> HIDE DEF g
      <4> QED
        BY <2>0, <2>4, <3>1, <4>1
    <3>2. CASE i # k
      <4>1. i \in 0 .. k - 1 /\ (i # 0 => i - 1 \in 0 .. k - 1)
        BY <3>2, <2>0
      <4> HIDE DEF g
      <4> QED
        BY <2>2, <2>3, <4>1
    <3> QED
      BY <3>1, <3>2
  <2>6. g = [i \in 0 .. k |-> g[i]]
    OBVIOUS
  <2> HIDE DEF g, Rule
  <2>7. g = [i \in 0 .. k |-> Rule(g, i)]
    BY <2>5, <2>6
  <2> QED
    BY <2>0, <2>7
<1>5. n \in Known
  <2>1. 0 .. n \subseteq Known
    <3> HIDE DEF Known
    <3> QED
      BY <1>1, <1>3, <1>4, UpTo
  <2> HIDE DEF Known
  <2> QED
    BY <1>1, <2>1
<1>6. sofar = [k \in 0 .. n |-> Rule(sofar, k)]
  <2>1. \E f : f = [k \in 0 .. n |-> Rule(f, k)]
    BY <1>5
  <2> HIDE DEF Rule
  <2> QED
    BY <2>1
<1> HIDE DEF sofar
<1>7. \A k \in 0 .. n : sofar[k] = Rule(sofar, k)
  <2> HIDE DEF Rule
  <2> QED
    BY <1>6
<1>8. sofar[0] = NoPieces("none") /\ \A k \in 1 .. n : sofar[k] = with(sofar[k - 1], k)
  <2>1. \A k \in 1 .. n : k \in 0 .. n /\ k # 0
    BY <1>1
  <2> HIDE DEF with
  <2> QED
    BY <1>1, <1>7, <2>1
<1>9. Kept(sofar[n], central, limit)
  <2> DEFINE In == {k \in 0 .. n : Kept(sofar[k], central, limit)}
  <2>1. 0 \in In
    <3>1. <<>> \in Seq(Fitting(central)) /\ Len(<<>>) <= limit
      BY EmptySeq
    <3>2. Kept(sofar[0], central, limit)
      BY <1>8, <3>1 DEF Kept, NoPieces
    <3> QED
      BY <1>1, <3>2
  <2>2. ASSUME NEW k \in 0 + 1 .. n, k - 1 \in In PROVE k \in In
    <3>1. k \in 0 .. n /\ k \in 1 .. n /\ first + k - 1 \in Int
      BY <1>1
    <3>2. Kept(sofar[k - 1], central, limit)
      BY <2>2
    <3>3. Kept(with(sofar[k - 1], k), central, limit)
      BY <3>1, <3>2, StripsAreKept
    <3> HIDE DEF with
    <3> QED
      BY <1>8, <3>1, <3>3
  <2>3. 0 .. n \subseteq In
    <3> HIDE DEF In
    <3> QED
      BY <1>1, <2>1, <2>2, UpTo
  <2> QED
    BY <1>1, <2>3
<1> QED
  BY <1>2, <1>9

(* Whatever of a split is reported to succeed fits the projection.         *)
LEMMA SplitsAreKept ==
  ASSUME NEW ring \in PlaneRing, NEW central \in Int, NEW limit \in Nat \ {0}
  PROVE  Kept(Split(ring, central, limit), central, limit)
<1>1. ASSUME NEW r, Kept(r, central, limit), r.error = "none"
      PROVE  Kept(WithSameArea(ring, r), central, limit)
  <2>1. CASE AreaOfPieces(r.pieces) = RingArea(ring)
    BY <1>1, <2>1 DEF WithSameArea
  <2>2. CASE AreaOfPieces(r.pieces) # RingArea(ring)
    <3>1. WithSameArea(ring, r).error = "area_invariant_failed"
      BY <1>1, <2>2 DEF WithSameArea, Kept
    <3> QED
      BY <3>1 DEF Kept
  <2> QED
    BY <2>1, <2>2
<1>2. ASSUME NEW r, Kept(r, central, limit)
      PROVE  Kept(Verified(ring, r), central, limit)
  <2>1. CASE r.error = "none" /\ r.pieces # <<>> /\ ~(r.crossings % 2 # 0)
    BY <1>1, <1>2, <2>1 DEF Verified
  <2>2. CASE ~(r.error = "none" /\ r.pieces # <<>> /\ ~(r.crossings % 2 # 0))
    <3>1. Verified(ring, r).error # "none"
      BY <2>2 DEF Verified, NoPieces
    <3> QED
      BY <3>1 DEF Kept
  <2> QED
    BY <2>1, <2>2
<1> DEFINE shift == WholeRingShift(ring, central)
           whole == [error |-> "none", crossings |-> 0, pieces |-> <<Shifted(ring, shift)>>]
<1>3. CASE FitsOneBranch(ring, central)
  <2>1. shift \in Int
    <3> DEFINE d == 2 * central - (Min(Longitudes(ring)) + Max(Longitudes(ring)))
    <3>1. d \in Int /\ 2 * Turn \in Nat \ {0}
      BY LongitudesHaveExtremes, Globe
    <3>2. shift = Rounded(d, 2 * Turn) * Turn
      BY DEF WholeRingShift
    <3> HIDE DEF d
    <3> PICK t \in Nat \ {0} : t = 2 * Turn
      BY <3>1
    <3>3. 2 * Abs(d) + t \in Int /\ 2 * t \in Nat \ {0}
      BY <3>1 DEF Abs
    <3>4. (2 * Abs(d) + t) \div (2 * t) \in Int
      BY <3>3, Division
    <3>5. Rounded(d, 2 * Turn) \in Int
      BY <3>4 DEF Rounded
    <3> HIDE DEF shift
    <3> QED
      BY <3>2, <3>5, Globe
  <2>2. /\ Shifted(ring, shift) \in PlaneRing
        /\ Longitudes(Shifted(ring, shift)) = {lon + shift : lon \in Longitudes(ring)}
    BY <2>1, ShiftedRings
  <2>3. Shifted(ring, shift) \in Fitting(central)
    BY <1>3, <2>2 DEF Fitting, FitsOneBranch
  <2>4. <<Shifted(ring, shift)>> \in Seq(Fitting(central)) /\ Len(<<Shifted(ring, shift)>>) = 1
    BY <2>3
  <2>5. Kept(whole, central, limit)
    BY <2>4 DEF Kept
  <2>6. Split(ring, central, limit) =
          IF ring.winding # 0 THEN NoPieces("nonzero_winding_unsupported")
          ELSE WithSameArea(ring, whole)
    BY <1>3 DEF Split
  <2>7. CASE ring.winding # 0
    BY <2>6, <2>7 DEF Kept, NoPieces
  <2>8. CASE ring.winding = 0
    <3>1. whole.error = "none"
      OBVIOUS
    <3> HIDE DEF whole
    <3> QED
      BY <1>1, <2>5, <2>6, <2>8, <3>1
  <2> QED
    BY <2>7, <2>8
<1>4. CASE ~FitsOneBranch(ring, central)
  <2>1. \/ Split(ring, central, limit).error # "none"
        \/ Split(ring, central, limit) = Verified(ring, ClippedToStrips(ring, central, limit))
    BY <1>4 DEF Split, NoPieces
  <2>2. Kept(ClippedToStrips(ring, central, limit), central, limit)
    BY AllStripsAreKept
  <2>3. Kept(Verified(ring, ClippedToStrips(ring, central, limit)), central, limit)
    BY <1>2, <2>2
  <2> QED
    BY <2>1, <2>3 DEF Kept
<1> QED
  BY <1>3, <1>4

(* A ring that winds round a pole is closed along it before it is split.   *)
LEMMA ClosuresAreRings ==
  ASSUME NEW ring \in PlaneRing
  PROVE  PolarClosure(ring) \in PlaneRing
<1> PICK v \in Seq(GeoPoint) \ {<<>>} : v = ring.vertices
  BY DEF PlaneRing
<1> DEFINE close == Point(ring.closing, v[1].lat)
           coast == IF Last(v) = close THEN v ELSE Append(v, close)
           tail == <<Point(ring.closing, PoleOf(ring)), Point(v[1].lon, PoleOf(ring))>>
<1>1. /\ ring.closing \in Int /\ ring.side \in {"left", "right", "unspecified"}
      /\ v \in Seq(GeoPoint) /\ v # <<>>
  BY DEF PlaneRing
<1>2. v[1] \in GeoPoint
  <2>1. 1 \in 1 .. Len(v)
    BY <1>1, EmptySeq
  <2> QED
    BY <1>1, <2>1, ElementOfSeq
<1>3. PoleOf(ring) \in Int
  BY Globe DEF PoleOf
<1>4. close \in GeoPoint /\ tail \in Seq(GeoPoint)
  <2>1. /\ Point(ring.closing, v[1].lat) \in GeoPoint
        /\ Point(ring.closing, PoleOf(ring)) \in GeoPoint
        /\ Point(v[1].lon, PoleOf(ring)) \in GeoPoint
    BY <1>1, <1>2, <1>3 DEF Point, GeoPoint
  <2> QED
    BY <2>1
<1>5. coast \in Seq(GeoPoint) /\ coast # <<>>
  <2> HIDE DEF close
  <2>1. Append(v, close) \in Seq(GeoPoint) /\ Append(v, close) # <<>>
    BY <1>1, <1>4
  <2> QED
    BY <1>1, <2>1
<1>6. PolarClosure(ring) = LinearRing(coast \o tail, v[1].lon, 0, ring.side)
  BY DEF PolarClosure
<1> HIDE DEF coast, tail
<1>7. coast \o tail \in Seq(GeoPoint) \ {<<>>}
  BY <1>4, <1>5, ConcatProperties, ConcatEqualIffEmpty
<1> QED
  BY <1>1, <1>2, <1>6, <1>7 DEF PlaneRing, LinearRing, GeoPoint

LEMMA ProjectionsFit ==
  ASSUME NEW ring \in PlaneRing, NEW central \in Int, NEW limit \in Nat \ {0}
  PROVE  Kept(SplitForProjection(ring, central, limit), central, limit)
<1> DEFINE closed == IF ring.winding = 0 THEN ring ELSE PolarClosure(ring)
           result == Split(closed, central, limit)
<1>1. closed \in PlaneRing
  BY ClosuresAreRings
<1>2. Kept(result, central, limit)
  <2> HIDE DEF closed
  <2> QED
    BY <1>1, SplitsAreKept
<1>3. \/ SplitForProjection(ring, central, limit).error # "none"
      \/ SplitForProjection(ring, central, limit) = WithinBudget(ring, closed, result)
  <2> HIDE DEF result
  <2> QED
    BY DEF SplitForProjection, NoPieces, result
<1> HIDE DEF closed, result
<1>4. \/ WithinBudget(ring, closed, result).error # "none"
      \/ WithinBudget(ring, closed, result) = result
  BY DEF WithinBudget, NoPieces
<1> QED
  BY <1>2, <1>3, <1>4 DEF Kept

LEMMA DecodedRings ==
  ASSUME NEW p \in Seq(GeoPoint), Decoded(p).error = "none"
  PROVE  Decoded(p).ring \in PlaneRing
<1> DEFINE points == BoundedPoints(p)
           canonical == Canonicalized(points)
           side == SideOf(SignedXyArea(points))
           ring == Decoded(p).ring
<1>1. canonical.error = "none" /\ ring = [canonical.ring EXCEPT !.side = side]
  BY DEF Decoded, Failed, Ok
<1>2. points \in Seq(GeoPoint)
  BY BoundedPointsAreInRange
<1> HIDE DEF points
<1>3. PICK source : source = canonical.ring
  OBVIOUS
<1>4. /\ source = LinearRing(source.vertices, source.closing, source.winding, source.side)
      /\ Closes(source)
      /\ source.winding \in Int /\ source.closing \in Int
      /\ source.vertices \in Seq(GeoPoint)
  BY <1>1, <1>2, <1>3, CanonicalRings
<1>5. source.vertices # <<>>
  BY <1>4, EmptySeq DEF Closes
<1>6. side \in {"left", "right", "unspecified"}
  BY DEF SideOf
<1>7. /\ ring.vertices = source.vertices /\ ring.closing = source.closing
      /\ ring.winding = source.winding /\ ring.side = side
      /\ ring = LinearRing(ring.vertices, ring.closing, ring.winding, ring.side)
  <2> HIDE DEF canonical, side, ring
  <2> QED
    BY <1>1, <1>3, <1>4 DEF LinearRing
<1> HIDE DEF canonical, side, ring
<1>8. ring \in PlaneRing
  BY <1>4, <1>5, <1>6, <1>7 DEF PlaneRing, LinearRing
<1> QED
  BY <1>8 DEF ring

(* The split is of the stored ring, about the meridian of the view.        *)
SplitOK ==
  /\ stored => decoded.error = "none"
  /\ \/ split = NoPieces("pending")
     \/ /\ view.central \in Central /\ view.limit \in PieceLimit
        /\ stored /\ split = SplitForProjection(decoded.ring, view.central, view.limit)

LEMMA SplitIsOfTheView == PipelineSpec => []SplitOK
<1>1. Init => SplitOK
  BY DEF Init, SplitOK
<1>2. SplitOK /\ [Next]_vars => SplitOK'
  <2> SUFFICES ASSUME SplitOK, [Next]_vars PROVE SplitOK'
    OBVIOUS
  <2>1. ASSUME NEW p \in Part, ReadPart(p) PROVE SplitOK'
    <3>1. ~stored /\ split = NoPieces("pending")
      BY <2>1 DEF ReadPart, SplitOK
    <3> QED
      BY <2>1, <3>1 DEF ReadPart, SplitOK
  <2>2. CASE Store
    BY <2>2 DEF Store, SplitOK
  <2>3. ASSUME NEW central \in Central, NEW limit \in PieceLimit, Project(central, limit)
        PROVE  SplitOK'
    BY <2>3 DEF Project, SplitOK
  <2>4. CASE NextPart
    BY <2>4 DEF NextPart, SplitOK
  <2>5. CASE UNCHANGED vars
    BY <2>5 DEF vars, SplitOK
  <2> QED
    BY <2>1, <2>2, <2>3, <2>4, <2>5 DEF Next
<1> QED
  BY <1>1, <1>2, PTL DEF PipelineSpec

(* Every split that reports success keeps to the limit on its pieces and   *)
(* to the domain of its projection, of any ring and about any meridian:    *)
(* the caller projects the pieces on one branch without looking again.     *)
THEOREM SplitsFitTheirProjection == PipelineSpec => []PiecesFit
<1>1. DecodedOK /\ SplitOK => PiecesFit
  <2> SUFFICES ASSUME DecodedOK, SplitOK, split.error = "none"
               PROVE  /\ Len(split.pieces) <= view.limit
                      /\ \A k \in DOMAIN split.pieces : \A lon \in Longitudes(split.pieces[k]) :
                           InStrip(lon, view.central - HalfTurn, view.central + HalfTurn)
    BY DEF PiecesFit
  <2>1. split # NoPieces("pending")
    BY DEF NoPieces
  <2>2. /\ view.central \in Central /\ view.limit \in PieceLimit
        /\ split = SplitForProjection(decoded.ring, view.central, view.limit)
        /\ decoded.error = "none"
    BY <2>1 DEF SplitOK
  <2>3. decoded # Failed("pending")
    BY <2>2 DEF Failed
  <2>4. PICK p \in Part : decoded = Decoded(p)
    BY <2>3 DEF DecodedOK
  <2>5. p \in Seq(GeoPoint) /\ view.central \in Int /\ view.limit \in Nat \ {0}
    BY <2>2, PipelineAssumption DEF GeoPoint
  <2>6. decoded.ring \in PlaneRing
    BY <2>2, <2>4, <2>5, DecodedRings
  <2>7. Kept(split, view.central, view.limit)
    BY <2>2, <2>5, <2>6, ProjectionsFit
  <2>8. split.pieces \in Seq(Fitting(view.central)) /\ Len(split.pieces) <= view.limit
    BY <2>7 DEF Kept
  <2>9. \A k \in DOMAIN split.pieces : split.pieces[k] \in Fitting(view.central)
    BY <2>8
  <2> QED
    BY <2>8, <2>9 DEF Fitting
<1> QED
  BY <1>1, DecodedIsKept, SplitIsOfTheView, PTL

=============================================================================
