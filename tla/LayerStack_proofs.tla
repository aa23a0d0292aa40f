-------------------------- MODULE LayerStack_proofs --------------------------
(***************************************************************************)
(* The layer stack under its two users: the mutations of a project         *)
(* (ProjectContent) and the compositions of built-in layers (WorldLayers,  *)
(* in the second half).                                                    *)
(*                                                                         *)
(* Whatever sequence of mutations a project sees, its styles inherit as a  *)
(* forest, its layers are numbered densely, no binding dangles, and every  *)
(* loader and audit accepts it, for any numbers of layers, styles, slots   *)
(* and resources and any bounds.                                           *)
(*                                                                         *)
(* The inductive invariant is what the readers check, with the forest      *)
(* stated by a rank that falls from child to parent: validate_parent_chain *)
(* walks up at most one step per style, and only with a rank does it       *)
(* follow that the walk has met every ancestor.                            *)
(***************************************************************************)
EXTENDS ProjectContent, WorldLayers, ProjectDocument_proofs, FiniteSetTheorems

-----------------------------------------------------------------------------
(* Numbers and walks.                                                      *)

(* Induction over the numbers, as the set of counterexamples has a least.  *)
LEMMA LeastNumber ==
  ASSUME NEW T, T \subseteq Nat, T # {}
  PROVE  \E m \in T : \A k \in T : m <= k
<1> DEFINE U == {1..n : n \in T}
           R == StrictSubsetOrdering(Nat)
<1>1. U # {} /\ U \subseteq FiniteSubsetsOf(Nat)
  <2>1. ASSUME NEW n \in T PROVE 1..n \in FiniteSubsetsOf(Nat)
    <3>1. n \in Int /\ 1..n \subseteq Nat
      OBVIOUS
    <3> QED
      BY <3>1, FS_Interval DEF FiniteSubsetsOf
  <2> QED
    BY <2>1
<1>2. IsWellFoundedOn(R, FiniteSubsetsOf(Nat))
  BY FS_StrictSubsetOrderingWellFounded
<1>3. PICK M \in U : \A y \in U : ~(<<y, M>> \in R)
  <2> HIDE DEF R, U
  <2> QED
    BY <1>1, <1>2, WFMin
<1>4. PICK m \in T : M = 1..m
  OBVIOUS
<1>5. ASSUME NEW k \in T, k < m
      PROVE  FALSE
  <2>1. 1..k \in U /\ 1..k \subseteq 1..m /\ 1..k # 1..m
    <3>1. m \in 1..m /\ m \notin 1..k
      BY <1>5
    <3>2. 1..k \subseteq 1..m
      BY <1>5
    <3> QED
      BY <3>1, <3>2
  <2>2. <<1..k, 1..m>> \in R
    <3>1. 1..k \in SUBSET Nat /\ 1..m \in SUBSET Nat
      OBVIOUS
    <3> QED
      BY <2>1, <3>1 DEF StrictSubsetOrdering
  <2> QED
    BY <1>3, <1>4, <2>1, <2>2
<1> QED
  BY <1>5

(* A walk of n steps from x, each to where the function up leads.          *)
IsWalk(w, up, x, n) ==
  /\ w \in [0..n -> DOMAIN up]
  /\ w[0] = x
  /\ \A i \in 1..n : w[i] = up[w[i - 1]]

LEMMA WalkExists ==
  ASSUME NEW S, NEW up \in [S -> S], NEW x \in S, NEW n \in Nat
  PROVE  \E w : IsWalk(w, up, x, n)
<1> DEFINE T == {k \in Nat : ~\E w : IsWalk(w, up, x, k)}
<1> SUFFICES T = {}
  OBVIOUS
<1> SUFFICES ASSUME T # {} PROVE FALSE
  OBVIOUS
<1>1. PICK m \in T : \A k \in T : m <= k
  <2>1. T \subseteq Nat
    OBVIOUS
  <2> HIDE DEF T
  <2> QED
    BY <2>1, LeastNumber
<1>2. CASE m = 0
  <2>1. IsWalk([i \in 0..0 |-> x], up, x, 0)
    BY DEF IsWalk
  <2> QED
    BY <1>2, <2>1
<1>3. CASE m # 0
  <2>1. m \in Nat /\ m - 1 \in Nat /\ m - 1 \notin T
    BY <1>1, <1>3
  <2>2. PICK w : IsWalk(w, up, x, m - 1)
    BY <2>1
  <2> DEFINE v == [i \in 0..m |-> IF i = m THEN up[w[m - 1]] ELSE w[i]]
  <2>3. IsWalk(v, up, x, m)
    <3>1. m - 1 \in 0..(m - 1) /\ DOMAIN up = S
      BY <2>1
    <3>2. up[w[m - 1]] \in S
      BY <2>2, <3>1 DEF IsWalk
    <3>3. v \in [0..m -> S]
      BY <2>1, <2>2, <3>1, <3>2 DEF IsWalk
    <3>4. v[0] = x
      BY <2>1, <1>3, <2>2 DEF IsWalk
    <3>5. ASSUME NEW i \in 1..m PROVE v[i] = up[v[i - 1]]
      <4>1. CASE i = m
        BY <4>1, <2>1
      <4>2. CASE i # m
        <5>1. i \in 1..(m - 1) /\ i \in 0..m /\ i - 1 \in 0..m /\ i - 1 # m
          BY <2>1, <4>2
        <5> QED
          BY <4>2, <5>1, <2>2 DEF IsWalk
      <4> QED
        BY <4>1, <4>2
    <3> HIDE DEF v
    <3> QED
      BY <3>1, <3>3, <3>4, <3>5 DEF IsWalk
  <2> QED
    BY <2>1, <2>3
<1> QED
  BY <1>2, <1>3

-----------------------------------------------------------------------------
(* The forest of styles.                                                   *)

Above == [s \in Style \cup {NoParent} |->
            IF s \in Styles THEN style[s].parent ELSE NoParent]

StylesTyped == style \in [Style -> StyleRow \cup {NoStyle}]

(* Ranks fall from a child to its parent, which is stored.                 *)
Ranks(rank) ==
  /\ rank \in [Style -> Nat]
  /\ \A s \in Styles :
       style[s].parent # NoParent =>
         /\ style[s].parent \in Styles
         /\ rank[style[s].parent] < rank[s]
Ranked == \E rank : Ranks(rank)

LEMMA AboveTyped ==
  ASSUME StylesTyped
  PROVE  Above \in [Style \cup {NoParent} -> Style \cup {NoParent}]
<1>1. ASSUME NEW s \in Styles
      PROVE  style[s].parent \in Style \cup {NoParent}
  BY DEF StylesTyped, Styles, StyleRow
<1> QED
  BY <1>1 DEF Above

LEMMA StyleCount == Cardinality(Style) \in Nat
BY ContentAssumption, FS_CardinalityType

(* The chain of validate_parent_chain is a walk.                           *)
LEMMA AncestorsAreWalked ==
  ASSUME StylesTyped, NEW parent \in Style \cup {NoParent}
  PROVE  \E w : /\ IsWalk(w, Above, parent, Cardinality(Style))
                /\ Ancestors(parent) =
                     {w[n] : n \in 0..Cardinality(Style)} \ {NoParent}
<1> DEFINE N == Cardinality(Style)
           Step(f, n) == IF n = 0 THEN parent
                         ELSE IF f[n - 1] \in Styles THEN style[f[n - 1]].parent
                         ELSE NoParent
           chain == CHOOSE f : f = [n \in 0..N |-> Step(f, n)]
<1>1. N \in Nat
  BY StyleCount
<1>2. PICK w : IsWalk(w, Above, parent, N)
  BY <1>1, AboveTyped, WalkExists
<1>3. w = [n \in 0..N |-> Step(w, n)]
  <2>1. w \in [0..N -> Style \cup {NoParent}]
    BY <1>2, AboveTyped DEF IsWalk
  <2>2. ASSUME NEW n \in 0..N
        PROVE  w[n] = Step(w, n)
    <3>1. CASE n = 0
      BY <3>1, <1>2 DEF IsWalk
    <3>2. CASE n # 0
      <4>1. n \in 1..N /\ n - 1 \in 0..N
        BY <1>1, <3>2
      <4>2. w[n] = Above[w[n - 1]] /\ w[n - 1] \in Style \cup {NoParent}
        BY <1>2, <2>1, <4>1 DEF IsWalk
      <4> QED
        BY <3>2, <4>2 DEF Above
    <3> QED
      BY <3>1, <3>2
  <2> HIDE DEF Step
  <2> QED
    BY <2>1, <2>2
<1>4. chain = [n \in 0..N |-> Step(chain, n)]
  <2> HIDE DEF Step
  <2> QED
    BY <1>3
<1>5. \A n \in 0..N : chain[n] = w[n]
  <2> DEFINE T == {n \in 0..N : chain[n] # w[n]}
  <2> SUFFICES ASSUME T # {} PROVE FALSE
    OBVIOUS
  <2>1. T \subseteq Nat
    BY <1>1
  <2>2. PICK m \in T : \A k \in T : m <= k
    <3> HIDE DEF T
    <3> QED
      BY <2>1, LeastNumber
  <2>3. m \in 0..N /\ chain[m] = Step(chain, m) /\ w[m] = Step(w, m)
    <3> HIDE DEF Step, chain
    <3> QED
      BY <1>3, <1>4
  <2>4. m # 0 => m - 1 \in 0..N /\ m - 1 \notin T
    <3> HIDE DEF Step, chain
    <3> QED
      BY <1>1, <2>2
  <2>5. m # 0 => chain[m - 1] = w[m - 1]
    <3> HIDE DEF Step, chain
    <3> QED
      BY <2>4
  <2> HIDE DEF chain
  <2>6. Step(chain, m) = Step(w, m)
    BY <2>5
  <2> QED
    BY <2>2, <2>3, <2>6
<1>6. Ancestors(parent) = {chain[n] : n \in 0..N} \ {NoParent}
  BY DEF Ancestors
<1>7. {chain[n] : n \in 0..N} = {w[n] : n \in 0..N}
  <2> HIDE DEF chain
  <2> QED
    BY <1>5
<1> HIDE DEF chain
<1> QED
  BY <1>2, <1>6, <1>7

(* Ranks fall on the way up, which ends where there is no parent.          *)
LEMMA WalkFalls ==
  ASSUME StylesTyped, NEW rank, Ranks(rank),
         NEW parent \in Styles \cup {NoParent},
         NEW n \in Nat, NEW w, IsWalk(w, Above, parent, n)
  PROVE  /\ \A i \in 0..n : w[i] \in Styles \cup {NoParent}
         /\ \A i, j \in 0..n : i < j /\ w[j] # NoParent =>
              w[i] # NoParent /\ rank[w[j]] < rank[w[i]]
<1>1. ASSUME NEW i \in 1..n, w[i] # NoParent
      PROVE  /\ w[i - 1] \in Styles /\ w[i - 1] # NoParent
             /\ w[i] \in Styles
             /\ rank[w[i]] < rank[w[i - 1]]
  <2>1. i - 1 \in 0..n
    OBVIOUS
  <2>2. w[i - 1] \in Style \cup {NoParent} /\ w[i] = Above[w[i - 1]]
    BY <2>1, AboveTyped DEF IsWalk
  <2>3. w[i - 1] \in Styles /\ w[i] = style[w[i - 1]].parent
    BY <1>1, <2>2 DEF Above
  <2> QED
    BY <1>1, <2>3, ContentAssumption DEF Ranks, Styles
<1>2. ASSUME NEW i \in 0..n
      PROVE  w[i] \in Styles \cup {NoParent}
  <2>1. CASE i = 0
    BY <2>1 DEF IsWalk
  <2>2. CASE i # 0
    <3>1. i \in 1..n
      BY <2>2
    <3> QED
      BY <1>1, <3>1
  <2> QED
    BY <2>1, <2>2
<1> DEFINE Falls(i, j) == w[i] # NoParent /\ rank[w[j]] < rank[w[i]]
           T == {j \in 0..n : w[j] # NoParent /\ \E i \in 0..n : i < j /\ ~Falls(i, j)}
<1>3. ASSUME T # {}
      PROVE  FALSE
  <2>1. T \subseteq Nat
    OBVIOUS
  <2>2. PICK m \in T : \A k \in T : m <= k
    <3> HIDE DEF T
    <3> QED
      BY <1>3, <2>1, LeastNumber
  <2>3. PICK i \in 0..n : i < m /\ ~Falls(i, m)
    OBVIOUS
  <2>4. m \in 1..n /\ m - 1 \in 0..n /\ w[m] # NoParent
    BY <2>3
  <2>5. Falls(m - 1, m) /\ w[m - 1] \in Styles /\ w[m] \in Styles
    BY <1>1, <2>4
  <2>6. CASE i = m - 1
    BY <2>3, <2>5, <2>6
  <2>7. CASE i # m - 1
    <3>1. m - 1 \notin T /\ i < m - 1
      BY <2>2, <2>3, <2>4, <2>7
    <3>2. Falls(i, m - 1)
      BY <2>4, <2>5, <3>1
    <3>3. w[i] \in Styles
      BY <1>2, <3>2
    <3>4. rank[w[i]] \in Nat /\ rank[w[m - 1]] \in Nat /\ rank[w[m]] \in Nat
      BY <2>5, <3>3 DEF Ranks, Styles
    <3> QED
      BY <2>3, <2>5, <3>2, <3>4
  <2> QED
    BY <2>6, <2>7
<1> QED
  BY <1>2, <1>3

(* As many steps as there are styles meet every ancestor.                  *)
LEMMA AncestorsClosed ==
  ASSUME StylesTyped, NEW rank, Ranks(rank), NEW parent \in Styles \cup {NoParent}
  PROVE  /\ Ancestors(parent) \subseteq Styles
         /\ parent = NoParent => Ancestors(parent) = {}
         /\ parent # NoParent => parent \in Ancestors(parent)
         /\ \A a \in Ancestors(parent) :
              /\ rank[a] <= rank[parent]
              /\ style[a].parent # NoParent => style[a].parent \in Ancestors(parent)
<1> DEFINE N == Cardinality(Style)
<1>1. N \in Nat /\ IsFiniteSet(Style)
  BY StyleCount, ContentAssumption
<1>2. parent \in Style \cup {NoParent}
  BY DEF Styles
<1>3. PICK w : IsWalk(w, Above, parent, N) /\ Ancestors(parent) = {w[n] : n \in 0..N} \ {NoParent}
  BY <1>2, AncestorsAreWalked
<1>4. /\ \A i \in 0..N : w[i] \in Styles \cup {NoParent}
      /\ \A i, j \in 0..N : i < j /\ w[j] # NoParent =>
           w[i] # NoParent /\ rank[w[j]] < rank[w[i]]
  <2> HIDE DEF N
  <2> QED
    BY <1>1, <1>3, WalkFalls
<1>5. w[0] = parent /\ 0 \in 0..N
  BY <1>1, <1>3 DEF IsWalk
<1>6. w \in [0..N -> Style \cup {NoParent}]
  BY <1>3, <1>2, AboveTyped DEF IsWalk
<1> HIDE DEF N
<1>7. parent = NoParent => Ancestors(parent) = {}
  BY <1>1, <1>3, <1>4, <1>5
<1>8. ASSUME NEW a \in Ancestors(parent)
      PROVE  /\ rank[a] <= rank[parent]
             /\ style[a].parent # NoParent => style[a].parent \in Ancestors(parent)
  <2>1. PICK i \in 0..N : w[i] = a /\ a # NoParent
    BY <1>3
  <2>2. a \in Styles /\ parent \in Styles
    BY <1>4, <1>5, <1>7, <2>1
  <2>3. rank[a] \in Nat /\ rank[parent] \in Nat
    BY <2>2 DEF Ranks, Styles
  <2>4. rank[a] <= rank[parent]
    BY <1>1, <1>4, <1>5, <2>1, <2>3
  <2>5. CASE i # N
    <3>1. i + 1 \in 0..N /\ i + 1 \in 1..N /\ (i + 1) - 1 = i
      BY <1>1, <2>5
    <3>2. w[i + 1] = Above[w[i]]
      BY <1>3, <3>1 DEF IsWalk
    <3>3. w[i + 1] = style[a].parent
      BY <2>1, <2>2, <3>2 DEF Above, Styles
    <3> QED
      BY <1>3, <2>4, <3>1, <3>3
  <2>6. CASE i = N
    <3>1. \A j \in 0..N : w[j] # NoParent
      BY <1>1, <1>4, <2>1, <2>6
    <3>2. \A j \in 0..N : w[j] \in Styles /\ rank[w[j]] \in Nat
      BY <1>4, <3>1 DEF Ranks, Styles
    <3>3. \A j, k \in 0..N : w[j] = w[k] => j = k
      BY <1>1, <1>4, <3>1, <3>2
    <3>4. w \in Injection(0..N, Style)
      BY <1>6, <3>2, <3>3 DEF Injection, IsInjective, Styles
    <3>5. Cardinality(0..N) <= N
      BY <1>1, <3>4, FS_Injection DEF N
    <3>6. Cardinality(0..N) = N + 1
      BY <1>1, FS_Interval
    <3> QED
      BY <1>1, <3>5, <3>6
  <2> QED
    BY <2>4, <2>5, <2>6
<1> QED
  BY <1>3, <1>4, <1>5, <1>7, <1>8

(* Ranks make a forest.                                                    *)
LEMMA RankedIsForest ==
  ASSUME StylesTyped, Ranked
  PROVE  StyleForest
<1>1. PICK rank : Ranks(rank)
  BY DEF Ranked
<1>2. ASSUME NEW s \in Styles
      PROVE  /\ s \notin Ancestors(style[s].parent)
             /\ Ancestors(style[s].parent) \subseteq Styles
  <2>1. style[s].parent \in Styles \cup {NoParent}
    BY <1>1 DEF Ranks
  <2>2. CASE style[s].parent = NoParent
    BY <1>1, <2>1, <2>2, AncestorsClosed
  <2>3. CASE style[s].parent # NoParent
    <3>1. rank[style[s].parent] < rank[s] /\ rank[s] \in Nat /\ rank[style[s].parent] \in Nat
      BY <1>1, <2>3 DEF Ranks, Styles
    <3> QED
      BY <1>1, <2>1, <3>1, AncestorsClosed
  <2> QED
    BY <2>2, <2>3
<1> QED
  BY <1>2 DEF StyleForest

(* A style is rewritten: whoever is not among its new ancestors is ranked  *)
(* above all of them.                                                      *)
LEMMA SetStyleRanked ==
  ASSUME StylesTyped, Ranked, NEW s \in Style, NEW row \in StyleRow,
         VerdictOnChain(s, row.parent) = "ok",
         style' = Rewritten(s, row)
  PROVE  StylesTyped' /\ Ranked' /\ Styles' = Styles \cup {s}
<1>1. StylesTyped' /\ Styles' = Styles \cup {s}
  BY ContentAssumption DEF StylesTyped, Styles, Rewritten
<1>2. s \notin Ancestors(row.parent) /\ Ancestors(row.parent) \subseteq Styles
  BY DEF VerdictOnChain
<1>3. \A t \in Style : style'[t] = IF t = s THEN row ELSE style[t]
  BY DEF StylesTyped, Rewritten
<1>4. row.parent \in Style \cup {NoParent}
  BY DEF StyleRow
<1>5. PICK rank : Ranks(rank)
  BY DEF Ranked
<1>6. row.parent # NoParent => row.parent \in Ancestors(row.parent)
  <2>1. PICK w : /\ IsWalk(w, Above, row.parent, Cardinality(Style))
                 /\ Ancestors(row.parent) = {w[n] : n \in 0..Cardinality(Style)} \ {NoParent}
    BY <1>4, AncestorsAreWalked
  <2> QED
    BY <2>1, StyleCount DEF IsWalk
<1>7. row.parent \in Styles \cup {NoParent}
  BY <1>2, <1>4, <1>6
<1> DEFINE A == Ancestors(row.parent)
           top == IF row.parent = NoParent THEN 0 ELSE rank[row.parent] + 1
           new == [t \in Style |-> IF t \in A THEN rank[t] ELSE rank[t] + top]
<1>8. /\ row.parent = NoParent => A = {}
      /\ \A a \in A : rank[a] < top /\ (style[a].parent # NoParent => style[a].parent \in A)
  <2>1. \A a \in A : a \in Style /\ rank[a] \in Nat
    BY <1>2, <1>5 DEF Ranks, Styles
  <2>2. row.parent # NoParent => rank[row.parent] \in Nat
    BY <1>5, <1>7 DEF Ranks, Styles
  <2> HIDE DEF A
  <2>3. row.parent = NoParent => A = {}
    BY <1>5, <1>7, AncestorsClosed DEF A
  <2>4. \A a \in A : rank[a] <= rank[row.parent]
                      /\ (style[a].parent # NoParent => style[a].parent \in A)
    BY <1>5, <1>7, AncestorsClosed DEF A
  <2> QED
    BY <2>1, <2>2, <2>3, <2>4
<1>9. top \in Nat /\ rank \in [Style -> Nat] /\ A \subseteq Style
  BY <1>2, <1>5, <1>7 DEF Ranks, Styles
<1>10. ASSUME NEW t \in Styles', style'[t].parent # NoParent
       PROVE  /\ style'[t].parent \in Styles'
              /\ new[style'[t].parent] < new[t]
  <2>1. t \in Style
    BY DEF Styles
  <2>2. CASE t = s
    <3>1. style'[t].parent = row.parent /\ row.parent \in A /\ row.parent \in Styles
      BY <1>3, <1>6, <1>7, <1>10, <2>1, <2>2
    <3> HIDE DEF A, top
    <3> QED
      BY <1>1, <1>2, <1>8, <1>9, <2>1, <2>2, <3>1 DEF A
  <2>3. CASE t # s
    <3>1. t \in Styles /\ style'[t].parent = style[t].parent
      BY <1>1, <1>3, <2>1, <2>3
    <3> DEFINE p == style[t].parent
    <3>2. p \in Styles /\ p \in Style /\ rank[p] < rank[t] /\ rank[p] \in Nat /\ rank[t] \in Nat
      BY <1>5, <1>10, <2>1, <3>1 DEF Ranks, Styles
    <3>3. t \in A => p \in A
      BY <1>8, <1>10, <3>1
    <3> HIDE DEF A, top, p
    <3>4. new[p] < new[t]
      BY <1>9, <2>1, <3>2, <3>3
    <3> QED
      BY <1>1, <3>1, <3>2, <3>4 DEF p
  <2> QED
    BY <2>2, <2>3
<1>11. new \in [Style -> Nat]
  BY <1>9
<1>12. PICK r : r = new
  OBVIOUS
<1>13. Ranks(r)'
  <2>1. \A t \in Styles' : style'[t].parent # NoParent =>
          style'[t].parent \in Styles' /\ new[style'[t].parent] < new[t]
    BY <1>10
  <2> HIDE DEF new
  <2> QED
    BY <2>1, <1>11, <1>12 DEF Ranks
<1> QED
  BY <1>1, <1>13 DEF Ranked

(* A style without children is removed.                                    *)
LEMMA RemoveStyleRanked ==
  ASSUME StylesTyped, Ranked, NEW s \in Style, Children(s) = {},
         style' = [style EXCEPT ![s] = NoStyle]
  PROVE  StylesTyped' /\ Ranked' /\ Styles' = Styles \ {s}
<1>1. StylesTyped' /\ Styles' = Styles \ {s}
  BY DEF StylesTyped, Styles
<1>2. \A t \in Styles' : t \in Styles /\ style'[t] = style[t]
  BY DEF StylesTyped, Styles
<1>3. PICK rank : Ranks(rank)
  BY DEF Ranked
<1>4. Ranks(rank)'
  BY <1>1, <1>2, <1>3 DEF Ranks, Children
<1> QED
  BY <1>1, <1>4 DEF Ranked

-----------------------------------------------------------------------------
(* The order of layers.                                                    *)

LayersTyped == layer \in [Layer -> LayerRow \cup {NoLayer}]

LEMMA LayerCount ==
  \A S \in SUBSET Layers : IsFiniteSet(S) /\ Cardinality(S) \in Nat
                           /\ Cardinality(S) <= Cardinality(Layers)
<1>1. Layers \in SUBSET Layer
  BY DEF Layers
<1>2. IsFiniteSet(Layers)
  BY <1>1, LayerAssumption, FS_Subset
<1> QED
  BY <1>2, FS_Subset, FS_CardinalityType

(* Every number below the number of layers is the ordinal of one layer.    *)
LEMMA OrdinalsAreDense ==
  ASSUME LayersTyped, LayersReadable
  PROVE  /\ \A l \in Layers : layer[l].ordinal \in 0..Cardinality(Layers) - 1
         /\ \A k, l \in Layers : layer[k].ordinal = layer[l].ordinal => k = l
         /\ \A i \in 0..Cardinality(Layers) - 1 : \E l \in Layers : layer[l].ordinal = i
<1> DEFINE n == Cardinality(Layers)
           f == [l \in Layers |-> layer[l].ordinal]
<1>1. n \in Nat /\ IsFiniteSet(Layers)
  BY LayerCount
<1>2. {layer[l].ordinal : l \in Layers} = 0..n - 1
  BY DEF LayersReadable
<1> HIDE DEF n
<1>3. f \in Surjection(Layers, 0..n - 1)
  BY <1>2 DEF Surjection
<1>4. Cardinality(0..n - 1) = n
  BY <1>1, FS_Interval
<1>5. f \in Injection(Layers, 0..n - 1)
  BY <1>1, <1>3, <1>4, FS_SurjSameCardinalityImpliesInj DEF n
<1>6. \A k, l \in Layers : layer[k].ordinal = layer[l].ordinal => k = l
  BY <1>5 DEF Injection, IsInjective
<1> QED
  BY <1>2, <1>6 DEF n

(* An order whose first n rows are written: what stands where.             *)
LEMMA OrdinalWritten ==
  ASSUME NEW order, NEW n \in Nat, NEW l,
         \A i, j \in 1..n : order[i] = order[j] => i = j
  PROVE  \A i \in 1..n : order[i] = l => OrdinalAfter(order, n, l) = i - 1
BY DEF OrdinalAfter

(* No row that waits to be written is in the way.                          *)
LEMMA ReorderWorks ==
  ASSUME LayersTyped, LayersReadable
  PROVE  ReorderSucceeds
<1> DEFINE n == Cardinality(Layers)
<1>1. n \in Nat /\ n <= OrdinalShift /\ OrdinalShift \in Nat
  BY LayerCount, LayerAssumption DEF LayersReadable
<1> SUFFICES ASSUME NEW order \in [1..n -> Layers]
             PROVE  ~RewriteCollides(order, Layers)
  BY DEF ReorderSucceeds
<1>2. \A l \in Layers : layer[l].ordinal \in 0..n - 1
  BY OrdinalsAreDense
<1> HIDE DEF n
<1>3. ASSUME NEW k \in Layers, NEW l \in Layers, Shifted(k) = layer[l].ordinal
      PROVE  FALSE
  BY <1>1, <1>2, <1>3 DEF Shifted
<1>4. ASSUME NEW i \in DOMAIN order, NEW l \in Layers \ {order[i]},
             OrdinalAfter(order, i - 1, l) = i - 1
      PROVE  FALSE
  <2>1. i \in 1..n
    OBVIOUS
  <2>2. CASE \E j \in 1..i - 1 : order[j] = l
    <3> DEFINE j == CHOOSE k \in 1..i - 1 : order[k] = l
    <3>1. j \in 1..i - 1
      BY <2>2
    <3>2. OrdinalAfter(order, i - 1, l) = j - 1
      BY <2>2 DEF OrdinalAfter
    <3> QED
      BY <1>1, <1>4, <2>1, <3>1, <3>2
  <2>3. CASE ~\E j \in 1..i - 1 : order[j] = l
    <3>1. OrdinalAfter(order, i - 1, l) = layer[l].ordinal + OrdinalShift
      BY <2>3 DEF OrdinalAfter, Shifted
    <3>2. layer[l].ordinal \in 0..n - 1
      BY <1>2
    <3> QED
      BY <1>1, <1>4, <2>1, <3>1, <3>2
  <2> QED
    BY <2>2, <2>3
<1> QED
  BY <1>3, <1>4 DEF RewriteCollides

(* An order that names every layer of a set is a numbering of it.          *)
Numbers(order, layers) ==
  /\ order \in [1..Cardinality(layers) -> layers]
  /\ layers = {order[i] : i \in 1..Cardinality(layers)}

LEMMA NumberingIsInjective ==
  ASSUME NEW layers \in SUBSET Layers, NEW order, Numbers(order, layers)
  PROVE  \A i, j \in 1..Cardinality(layers) : order[i] = order[j] => i = j
<1> DEFINE n == Cardinality(layers)
<1>1. n \in Nat /\ IsFiniteSet(layers)
  BY LayerCount
<1>2. order \in Surjection(1..n, layers)
  BY DEF Numbers, Surjection
<1>3. IsFiniteSet(1..n) /\ Cardinality(1..n) = n
  <2> HIDE DEF n
  <2> QED
    BY <1>1, FS_Interval
<1>4. order \in Injection(1..n, layers)
  BY <1>2, <1>3, FS_SurjSameCardinalityImpliesInj
<1> QED
  BY <1>4 DEF Injection, IsInjective

(* Writing a numbering of some of the layers keeps these, in that order.   *)
LEMMA ReorderedReadable ==
  ASSUME LayersTyped, LayersReadable,
         NEW layers \in SUBSET Layers, NEW order, Numbers(order, layers),
         layer' = Reordered(order, layers)
  PROVE  /\ LayersTyped' /\ Layers' = layers /\ LayersReadable'
         /\ \A i \in 1..Cardinality(layers) : layer'[order[i]].ordinal = i - 1
         /\ \A l \in layers :
              /\ layer'[l].sources = layer[l].sources
              /\ layer'[l].resources = layer[l].resources
              /\ layer'[l].styles = layer[l].styles
<1> DEFINE n == Cardinality(layers)
<1>1. n \in Nat /\ IsFiniteSet(layers) /\ n <= Cardinality(Layers)
      /\ Cardinality(Layers) \in Nat
  BY LayerCount
<1>2. \A i, j \in 1..n : order[i] = order[j] => i = j
  BY NumberingIsInjective
<1>3. layers = {order[i] : i \in 1..n} /\ \A i \in 1..n : order[i] \in layers
  BY DEF Numbers
<1> HIDE DEF n
<1>4. \A l \in layers : \A i \in 1..n : order[i] = l => OrdinalAfter(order, n, l) = i - 1
  BY <1>1, <1>2, OrdinalWritten
<1>5. \A l \in layers : OrdinalAfter(order, n, l) \in 0..n - 1
  BY <1>1, <1>3, <1>4
<1>6. \A l \in Layer : layer'[l] = IF l \in layers
                         THEN [layer[l] EXCEPT !.ordinal = OrdinalAfter(order, n, l)]
                         ELSE NoLayer
  BY DEF Reordered, n
<1>7. ASSUME NEW l \in layers
      PROVE  /\ l \in Layer
             /\ layer[l] \in LayerRow
             /\ layer'[l] = [layer[l] EXCEPT !.ordinal = OrdinalAfter(order, n, l)]
             /\ layer'[l] \in LayerRow /\ layer'[l] # NoLayer
             /\ layer'[l].ordinal = OrdinalAfter(order, n, l)
             /\ layer'[l].sources = layer[l].sources
             /\ layer'[l].resources = layer[l].resources
             /\ layer'[l].styles = layer[l].styles
  <2>1. l \in Layer /\ layer[l] \in LayerRow
    BY DEF Layers, LayersTyped
  <2>2. layer'[l] = [layer[l] EXCEPT !.ordinal = OrdinalAfter(order, n, l)]
    BY <1>6, <2>1
  <2>3. OrdinalAfter(order, n, l) \in Nat
    BY <1>1, <1>5
  <2> DEFINE o == OrdinalAfter(order, n, l)
  <2>4. layer'[l] \in LayerRow /\ layer'[l].ordinal = o
        /\ layer'[l].sources = layer[l].sources
        /\ layer'[l].resources = layer[l].resources
        /\ layer'[l].styles = layer[l].styles
    <3> HIDE DEF o
    <3> QED
      BY <2>1, <2>2, <2>3 DEF LayerRow, o
  <2> QED
    BY <2>1, <2>2, <2>4, LayerAssumption
<1>8. LayersTyped' /\ Layers' = layers
  <2>1. layer' = [l \in Layer |-> layer'[l]]
    BY DEF Reordered
  <2>2. \A l \in Layer : layer'[l] \in LayerRow \cup {NoLayer}
    BY <1>6, <1>7
  <2>3. layers \subseteq Layer
    BY <1>7
  <2> QED
    BY <1>6, <1>7, <2>1, <2>2, <2>3 DEF LayersTyped, Layers
<1>9. {layer'[l].ordinal : l \in layers} = 0..n - 1
  <2>1. \A i \in 0..n - 1 : i + 1 \in 1..n /\ (i + 1) - 1 = i
    BY <1>1
  <2>2. ASSUME NEW i \in 0..n - 1
        PROVE  layer'[order[i + 1]].ordinal = i /\ order[i + 1] \in layers
    <3>1. i + 1 \in 1..n
      BY <2>1
    <3>2. order[i + 1] \in layers
      BY <1>3, <3>1
    <3>3. OrdinalAfter(order, n, order[i + 1]) = (i + 1) - 1
      BY <1>4, <3>1, <3>2
    <3>4. layer'[order[i + 1]].ordinal = OrdinalAfter(order, n, order[i + 1])
      BY <1>7, <3>2
    <3> QED
      BY <2>1, <3>2, <3>3, <3>4
  <2>3. \A l \in layers : layer'[l].ordinal \in 0..n - 1
    BY <1>5, <1>7
  <2> QED
    BY <2>2, <2>3
<1>10. LayersReadable'
  <2>1. \A l \in layers : LayerReadable(l)'
    BY <1>7 DEF LayersReadable, LayerReadable
  <2>2. n <= MaxLayers
    BY <1>1, LayerAssumption DEF LayersReadable
  <2> QED
    BY <1>8, <1>9, <2>1, <2>2 DEF LayersReadable, n
<1>11. \A i \in 1..n : layer'[order[i]].ordinal = i - 1
  BY <1>3, <1>4, <1>7
<1> QED
  BY <1>7, <1>8, <1>10, <1>11 DEF n

(* The vector load_layers returns, of the layers that are left.            *)
Ascends(order, n) ==
  \A i, j \in 1..n : i < j => layer[order[i]].ordinal < layer[order[j]].ordinal

LEMMA AscendingNumbers ==
  ASSUME LayersTyped, LayersReadable, NEW layers \in SUBSET Layers,
         NEW order \in [1..Cardinality(layers) -> layers],
         Ascends(order, Cardinality(layers))
  PROVE  Numbers(order, layers)
<1> DEFINE n == Cardinality(layers)
<1>1. n \in Nat /\ IsFiniteSet(layers)
  BY LayerCount
<1>2. \A i \in 1..n : order[i] \in layers /\ layer[order[i]].ordinal \in Nat
  BY DEF LayersTyped, Layers, LayerRow
<1>3. \A i, j \in 1..n : order[i] = order[j] => i = j
  <2> HIDE DEF n
  <2> QED
    BY <1>1, <1>2 DEF Ascends, n
<1>4. order \in Injection(1..n, layers)
  BY <1>3 DEF Injection, IsInjective
<1>5. Cardinality(1..n) = n
  <2> HIDE DEF n
  <2> QED
    BY <1>1, FS_Interval
<1>6. order \in Surjection(1..n, layers)
  BY <1>1, <1>4, <1>5, FS_Injection
<1> QED
  BY <1>6 DEF Surjection, Numbers

LEMMA OrderWithout ==
  ASSUME LayersTyped, LayersReadable, NEW x
  PROVE  Numbers(OrderOf(Layers \ {x}), Layers \ {x})
<1> DEFINE rest == Layers \ {x}
           n == Cardinality(rest)
           gap == IF x \in Layers THEN layer[x].ordinal ELSE n
           Place(i) == IF i - 1 < gap THEN i - 1 ELSE i
           order == [i \in 1..n |-> CHOOSE l \in rest : layer[l].ordinal = Place(i)]
<1>1. n \in Nat /\ rest \in SUBSET Layers
  BY LayerCount
<1>2. Cardinality(Layers) = (IF x \in Layers THEN n + 1 ELSE n)
  <2>1. CASE x \in Layers
    <3>1. IsFiniteSet(Layers) /\ Cardinality(Layers) \in Nat
      BY LayerCount
    <3>2. n = Cardinality(Layers) - 1
      BY <2>1, <3>1, FS_RemoveElement
    <3> HIDE DEF n
    <3> QED
      BY <1>1, <2>1, <3>1, <3>2
  <2>2. CASE x \notin Layers
    <3>1. rest = Layers
      BY <2>2
    <3> QED
      BY <2>2, <3>1
  <2> QED
    BY <2>1, <2>2
<1>3. gap \in 0..n
  <2>1. x \in Layers => layer[x].ordinal \in 0..Cardinality(Layers) - 1
    BY OrdinalsAreDense
  <2> HIDE DEF n
  <2> QED
    BY <1>1, <1>2, <2>1
<1> HIDE DEF n, gap
<1>4. ASSUME NEW i \in 1..n
      PROVE  \E l \in rest : layer[l].ordinal = Place(i)
  <2>1. Place(i) \in 0..Cardinality(Layers) - 1
    <3>1. x \notin Layers => gap = n
      BY DEF gap
    <3> QED
      BY <1>1, <1>2, <1>3, <3>1
  <2>2. PICK l \in Layers : layer[l].ordinal = Place(i)
    <3> HIDE DEF Place
    <3> QED
      BY <2>1, OrdinalsAreDense
  <2>3. x \in Layers => Place(i) # layer[x].ordinal
    BY <1>1, <1>3 DEF gap
  <2> QED
    BY <2>2, <2>3
<1>5. \A i \in 1..n : order[i] \in rest /\ layer[order[i]].ordinal = Place(i)
  <2> HIDE DEF Place, rest
  <2> QED
    BY <1>4
<1>6. order \in [1..n -> rest]
  <2> HIDE DEF Place, rest
  <2> QED
    BY <1>5
<1>7. Ascends(order, n)
  <2>1. \A i, j \in 1..n : i < j => Place(i) < Place(j)
    BY <1>1, <1>3
  <2> HIDE DEF Place, order
  <2> QED
    BY <1>5, <2>1 DEF Ascends
<1> HIDE DEF order, rest
<1>8. OrderOf(rest) \in [1..n -> rest] /\ Ascends(OrderOf(rest), n)
  <2>1. \E o \in [1..n -> rest] : \A i, j \in DOMAIN o :
          i < j => layer[o[i]].ordinal < layer[o[j]].ordinal
    <3>1. DOMAIN order = 1..n
      BY <1>6
    <3> QED
      BY <1>6, <1>7, <3>1 DEF Ascends
  <2>2. /\ OrderOf(rest) \in [1..n -> rest]
        /\ \A i, j \in DOMAIN OrderOf(rest) :
             i < j => layer[OrderOf(rest)[i]].ordinal < layer[OrderOf(rest)[j]].ordinal
    BY <2>1 DEF OrderOf, n
  <2> QED
    BY <2>2 DEF Ascends
<1> QED
  BY <1>1, <1>8, AscendingNumbers DEF n, rest

-----------------------------------------------------------------------------
(* The invariant: what the loaders and audits ask of the rows.             *)

LayerRefs(l) ==
  /\ Bound(layer[l].sources) \subseteq source
  /\ Bound(layer[l].resources) \subseteq doc.required
  /\ LayerStylesReadable(l)

LayersInv ==
  /\ LayersTyped
  /\ LayersReadable
  /\ \A l \in Layers : LayerRefs(l)

StyleRefs(s) ==
  /\ ValidStyle(s, style[s])
  /\ Bound(style[s].resources) \subseteq doc.required

StylesInv ==
  /\ StylesTyped
  /\ Ranked
  /\ Cardinality(Styles) <= MaxStyles
  /\ \A s \in Styles : StyleRefs(s)

ContentInv ==
  /\ WellFormed(doc)
  /\ source \subseteq Source
  /\ LayersInv
  /\ StylesInv

-----------------------------------------------------------------------------
(* What every committed mutation does to the document: one revision, and   *)
(* what was stored or required remains so.                                 *)
Grown(d, e) ==
  /\ WellFormed(e)
  /\ e.revision = d.revision + 1
  /\ d.required \subseteq e.required
  /\ Stored(d) \subseteq Stored(e)
  /\ ThawFits(d, e)

LEMMA MutationGrows ==
  ASSUME NEW d, WellFormed(d), NEW q \in MutationType, Verdict(d, q) = "commit"
  PROVE  Grown(d, Written(d, q))
<1>1. WellFormed(Written(d, q))
  BY BodiesWellFormed
<1>2. ThawFits(d, Written(d, q))
  BY BodiesThaw
<1>3. \A r \in Stored(d) : Written(d, q).identity[r] = d.identity[r]
  BY BodiesMonotone
<1> QED
  BY <1>1, <1>2, <1>3, BodiesMonotone DEF Grown, Stored

(* A mutation of layers or styles advances the document and requires what  *)
(* it binds.                                                               *)
Requiring(d, frozen, resources) ==
  [Advance(d, frozen) EXCEPT !.required = d.required \cup resources]

LEMMA RequiringGrows ==
  ASSUME NEW d, WellFormed(d), d.revision # MaxRevision,
         NEW resources \in SUBSET Stored(d), NEW frozen \in BOOLEAN,
         frozen <=> d.frozen /\ resources \subseteq d.embedded
  PROVE  /\ Grown(d, Requiring(d, frozen, resources))
         /\ Requiring(d, frozen, resources).required = d.required \cup resources
         /\ Requiring(d, frozen, resources).embedded = d.embedded
         /\ Stored(Requiring(d, frozen, resources)) = Stored(d)
<1> DEFINE e == Requiring(d, frozen, resources)
<1>1. d.revision + 1 \in 0..MaxRevision
  BY DocumentAssumption DEF WellFormed, Document
<1>2. e = [d EXCEPT !.revision = d.revision + 1, !.frozen = frozen,
                    !.required = d.required \cup resources]
  BY DEF Requiring, Advance, NextRevision, WellFormed, Document
<1>3. d.required \cup resources \in SUBSET Resource
  BY DEF WellFormed, Document, Stored
<1>4. /\ e \in Document
      /\ e.revision = d.revision + 1 /\ e.frozen = frozen
      /\ e.required = d.required \cup resources
      /\ e.embedded = d.embedded /\ e.identity = d.identity
      /\ e.projection = d.projection /\ e.projection_id = d.projection_id
  BY <1>1, <1>2, <1>3 DEF WellFormed, Document
<1> HIDE DEF e
<1>5. Stored(e) = Stored(d)
  BY <1>4 DEF Stored
<1>6. WellFormed(e)
  <2>1. FrozenClaimHolds(e, e.frozen)
    BY <1>4 DEF WellFormed, FrozenClaimHolds
  <2> QED
    BY <1>4, <1>5, <2>1 DEF WellFormed
<1>7. ThawFits(d, e)
  BY <1>4 DEF ThawFits, WellFormed, FrozenClaimHolds
<1> QED
  BY <1>4, <1>5, <1>6, <1>7 DEF Grown, e

(* The three forms the code of layers and styles gives it.                 *)
LEMMA AdvanceGrows ==
  ASSUME WellFormed(doc), doc.revision # MaxRevision
  PROVE  /\ Grown(doc, Advance(doc, doc.frozen))
         /\ Advance(doc, doc.frozen).required = doc.required
         /\ Stored(Advance(doc, doc.frozen)) = Stored(doc)
<1>1. Requiring(doc, doc.frozen, {}) = Advance(doc, doc.frozen)
  BY DEF Requiring, Advance, WellFormed, Document
<1>2. doc.frozen \in BOOLEAN
  BY DEF WellFormed, Document
<1>3. {} \in SUBSET Stored(doc) /\ (doc.frozen <=> doc.frozen /\ {} \subseteq doc.embedded)
  BY <1>2
<1>4. /\ Grown(doc, Requiring(doc, doc.frozen, {}))
      /\ Requiring(doc, doc.frozen, {}).required = doc.required \cup {}
      /\ Stored(Requiring(doc, doc.frozen, {})) = Stored(doc)
  BY <1>2, <1>3, RequiringGrows
<1> QED
  BY <1>1, <1>4

LEMMA RequireGrows ==
  ASSUME WellFormed(doc), doc.revision # MaxRevision,
         NEW resources \in SUBSET Stored(doc), NEW e,
         \/ e = RequireBound(resources)
         \/ e = [Advance(doc, IF ExternalRequired(resources) THEN FALSE ELSE doc.frozen)
                   EXCEPT !.required = doc.required \cup resources]
  PROVE  /\ Grown(doc, e)
         /\ e.required = doc.required \cup resources
         /\ Stored(e) = Stored(doc)
<1> DEFINE frozen == doc.frozen /\ resources \subseteq doc.embedded
<1>1. doc.frozen \in BOOLEAN
  BY DEF WellFormed, Document
<1>2. (IF ExternalRequired(resources) THEN FALSE ELSE doc.frozen) = frozen
  BY <1>1 DEF ExternalRequired
<1>3. e = Requiring(doc, frozen, resources)
  BY <1>2 DEF RequireBound, Requiring
<1>4. frozen \in BOOLEAN
  OBVIOUS
<1> QED
  <2> HIDE DEF frozen
  <2>1. frozen <=> doc.frozen /\ resources \subseteq doc.embedded
    BY DEF frozen
  <2> QED
    BY <1>3, <1>4, <2>1, RequiringGrows

-----------------------------------------------------------------------------
(* A request is of the type its name says.                                 *)
LEMMA RequestTypes ==
  ASSUME NEW q \in ContentCall
  PROVE  /\ q.op = "append_layer" => q \in AppendLayerCall
         /\ q.op = "append_layer_bindings" => q \in AppendBindingsCall
         /\ q.op = "update_layer_state" => q \in UpdateStateCall
         /\ q.op = "set_layer_order" => q \in SetOrderCall
         /\ q.op = "remove_layer" => q \in RemoveLayerCall
         /\ q.op = "initialize_layer_stack" => q \in InitializeCall
         /\ q.op = "store_source_snapshot" => q \in StoreSourceCall
         /\ q.op = "set_style" => q \in SetStyleCall
         /\ q.op = "remove_style" => q \in RemoveStyleCall
         /\ q.op = "set_layer_style_bindings" => q \in SetLayerStylesCall
         /\ q \in MutationType =>
              q.op \in {"update_metadata", "set_project_projection", "freeze_project",
                        "store_external_resource", "embed_resource_file"}
<1>1. q \in MutationType \cup LayerCallType \cup StyleCallType
  BY ContentAssumption
<1>2. q \in MutationType =>
        q.op \in {"update_metadata", "set_project_projection", "freeze_project",
                  "store_external_resource", "embed_resource_file"}
  BY DEF MutationType, MetadataUpdate, ProjectionChange, ExternalResource,
    EmbeddedResource, Freeze
<1>3. q \in StyleCallType =>
        /\ q.op \in {"set_style", "remove_style", "set_layer_style_bindings"}
        /\ q.op = "set_style" => q \in SetStyleCall
        /\ q.op = "remove_style" => q \in RemoveStyleCall
        /\ q.op = "set_layer_style_bindings" => q \in SetLayerStylesCall
  BY DEF StyleCallType, SetStyleCall, RemoveStyleCall, SetLayerStylesCall
<1>4. q \in LayerCallType =>
        /\ q.op \in {"append_layer", "append_layer_bindings", "update_layer_state",
                     "set_layer_order", "remove_layer", "initialize_layer_stack",
                     "store_source_snapshot"}
        /\ q.op = "append_layer" => q \in AppendLayerCall
        /\ q.op = "append_layer_bindings" => q \in AppendBindingsCall
        /\ q.op = "update_layer_state" => q \in UpdateStateCall
        /\ q.op = "set_layer_order" => q \in SetOrderCall
        /\ q.op = "remove_layer" => q \in RemoveLayerCall
        /\ q.op = "initialize_layer_stack" => q \in InitializeCall
        /\ q.op = "store_source_snapshot" => q \in StoreSourceCall
  BY DEF LayerCallType, AppendLayerCall, AppendBindingsCall, UpdateStateCall,
    SetOrderCall, RemoveLayerCall, InitializeCall, StoreSourceCall
<1>5. CASE q \in MutationType
  BY <1>2, <1>5
<1>6. CASE q \in StyleCallType \ MutationType
  BY <1>3, <1>6
<1>7. CASE q \in LayerCallType \ MutationType
  BY <1>4, <1>7
<1> QED
  BY <1>1, <1>5, <1>6, <1>7

(* Bindings.                                                               *)
LEMMA BoundFacts ==
  /\ Bound(NoBindings) = {}
  /\ \A S : NoBindings \in Bindings(S)
  /\ \A S : \A b \in Bindings(S) : Bound(b) \subseteq S
BY DEF Bound, NoBindings, Bindings

LEMMA MergedFacts ==
  ASSUME NEW S, NEW old \in Bindings(S), NEW new \in Bindings(S)
  PROVE  /\ Merged(old, new) \in Bindings(S)
         /\ Bound(Merged(old, new)) \subseteq Bound(old) \cup Added(old, new)
         /\ Added(old, new) \subseteq S
BY DEF Bound, Merged, Bindings, Added

(* One row is replaced or added.                                           *)
LEMMA RowWritten ==
  ASSUME LayersTyped, NEW l \in Layer, NEW row \in LayerRow,
         layer' = [layer EXCEPT ![l] = row]
  PROVE  /\ LayersTyped'
         /\ Layers' = Layers \cup {l}
         /\ layer'[l] = row
         /\ \A k \in Layers \ {l} : layer'[k] = layer[k]
BY LayerAssumption DEF LayersTyped, Layers

(* Rows whose ordinals are those of the others and the next one.           *)
LEMMA RowAppended ==
  ASSUME LayersTyped, LayersReadable, NEW l \in Layer \ Layers, NEW row \in LayerRow,
         layer' = [layer EXCEPT ![l] = row],
         row.ordinal = Cardinality(Layers), Cardinality(Layers) < MaxLayers,
         ValidBindings(row.sources, row.resources)
  PROVE  LayersReadable'
<1> DEFINE n == Cardinality(Layers)
<1>1. n \in Nat /\ IsFiniteSet(Layers) /\ MaxLayers \in Nat
  BY LayerCount, LayerAssumption
<1>2. /\ Layers' = Layers \cup {l} /\ layer'[l] = row
      /\ \A k \in Layers : layer'[k] = layer[k]
  BY RowWritten
<1>3. Cardinality(Layers') = n + 1
  BY <1>1, <1>2, FS_AddElement
<1>4. {layer'[k].ordinal : k \in Layers'} = 0..n
  <2>1. {layer[k].ordinal : k \in Layers} = 0..n - 1
    BY DEF LayersReadable
  <2>2. {layer'[k].ordinal : k \in Layers'} = {layer[k].ordinal : k \in Layers} \cup {n}
    BY <1>2
  <2> HIDE DEF n
  <2> QED
    BY <1>1, <2>1, <2>2
<1>5. \A k \in Layers' : LayerReadable(k)'
  BY <1>2 DEF LayersReadable, LayerReadable
<1>6. n + 1 <= MaxLayers /\ (n + 1) - 1 = n
  <2> HIDE DEF n
  <2> QED
    BY <1>1 DEF n
<1> QED
  BY <1>3, <1>4, <1>5, <1>6 DEF LayersReadable

LEMMA RowUpdated ==
  ASSUME LayersTyped, LayersReadable, NEW l \in Layers, NEW row \in LayerRow,
         layer' = [layer EXCEPT ![l] = row],
         row.ordinal = layer[l].ordinal,
         ValidBindings(row.sources, row.resources)
  PROVE  LayersReadable' /\ Layers' = Layers
<1>1. l \in Layer
  BY DEF Layers
<1>2. /\ Layers' = Layers \cup {l} /\ layer'[l] = row
      /\ \A k \in Layers \ {l} : layer'[k] = layer[k]
  BY <1>1, RowWritten
<1>3. {layer'[k].ordinal : k \in Layers} = {layer[k].ordinal : k \in Layers}
  BY <1>2
<1>4. \A k \in Layers : LayerReadable(k)'
  BY <1>2 DEF LayersReadable, LayerReadable
<1>5. Layers' = Layers
  BY <1>2
<1> QED
  BY <1>3, <1>4, <1>5 DEF LayersReadable

(* The references of a row that keeps its bindings stay good.              *)
LEMMA RefsKept ==
  ASSUME NEW l, LayerRefs(l),
         /\ layer'[l].sources = layer[l].sources
         /\ layer'[l].resources = layer[l].resources
         /\ layer'[l].styles = layer[l].styles,
         source \subseteq source', Grown(doc, doc'), Styles \subseteq Styles'
  PROVE  LayerRefs(l)'
BY DEF LayerRefs, Grown, LayerStylesReadable, ValidLayerStyles

-----------------------------------------------------------------------------
(* The mutations of layers keep the invariant.                             *)
LEMMA AppendLayerKeeps ==
  ASSUME ContentInv, NEW q \in ContentCall, AppendLayer(q), UNCHANGED style
  PROVE  Grown(doc, doc') /\ source' \subseteq Source /\ LayersInv'
<1> USE DEF ContentInv, LayersInv
<1> DEFINE r == q.request
           row == RowOf(r, Cardinality(Layers))
<1>1. r \in LayerCreateRequest
  BY RequestTypes DEF AppendLayer, AppendLayerCall
<1>2. VerdictOnAppend(r) = "commit"
  BY DEF AppendLayer, LayerVerdict
<1>3. /\ ValidBindings(r.sources, r.resources)
      /\ r.layer \notin Layers
      /\ ~(Cardinality(Layers) >= MaxLayers)
      /\ TargetsExist(Bound(r.sources), Bound(r.resources))
      /\ doc.revision # MaxRevision
  BY <1>2 DEF VerdictOnAppend, Committed
<1>4. /\ r.layer \in Layer \ Layers
      /\ row \in LayerRow
      /\ row.ordinal = Cardinality(Layers)
      /\ row.sources = r.sources /\ row.resources = r.resources /\ row.styles = NoBindings
  BY <1>1, <1>3, LayerCount, BoundFacts DEF LayerCreateRequest, RowOf, LayerRow
<1>5. /\ layer' = [layer EXCEPT ![r.layer] = row]
      /\ doc' = RequireBound(Bound(r.resources))
      /\ source' = source
  BY DEF AppendLayer
<1>6. Cardinality(Layers) < MaxLayers
  BY <1>3, LayerCount, LayerAssumption
<1>7. Bound(r.resources) \in SUBSET Stored(doc)
  BY <1>3 DEF TargetsExist
<1>8. Grown(doc, doc') /\ doc'.required = doc.required \cup Bound(r.resources)
  BY <1>3, <1>5, <1>7, RequireGrows
<1> HIDE DEF r, row
<1>9. /\ LayersTyped' /\ Layers' = Layers \cup {r.layer} /\ layer'[r.layer] = row
      /\ \A k \in Layers \ {r.layer} : layer'[k] = layer[k]
  BY <1>4, <1>5, RowWritten
<1>10. LayersReadable'
  BY <1>3, <1>4, <1>5, <1>6, RowAppended
<1>11. ASSUME NEW l \in Layers'
       PROVE  LayerRefs(l)'
  <2>1. CASE l = r.layer
    <3>1. LayerStylesReadable(l)'
      <4>1. Bound(NoBindings) = {} /\ SlotsOf(NoBindings) = {}
        BY BoundFacts DEF SlotsOf, NoBindings
      <4>2. Cardinality({}) = 0 /\ MaxStyleSlots \in Nat
        BY FS_EmptySet, ContentAssumption
      <4> QED
        BY <1>4, <1>9, <2>1, <4>1, <4>2 DEF LayerStylesReadable, ValidLayerStyles
    <3> QED
      BY <1>3, <1>4, <1>5, <1>8, <1>9, <2>1, <3>1 DEF LayerRefs, TargetsExist
  <2>2. CASE l # r.layer
    <3>1. l \in Layers /\ layer'[l] = layer[l]
      BY <1>9, <2>2
    <3>2. Styles' = Styles /\ source' = source
      BY <1>5 DEF Styles
    <3> QED
      BY <1>8, <3>1, <3>2, RefsKept
  <2> QED
    BY <2>1, <2>2
<1> QED
  BY <1>5, <1>8, <1>9, <1>10, <1>11

LEMMA AppendLayerBindingsKeeps ==
  ASSUME ContentInv, NEW q \in ContentCall, AppendLayerBindings(q), UNCHANGED style
  PROVE  Grown(doc, doc') /\ source' \subseteq Source /\ LayersInv' /\ Layers' = Layers
<1> USE DEF ContentInv, LayersInv
<1> DEFINE old == layer[q.layer]
           sources == Merged(old.sources, q.sources)
           resources == Merged(old.resources, q.resources)
           row == [old EXCEPT !.sources = sources, !.resources = resources]
<1>1. q \in AppendBindingsCall
  BY RequestTypes DEF AppendLayerBindings
<1>2. VerdictOnBindings(q) = "commit"
  BY DEF AppendLayerBindings, LayerVerdict
<1>3. /\ q.layer \in Layers
      /\ WithinBound(old, q)
      /\ TargetsExist(Added(old.sources, q.sources), Added(old.resources, q.resources))
      /\ doc.revision # MaxRevision
  BY <1>2 DEF VerdictOnBindings, Committed
<1>4. /\ q.layer \in Layer /\ old \in LayerRow
      /\ q.sources \in Bindings(Source) /\ q.resources \in Bindings(Resource)
  BY <1>1, <1>3 DEF AppendBindingsCall, Layers, LayersTyped
<1>5. old.sources \in Bindings(Source) /\ old.resources \in Bindings(Resource)
  BY <1>4 DEF LayerRow
<1>6. /\ sources \in Bindings(Source) /\ resources \in Bindings(Resource)
      /\ Bound(sources) \subseteq Bound(old.sources) \cup Added(old.sources, q.sources)
      /\ Bound(resources) \subseteq Bound(old.resources) \cup Added(old.resources, q.resources)
  BY <1>4, <1>5, MergedFacts
<1>7. ValidBindings(sources, resources)
  BY <1>3 DEF WithinBound
<1>8. /\ doc' = RequireBound(Added(old.resources, q.resources))
      /\ source' = source
  BY DEF AppendLayerBindings
<1>9. layer' = [layer EXCEPT ![q.layer] = row]
  <2>1. layer' = [layer EXCEPT ![q.layer].sources = sources,
                               ![q.layer].resources = resources]
    BY DEF AppendLayerBindings
  <2> HIDE DEF sources, resources
  <2> QED
    BY <1>4, <2>1 DEF LayersTyped, LayerRow
<1> HIDE DEF sources, resources
<1>10. /\ row \in LayerRow /\ row.ordinal = old.ordinal /\ row.styles = old.styles
       /\ row.sources = sources /\ row.resources = resources
  BY <1>4, <1>6 DEF LayerRow
<1>11. Grown(doc, doc')
       /\ doc'.required = doc.required \cup Added(old.resources, q.resources)
  BY <1>3, <1>8, RequireGrows DEF TargetsExist
<1> HIDE DEF row
<1>12. /\ LayersTyped' /\ layer'[q.layer] = row
       /\ \A k \in Layers \ {q.layer} : layer'[k] = layer[k]
  BY <1>4, <1>9, <1>10, RowWritten
<1>13. LayersReadable' /\ Layers' = Layers
  BY <1>3, <1>7, <1>9, <1>10, RowUpdated
<1>14. ASSUME NEW l \in Layers
       PROVE  LayerRefs(l)'
  <2>1. Styles' = Styles /\ source' = source /\ LayerRefs(l)
    BY <1>8 DEF Styles
  <2>2. CASE l = q.layer
    <3>1. LayerStylesReadable(l)'
      BY <1>10, <1>12, <2>1, <2>2 DEF LayerRefs, LayerStylesReadable, ValidLayerStyles
    <3> QED
      BY <1>3, <1>6, <1>10, <1>11, <1>12, <2>1, <2>2, <3>1 DEF LayerRefs, TargetsExist
  <2>3. CASE l # q.layer
    BY <1>11, <1>12, <2>1, <2>3, RefsKept
  <2> QED
    BY <2>2, <2>3
<1> QED
  BY <1>8, <1>11, <1>12, <1>13, <1>14

LEMMA UpdateLayerStateKeeps ==
  ASSUME ContentInv, NEW q \in ContentCall, UpdateLayerState(q), UNCHANGED style
  PROVE  Grown(doc, doc') /\ source' \subseteq Source /\ LayersInv' /\ Layers' = Layers
<1> USE DEF ContentInv, LayersInv
<1> DEFINE old == layer[q.layer]
           row == [old EXCEPT !.state = q.state]
<1>1. q \in UpdateStateCall
  BY RequestTypes DEF UpdateLayerState
<1>2. q.layer \in Layers /\ doc.revision # MaxRevision
  BY DEF UpdateLayerState, LayerVerdict, VerdictOnState, Committed
<1>3. q.layer \in Layer /\ old \in LayerRow /\ q.state \in LayerState
  BY <1>1, <1>2 DEF UpdateStateCall, Layers, LayersTyped
<1>4. /\ doc' = Advance(doc, doc.frozen)
      /\ source' = source
      /\ layer' = [layer EXCEPT ![q.layer] = row]
  BY <1>3 DEF UpdateLayerState, LayersTyped
<1>5. Grown(doc, doc')
  BY <1>2, <1>4, AdvanceGrows
<1>6. /\ row \in LayerRow /\ row.ordinal = old.ordinal /\ row.styles = old.styles
      /\ row.sources = old.sources /\ row.resources = old.resources
  BY <1>3 DEF LayerRow
<1>7. ValidBindings(row.sources, row.resources)
  BY <1>2, <1>6 DEF LayersReadable, LayerReadable
<1> HIDE DEF row
<1>8. /\ LayersTyped' /\ layer'[q.layer] = row
      /\ \A k \in Layers \ {q.layer} : layer'[k] = layer[k]
  BY <1>3, <1>4, <1>6, RowWritten
<1>9. LayersReadable' /\ Layers' = Layers
  BY <1>2, <1>4, <1>6, <1>7, RowUpdated
<1>10. ASSUME NEW l \in Layers
       PROVE  LayerRefs(l)'
  <2>1. Styles' = Styles /\ source' = source /\ LayerRefs(l)
    BY <1>4 DEF Styles
  <2>2. /\ layer'[l].sources = layer[l].sources
        /\ layer'[l].resources = layer[l].resources
        /\ layer'[l].styles = layer[l].styles
    BY <1>6, <1>8
  <2> QED
    BY <1>5, <2>1, <2>2, RefsKept
<1> QED
  BY <1>4, <1>5, <1>8, <1>9, <1>10

(* An order that is written keeps the bindings of every layer.             *)
LEMMA ReorderKeeps ==
  ASSUME ContentInv, NEW layers \in SUBSET Layers, NEW order, Numbers(order, layers),
         doc.revision # MaxRevision,
         layer' = Reordered(order, layers),
         doc' = Advance(doc, doc.frozen), source' = source, style' = style
  PROVE  Grown(doc, doc') /\ source' \subseteq Source /\ LayersInv'
<1> USE DEF ContentInv, LayersInv
<1>1. Grown(doc, doc')
  BY AdvanceGrows
<1>2. /\ LayersTyped' /\ Layers' = layers /\ LayersReadable'
      /\ \A l \in layers :
           /\ layer'[l].sources = layer[l].sources
           /\ layer'[l].resources = layer[l].resources
           /\ layer'[l].styles = layer[l].styles
  BY ReorderedReadable
<1>3. Styles' = Styles
  BY DEF Styles
<1>4. \A l \in layers : LayerRefs(l)'
  BY <1>1, <1>2, <1>3, RefsKept
<1> QED
  BY <1>1, <1>2, <1>4

LEMMA SetLayerOrderKeeps ==
  ASSUME ContentInv, NEW q \in ContentCall, SetLayerOrder(q), UNCHANGED style
  PROVE  /\ Grown(doc, doc') /\ source' \subseteq Source /\ LayersInv'
         /\ Numbers(q.order, Layers)
<1>1. q \in SetOrderCall
  BY RequestTypes DEF SetLayerOrder
<1>2. VerdictOnOrder(q) = "commit"
  BY DEF SetLayerOrder, LayerVerdict
<1>3. IsOrderOf(q.order, Layers) /\ doc.revision # MaxRevision
  BY <1>2 DEF VerdictOnOrder, Committed
<1>4. Numbers(q.order, Layers)
  <2> DEFINE order == q.order
  <2>1. order \in Seq(Layer) /\ Len(order) = Cardinality(Layers)
    BY <1>1, <1>3 DEF SetOrderCall, IsOrderOf
  <2>2. DOMAIN order = 1..Cardinality(Layers)
        /\ order = [i \in 1..Cardinality(Layers) |-> order[i]]
    BY <2>1
  <2>3. Layers = {order[i] : i \in 1..Cardinality(Layers)}
    BY <1>3, <2>2 DEF IsOrderOf
  <2> HIDE DEF order
  <2>4. order \in [1..Cardinality(Layers) -> Layers]
    BY <2>2, <2>3
  <2> QED
    BY <2>3, <2>4 DEF Numbers, order
<1> QED
  BY <1>3, <1>4, ReorderKeeps DEF SetLayerOrder

LEMMA RemoveLayerKeeps ==
  ASSUME ContentInv, NEW q \in ContentCall, RemoveLayer(q), UNCHANGED style
  PROVE  Grown(doc, doc') /\ source' \subseteq Source /\ LayersInv'
<1>1. doc.revision # MaxRevision
  BY DEF RemoveLayer, LayerVerdict, VerdictOnRemove, Committed
<1>2. Numbers(OrderOf(Layers \ {q.layer}), Layers \ {q.layer})
  BY OrderWithout DEF ContentInv, LayersInv
<1> QED
  BY <1>1, <1>2, ReorderKeeps DEF RemoveLayer, RowsWithout

LEMMA StoreSourceSnapshotKeeps ==
  ASSUME ContentInv, NEW q \in ContentCall, StoreSourceSnapshot(q), UNCHANGED style
  PROVE  Grown(doc, doc') /\ source' \subseteq Source /\ LayersInv'
<1> USE DEF ContentInv, LayersInv
<1>1. q.source \in Source
  BY RequestTypes DEF StoreSourceSnapshot, StoreSourceCall
<1>2. doc.revision # MaxRevision
  BY DEF StoreSourceSnapshot, LayerVerdict, VerdictOnSource, Committed
<1>3. /\ layer' = layer /\ source' = source \cup {q.source}
      /\ doc' = Advance(doc, doc.frozen)
  BY DEF StoreSourceSnapshot
<1>4. Grown(doc, doc')
  BY <1>2, <1>3, AdvanceGrows
<1>5. Styles' = Styles /\ Layers' = Layers /\ LayersTyped' /\ LayersReadable'
  BY <1>3 DEF Styles, Layers, LayersTyped, LayersReadable, LayerReadable
<1>6. \A l \in Layers : LayerRefs(l)'
  BY <1>3, <1>4, <1>5, RefsKept
<1> QED
  BY <1>1, <1>3, <1>4, <1>5, <1>6

(* The rows of a new stack.                                                *)
LEMMA InitializeLayerStackKeeps ==
  ASSUME ContentInv, NEW q \in ContentCall, InitializeLayerStack(q), UNCHANGED style
  PROVE  /\ Grown(doc, doc') /\ source' \subseteq Source /\ LayersInv'
         /\ q \in InitializeCall /\ Cardinality(Layers') = Len(q.requests)
         /\ \A i \in 1..Len(q.requests) :
              /\ q.requests[i].layer \in Layers'
              /\ layer'[q.requests[i].layer] = RowOf(q.requests[i], i - 1)
<1> USE DEF ContentInv, LayersInv
<1> DEFINE reqs == q.requests
           n == Len(reqs)
           Place(l) == CHOOSE j \in DOMAIN reqs : reqs[j].layer = l
<1>1. q \in InitializeCall
  BY RequestTypes DEF InitializeLayerStack
<1>2. reqs \in Seq(LayerCreateRequest) /\ DOMAIN reqs = 1..n /\ n \in Nat
  BY <1>1 DEF InitializeCall
<1>3. VerdictOnInitialize(q) = "commit"
  BY DEF InitializeLayerStack, LayerVerdict
<1>4. /\ ValidStack(reqs)
      /\ \A r \in RequestsOf(q) : TargetsExist(Bound(r.sources), Bound(r.resources))
      /\ doc.revision # MaxRevision
  BY <1>3 DEF VerdictOnInitialize, Committed
<1>5. /\ doc' = RequireStack(q) /\ source' = source
      /\ \A l \in Layer : layer'[l] = IF \E i \in DOMAIN reqs : reqs[i].layer = l
                                      THEN RowOf(reqs[Place(l)], Place(l) - 1) ELSE NoLayer
      /\ DOMAIN layer' = Layer /\ layer' = [l \in Layer |-> layer'[l]]
  BY DEF InitializeLayerStack
<1> HIDE DEF n
<1>6. ASSUME NEW i \in 1..n
      PROVE  /\ reqs[i] \in LayerCreateRequest /\ reqs[i] \in RequestsOf(q)
             /\ reqs[i].layer \in Layer
             /\ ValidBindings(reqs[i].sources, reqs[i].resources)
             /\ TargetsExist(Bound(reqs[i].sources), Bound(reqs[i].resources))
             /\ layer'[reqs[i].layer] = RowOf(reqs[i], i - 1)
             /\ RowOf(reqs[i], i - 1) \in LayerRow
  <2>1. reqs[i] \in LayerCreateRequest
    BY <1>2
  <2>2. reqs[i].layer \in Layer /\ reqs[i] \in RequestsOf(q)
    BY <1>2, <2>1 DEF LayerCreateRequest, RequestsOf
  <2>3. Place(reqs[i].layer) = i
    BY <1>2, <1>4 DEF ValidStack
  <2>4. layer'[reqs[i].layer] = RowOf(reqs[i], i - 1)
    <3> HIDE DEF Place
    <3> QED
      BY <1>2, <1>5, <2>2, <2>3
  <2>5. RowOf(reqs[i], i - 1) \in LayerRow
    <3>1. i - 1 \in Nat
      BY <1>2
    <3> QED
      BY <2>1, <3>1, BoundFacts DEF LayerCreateRequest, RowOf, LayerRow
  <2> QED
    BY <1>2, <1>4, <2>1, <2>2, <2>4, <2>5 DEF ValidStack
<1> HIDE DEF Place
<1>7. ASSUME NEW l \in Layer, ~\E i \in 1..n : reqs[i].layer = l
      PROVE  layer'[l] = NoLayer
  BY <1>2, <1>5, <1>7
<1>8. Layers' = {reqs[i].layer : i \in 1..n}
  BY <1>6, <1>7, LayerAssumption DEF Layers
<1>9. LayersTyped'
  BY <1>5, <1>6, <1>7 DEF LayersTyped
<1>10. Cardinality(Layers') = n
  <2> DEFINE f == [i \in 1..n |-> reqs[i].layer]
  <2>1. f \in Surjection(1..n, Layers')
    BY <1>8 DEF Surjection
  <2>2. f \in Injection(1..n, Layers')
    BY <1>2, <1>4, <1>8 DEF Injection, IsInjective, ValidStack
  <2>3. ExistsBijection(1..n, Layers')
    BY <2>1, <2>2 DEF ExistsBijection, Bijection
  <2> QED
    BY <1>2, <2>3, FS_CountingElements
<1>11. ASSUME NEW i \in 1..n
       PROVE  /\ layer'[reqs[i].layer].ordinal = i - 1
              /\ layer'[reqs[i].layer].sources = reqs[i].sources
              /\ layer'[reqs[i].layer].resources = reqs[i].resources
              /\ layer'[reqs[i].layer].styles = NoBindings
  <2>1. layer'[reqs[i].layer] = RowOf(reqs[i], i - 1)
    BY <1>6
  <2> QED
    BY <2>1 DEF RowOf
<1>12. LayersReadable'
  <2>1. {layer'[l].ordinal : l \in Layers'} = 0..n - 1
    <3>1. \A i \in 0..n - 1 : i + 1 \in 1..n /\ (i + 1) - 1 = i
      BY <1>2
    <3>2. \A l \in Layers' : layer'[l].ordinal \in 0..n - 1
      BY <1>2, <1>8, <1>11
    <3>3. ASSUME NEW i \in 0..n - 1
          PROVE  \E l \in Layers' : layer'[l].ordinal = i
      <4>1. i + 1 \in 1..n /\ (i + 1) - 1 = i
        BY <3>1
      <4>2. layer'[reqs[i + 1].layer].ordinal = i /\ reqs[i + 1].layer \in Layers'
        BY <1>8, <1>11, <4>1
      <4> QED
        BY <4>2
    <3> QED
      BY <3>2, <3>3
  <2>2. \A l \in Layers' : LayerReadable(l)'
    BY <1>6, <1>8, <1>11 DEF LayerReadable
  <2>3. n <= MaxLayers
    BY <1>4 DEF ValidStack, n
  <2> QED
    BY <1>10, <2>1, <2>2, <2>3 DEF LayersReadable
<1>13. BoundByStack(q) \in SUBSET Stored(doc)
  BY <1>4 DEF BoundByStack, TargetsExist
<1>14. Grown(doc, doc') /\ doc'.required = doc.required \cup BoundByStack(q)
  BY <1>4, <1>5, <1>13, RequireGrows DEF RequireStack
<1>15. ASSUME NEW l \in Layers'
       PROVE  LayerRefs(l)'
  <2>1. PICK i \in 1..n : l = reqs[i].layer
    BY <1>8
  <2>2. Bound(reqs[i].resources) \subseteq BoundByStack(q)
    BY <1>6 DEF BoundByStack
  <2>3. Bound(NoBindings) = {} /\ SlotsOf(NoBindings) = {}
    BY BoundFacts DEF SlotsOf, NoBindings
  <2>4. Cardinality({}) = 0 /\ MaxStyleSlots \in Nat
    BY FS_EmptySet, ContentAssumption
  <2>5. LayerStylesReadable(l)'
    <3>1. layer'[l].styles = NoBindings
      BY <1>11, <2>1
    <3>2. Cardinality(SlotsOf(NoBindings)) <= MaxStyleSlots
      BY <2>3, <2>4
    <3> QED
      BY <2>3, <3>1, <3>2 DEF LayerStylesReadable, ValidLayerStyles
  <2> QED
    BY <1>5, <1>6, <1>11, <1>14, <2>1, <2>2, <2>5 DEF LayerRefs, TargetsExist
<1>16. \A i \in 1..n : reqs[i].layer \in Layers' /\ layer'[reqs[i].layer] = RowOf(reqs[i], i - 1)
  BY <1>6, <1>8
<1> QED
  BY <1>1, <1>5, <1>9, <1>10, <1>12, <1>14, <1>15, <1>16 DEF n

-----------------------------------------------------------------------------
(* The mutations of styles keep it.                                        *)
LEMMA StyleCalls ==
  ASSUME NEW q \in ContentCall
  PROVE  /\ SetStyle(q) => q \in SetStyleCall /\ VerdictOnSetStyle(q) = "commit"
         /\ RemoveStyle(q) => q \in RemoveStyleCall /\ VerdictOnRemoveStyle(q) = "commit"
         /\ SetLayerStyleBindings(q) =>
              q \in SetLayerStylesCall /\ VerdictOnLayerStyles(q) = "commit"
<1>1. q.op \in {"set_style", "remove_style", "set_layer_style_bindings"} =>
        q \notin MutationType
  BY RequestTypes
<1>2. SetStyle(q) => q \in SetStyleCall /\ VerdictOnSetStyle(q) = "commit"
  BY <1>1, RequestTypes DEF SetStyle, ContentVerdict
<1>3. RemoveStyle(q) => q \in RemoveStyleCall /\ VerdictOnRemoveStyle(q) = "commit"
  BY <1>1, RequestTypes DEF RemoveStyle, ContentVerdict
<1>4. SetLayerStyleBindings(q) =>
        q \in SetLayerStylesCall /\ VerdictOnLayerStyles(q) = "commit"
  BY <1>1, RequestTypes DEF SetLayerStyleBindings, ContentVerdict
<1> QED
  BY <1>2, <1>3, <1>4

LEMMA StyleCounts == IsFiniteSet(Styles) /\ Cardinality(Styles) \in Nat
<1>1. Styles \in SUBSET Style
  BY DEF Styles
<1> QED
  BY <1>1, ContentAssumption, FS_Subset, FS_CardinalityType

(* Layers that are left alone.                                             *)
LEMMA LayersUntouched ==
  ASSUME LayersInv, source \subseteq Source, layer' = layer, source' = source,
         Grown(doc, doc'),
         \A l \in Layers : Bound(layer[l].styles) \subseteq Styles'
  PROVE  source' \subseteq Source /\ LayersInv'
<1>1. Layers' = Layers /\ LayersTyped' /\ LayersReadable'
  BY DEF LayersInv, Layers, LayersTyped, LayersReadable, LayerReadable
<1>2. \A l \in Layers : LayerRefs(l)'
  BY DEF LayersInv, LayerRefs, LayerStylesReadable, ValidLayerStyles, Grown
<1> QED
  BY <1>1, <1>2 DEF LayersInv

LEMMA StylesUntouched ==
  ASSUME StylesInv, style' = style, Grown(doc, doc')
  PROVE  StylesInv' /\ Styles' = Styles
<1>1. Styles' = Styles /\ StylesTyped'
  BY DEF StylesInv, Styles, StylesTyped
<1>2. Ranked'
  BY <1>1 DEF StylesInv, Ranked, Ranks
<1>3. \A s \in Styles : StyleRefs(s)'
  BY DEF StylesInv, StyleRefs, ValidStyle, Grown
<1> QED
  BY <1>1, <1>2, <1>3 DEF StylesInv

LEMMA SetStyleKeeps ==
  ASSUME ContentInv, NEW q \in ContentCall, SetStyle(q)
  PROVE  /\ Grown(doc, doc') /\ source' \subseteq Source
         /\ LayersInv' /\ StylesInv'
         /\ Styles' = Styles \cup {q.style} /\ style'[q.style] = q.row
         /\ Stored(doc') = Stored(doc)
<1> USE DEF ContentInv
<1>1. q.style \in Style /\ q.row \in StyleRow
  BY StyleCalls DEF SetStyleCall
<1>2. VerdictOnSetStyle(q) = "commit"
  BY StyleCalls
<1>3. /\ ValidStyle(q.style, q.row)
      /\ VerdictOnChain(q.style, q.row.parent) = "ok"
      /\ q.style \in Styles \/ Cardinality(Styles) < MaxStyles
      /\ Bound(q.row.resources) \in SUBSET Stored(doc)
      /\ doc.revision # MaxRevision
  <2>1. VerdictOnChain(q.style, q.row.parent) \in
          {"invalid_argument", "ok", "record_not_found"}
    BY DEF VerdictOnChain
  <2> QED
    BY <1>2, <2>1, StyleCounts, ContentAssumption DEF VerdictOnSetStyle, Committed
<1>4. /\ style' = Rewritten(q.style, q.row)
      /\ layer' = layer /\ source' = source
  BY DEF SetStyle
<1>5. /\ Grown(doc, doc')
      /\ doc'.required = doc.required \cup Bound(q.row.resources)
      /\ Stored(doc') = Stored(doc)
  <2>1. doc' = [Advance(doc, IF ExternalRequired(Bound(q.row.resources))
                             THEN FALSE ELSE doc.frozen)
                  EXCEPT !.required = doc.required \cup Bound(q.row.resources)]
    BY DEF SetStyle, AdvanceStyle, PromotedForStyle
  <2> QED
    BY <1>3, <2>1, RequireGrows
<1>6. StylesTyped' /\ Ranked' /\ Styles' = Styles \cup {q.style}
  BY <1>1, <1>3, <1>4, SetStyleRanked DEF StylesInv
<1>7. source' \subseteq Source /\ LayersInv'
  <2>1. \A l \in Layers : Bound(layer[l].styles) \subseteq Styles'
    BY <1>6 DEF LayersInv, LayerRefs, LayerStylesReadable
  <2> QED
    BY <1>4, <1>5, <2>1, LayersUntouched
<1>8. Cardinality(Styles') <= MaxStyles
  <2>1. Cardinality(Styles') =
          IF q.style \in Styles THEN Cardinality(Styles) ELSE Cardinality(Styles) + 1
    BY <1>6, StyleCounts, FS_AddElement
  <2> QED
    BY <1>3, <2>1, StyleCounts, ContentAssumption DEF StylesInv
<1>9. \A s \in Style : style'[s] = IF s = q.style THEN q.row ELSE style[s]
  BY <1>4 DEF StylesInv, StylesTyped, Rewritten
<1>10. ASSUME NEW s \in Styles'
       PROVE  StyleRefs(s)'
  <2>1. CASE s = q.style
    <3>1. style'[s] = q.row
      BY <1>1, <1>9, <2>1
    <3> QED
      BY <1>3, <1>5, <2>1, <3>1 DEF StyleRefs, ValidStyle
  <2>2. CASE s # q.style
    <3>1. s \in Styles /\ style'[s] = style[s]
      BY <1>6, <1>9, <2>2 DEF Styles
    <3> QED
      BY <1>5, <3>1 DEF StylesInv, StyleRefs, ValidStyle
  <2> QED
    BY <2>1, <2>2
<1> QED
  BY <1>1, <1>5, <1>6, <1>7, <1>8, <1>9, <1>10 DEF StylesInv

LEMMA RemoveStyleKeeps ==
  ASSUME ContentInv, NEW q \in ContentCall, RemoveStyle(q)
  PROVE  /\ Grown(doc, doc') /\ source' \subseteq Source
         /\ LayersInv' /\ StylesInv'
         /\ Styles' = Styles \ {q.style}
<1> USE DEF ContentInv
<1>1. VerdictOnRemoveStyle(q) = "commit" /\ q.style \in Style
  BY StyleCalls DEF RemoveStyleCall
<1>2. /\ Children(q.style) = {} /\ LayersWith(q.style) = {}
      /\ doc.revision # MaxRevision
  BY <1>1 DEF VerdictOnRemoveStyle, Committed
<1>3. /\ style' = [style EXCEPT ![q.style] = NoStyle]
      /\ layer' = layer /\ source' = source
      /\ doc' = AdvanceStyle(FALSE)
  BY DEF RemoveStyle
<1>4. AdvanceStyle(FALSE) = Advance(doc, doc.frozen)
  BY DEF AdvanceStyle
<1>5. Grown(doc, doc') /\ doc'.required = doc.required
  BY <1>2, <1>3, <1>4, AdvanceGrows
<1>6. StylesTyped' /\ Ranked' /\ Styles' = Styles \ {q.style}
  BY <1>1, <1>2, <1>3, RemoveStyleRanked DEF StylesInv
<1>7. source' \subseteq Source /\ LayersInv'
  <2>1. \A l \in Layers : Bound(layer[l].styles) \subseteq Styles'
    BY <1>2, <1>6 DEF LayersInv, LayerRefs, LayerStylesReadable, LayersWith
  <2> QED
    BY <1>3, <1>5, <2>1, LayersUntouched
<1>8. Cardinality(Styles') <= MaxStyles
  <2>1. Styles' \in SUBSET Styles
    BY <1>6
  <2>2. Cardinality(Styles') <= Cardinality(Styles) /\ Cardinality(Styles') \in Nat
    BY <2>1, StyleCounts, FS_Subset, FS_CardinalityType
  <2> QED
    BY <2>2, StyleCounts, ContentAssumption DEF StylesInv
<1>9. ASSUME NEW s \in Styles'
      PROVE  StyleRefs(s)'
  <2>1. s \in Styles /\ style'[s] = style[s]
    BY <1>3, <1>6 DEF Styles, StylesInv, StylesTyped
  <2> QED
    BY <1>5, <2>1 DEF StylesInv, StyleRefs, ValidStyle
<1> QED
  BY <1>5, <1>6, <1>7, <1>8, <1>9 DEF StylesInv

LEMMA SetLayerStyleBindingsKeeps ==
  ASSUME ContentInv, NEW q \in ContentCall, SetLayerStyleBindings(q)
  PROVE  /\ Grown(doc, doc') /\ source' \subseteq Source
         /\ LayersInv' /\ StylesInv'
         /\ Layers' = Layers /\ layer'[q.layer].styles = q.styles
<1> USE DEF ContentInv, LayersInv
<1> DEFINE old == layer[q.layer]
           row == [old EXCEPT !.styles = q.styles]
<1>1. VerdictOnLayerStyles(q) = "commit" /\ q.styles \in Bindings(Style)
  BY StyleCalls DEF SetLayerStylesCall
<1>2. /\ q.layer \in Layers
      /\ ValidLayerStyles(q.styles)
      /\ Bound(q.styles) \subseteq Styles
      /\ doc.revision # MaxRevision
  BY <1>1 DEF VerdictOnLayerStyles, Committed
<1>3. q.layer \in Layer /\ old \in LayerRow
  BY <1>2 DEF Layers, LayersTyped
<1>4. /\ source' = source /\ style' = style
      /\ doc' = AdvanceStyle(FALSE)
      /\ layer' = [layer EXCEPT ![q.layer] = row]
  BY <1>3 DEF SetLayerStyleBindings, LayersTyped
<1>5. Grown(doc, doc')
  <2>1. AdvanceStyle(FALSE) = Advance(doc, doc.frozen)
    BY DEF AdvanceStyle
  <2> QED
    BY <1>2, <1>4, <2>1, AdvanceGrows
<1>6. /\ row \in LayerRow /\ row.ordinal = old.ordinal /\ row.styles = q.styles
      /\ row.sources = old.sources /\ row.resources = old.resources
  BY <1>1, <1>3 DEF LayerRow
<1>7. ValidBindings(row.sources, row.resources)
  BY <1>2, <1>6 DEF LayersReadable, LayerReadable
<1> HIDE DEF row
<1>8. /\ LayersTyped' /\ layer'[q.layer] = row
      /\ \A k \in Layers \ {q.layer} : layer'[k] = layer[k]
  BY <1>3, <1>4, <1>6, RowWritten
<1>9. LayersReadable' /\ Layers' = Layers
  BY <1>2, <1>4, <1>6, <1>7, RowUpdated
<1>10. StylesInv' /\ Styles' = Styles
  BY <1>4, <1>5, StylesUntouched
<1>11. ASSUME NEW l \in Layers
       PROVE  LayerRefs(l)'
  <2>1. CASE l = q.layer
    <3>1. LayerStylesReadable(l)'
      BY <1>2, <1>6, <1>8, <1>10, <2>1 DEF LayerStylesReadable, ValidLayerStyles
    <3> QED
      BY <1>4, <1>5, <1>6, <1>8, <2>1, <3>1 DEF LayerRefs, Grown
  <2>2. CASE l # q.layer
    <3>1. layer'[l] = layer[l]
      BY <1>8, <2>2
    <3> QED
      BY <1>4, <1>5, <1>10, <3>1, RefsKept
  <2> QED
    BY <2>1, <2>2
<1> QED
  BY <1>4, <1>5, <1>6, <1>8, <1>9, <1>10, <1>11

-----------------------------------------------------------------------------
(* Every step keeps the invariant and is one revision of the document.     *)
LEMMA StepKeeps ==
  ASSUME ContentInv, ContentNext
  PROVE  ContentInv' /\ Grown(doc, doc')
<1>1. PICK q \in ContentCall :
        \/ MutateDocument(q)
        \/ LayerStep(q) /\ UNCHANGED style
        \/ SetStyle(q) \/ RemoveStyle(q) \/ SetLayerStyleBindings(q)
  BY DEF ContentNext
<1>2. CASE MutateDocument(q)
  <2>1. Grown(doc, doc') /\ layer' = layer /\ source' = source /\ style' = style
    BY <1>2, MutationGrows DEF MutateDocument, Mutate, ContentInv
  <2>2. StylesInv' /\ Styles' = Styles
    BY <2>1, StylesUntouched DEF ContentInv
  <2>3. \A l \in Layers : Bound(layer[l].styles) \subseteq Styles'
    BY <2>2 DEF ContentInv, LayersInv, LayerRefs, LayerStylesReadable
  <2>4. source' \subseteq Source /\ LayersInv'
    BY <2>1, <2>3, LayersUntouched DEF ContentInv
  <2> QED
    BY <2>1, <2>2, <2>4 DEF ContentInv, Grown
<1>3. CASE LayerStep(q) /\ UNCHANGED style
  <2>1. Grown(doc, doc') /\ source' \subseteq Source /\ LayersInv'
    BY <1>3, AppendLayerKeeps, AppendLayerBindingsKeeps, UpdateLayerStateKeeps,
       SetLayerOrderKeeps, RemoveLayerKeeps, InitializeLayerStackKeeps,
       StoreSourceSnapshotKeeps DEF LayerStep
  <2>2. StylesInv'
    BY <1>3, <2>1, StylesUntouched DEF ContentInv
  <2> QED
    BY <2>1, <2>2 DEF ContentInv, Grown
<1>4. CASE SetStyle(q)
  BY <1>4, SetStyleKeeps DEF ContentInv, Grown
<1>5. CASE RemoveStyle(q)
  BY <1>5, RemoveStyleKeeps DEF ContentInv, Grown
<1>6. CASE SetLayerStyleBindings(q)
  BY <1>6, SetLayerStyleBindingsKeeps DEF ContentInv, Grown
<1> QED
  BY <1>1, <1>2, <1>3, <1>4, <1>5, <1>6

-----------------------------------------------------------------------------
(* The theorems.                                                           *)

(* The invariant holds of every project any mutations produce.             *)
THEOREM ContentSafety == ContentSpec => []ContentInv
<1>1. ContentInit => ContentInv
  <2> SUFFICES ASSUME ContentInit PROVE ContentInv
    OBVIOUS
  <2>1. WellFormed(doc)
    BY NewDocumentWellFormed DEF ContentInit, LayerInit, DocumentInit
  <2>2. Layers = {} /\ Styles = {} /\ source = {}
    BY DEF ContentInit, LayerInit, Layers, Styles
  <2>3. LayersTyped /\ StylesTyped
    BY DEF ContentInit, LayerInit, LayersTyped, StylesTyped
  <2>4. Cardinality({}) = 0
    BY FS_EmptySet
  <2>5. LayersReadable
    BY <2>2, <2>4, LayerAssumption DEF LayersReadable
  <2>6. Ranked
    <3>1. Ranks([s \in Style |-> 0])
      BY <2>2 DEF Ranks
    <3> QED
      BY <3>1 DEF Ranked
  <2> QED
    BY <2>1, <2>2, <2>3, <2>4, <2>5, <2>6, ContentAssumption
    DEF ContentInv, LayersInv, StylesInv
<1>2. ContentInv /\ [ContentNext]_contentVars => ContentInv'
  <2> SUFFICES ASSUME ContentInv, [ContentNext]_contentVars PROVE ContentInv'
    OBVIOUS
  <2>1. CASE ContentNext
    BY <2>1, StepKeeps
  <2>2. CASE UNCHANGED contentVars
    <3>1. /\ doc' = doc /\ layer' = layer /\ source' = source /\ style' = style
      BY <2>2 DEF contentVars
    <3>2. Layers' = Layers /\ Styles' = Styles
      BY <3>1 DEF Layers, Styles
    <3>3. LayersInv'
      BY <3>1, <3>2 DEF ContentInv, LayersInv, LayersTyped, LayersReadable, LayerReadable,
        LayerRefs, LayerStylesReadable, ValidLayerStyles
    <3>4. StylesInv'
      BY <3>1, <3>2 DEF ContentInv, StylesInv, StylesTyped, Ranked, Ranks, StyleRefs, ValidStyle
    <3> QED
      BY <3>1, <3>3, <3>4 DEF ContentInv
  <2> QED
    BY <2>1, <2>2
<1> QED
  BY <1>1, <1>2, PTL DEF ContentSpec

(* The rows of the project keep their types.                               *)
THEOREM ContentTyping == ContentSpec => []ContentTypeOK
<1>1. ContentInv => ContentTypeOK
  BY DEF ContentInv, ContentTypeOK, WellFormed, DocumentTypeOK, LayersInv, LayersTyped,
    LayerTypeOK, StylesInv, StylesTyped
<1> QED
  BY <1>1, ContentSafety, PTL

(* rewrite_order can write any order of the layers, at any time.           *)
THEOREM ReordersSucceed == ContentSpec => []ReorderSucceeds
<1>1. ContentInv => ReorderSucceeds
  BY ReorderWorks DEF ContentInv, LayersInv
<1> QED
  BY <1>1, ContentSafety, PTL

(* No sequence of set_style and remove_style makes a cycle of inheritance  *)
(* or leaves a style without its parent.                                   *)
THEOREM InheritanceIsForest == ContentSpec => []StyleForest
<1>1. ContentInv => StyleForest
  BY RankedIsForest DEF ContentInv, StylesInv
<1> QED
  BY <1>1, ContentSafety, PTL

(* Every loader and every audit accepts what any mutations have written.   *)
THEOREM ProjectsAreReadable == ContentSpec => []ReadersAccept
<1>1. ContentInv => ReadersAccept
  <2> SUFFICES ASSUME ContentInv PROVE ReadersAccept
    OBVIOUS
  <2> USE DEF ContentInv, LayersInv, StylesInv
  <2>1. doc.required \subseteq Stored(doc)
    BY DEF WellFormed
  <2>2. \A s \in Styles : StyleReadable(s)
    BY <2>1 DEF StyleRefs, StyleReadable, BindingsRequired
  <2>3. StyleForest
    BY RankedIsForest
  <2>4. \A s \in Styles : VerdictOnChain(s, style[s].parent) = "ok"
    BY <2>3 DEF StyleForest, VerdictOnChain
  <2>5. \A l \in Layers : /\ Bound(layer[l].sources) \subseteq source
                          /\ BindingsRequired(Bound(layer[l].resources))
                          /\ LayerStylesReadable(l)
    BY <2>1 DEF LayerRefs, BindingsRequired
  <2> QED
    BY <2>2, <2>4, <2>5 DEF ReadersAccept, StyleSemantics, StylesReadable
<1> QED
  BY <1>1, ContentSafety, PTL

(* A frozen project has the bytes of everything that is bound in it,       *)
(* because what is bound is required and what is required is embedded.     *)
THEOREM FrozenIsReproducible == ContentSpec => []FrozenReproducible
<1>1. ContentInv => FrozenReproducible
  BY DEF ContentInv, LayersInv, LayerRefs, StylesInv, StyleRefs, WellFormed,
    FrozenClaimHolds, FrozenReproducible
<1> QED
  BY <1>1, ContentSafety, PTL

(* A frozen project has the bytes of every required resource, among all    *)
(* mutations of layers and styles too.                                     *)
THEOREM ContentKeepsFrozenClaim == ContentSpec => []FrozenClaim
<1>1. ContentInv => FrozenClaim
  BY DEF ContentInv, WellFormed, FrozenClaim
<1> QED
  BY <1>1, ContentSafety, PTL

(* Mutations of layers and styles leave both copies of the projection      *)
(* equal.                                                                  *)
THEOREM ContentKeepsProjection == ContentSpec => []ProjectionSynchronized
<1>1. ContentInv => ProjectionSynchronized
  BY DEF ContentInv, WellFormed, ProjectionSynchronized
<1> QED
  BY <1>1, ContentSafety, PTL

(* Whatever of a project changes, it is one revision.                      *)
THEOREM OneRevisionPerContentMutation == ContentSpec => RevisionPerContentMutation
<1>1. ContentInv /\ [ContentNext]_contentVars =>
        [doc'.revision = doc.revision + 1]_<<doc, layer, source, style>>
  <2> SUFFICES ASSUME ContentInv, [ContentNext]_contentVars
               PROVE  [doc'.revision = doc.revision + 1]_<<doc, layer, source, style>>
    OBVIOUS
  <2>1. CASE ContentNext
    BY <2>1, StepKeeps DEF Grown
  <2>2. CASE UNCHANGED contentVars
    BY <2>2 DEF contentVars
  <2> QED
    BY <2>1, <2>2
<1> QED
  BY <1>1, ContentSafety, PTL DEF ContentSpec, RevisionPerContentMutation

(* Layers and styles too thaw a project only by requiring an external      *)
(* resource that nothing required before.                                  *)
THEOREM ContentThaws == ContentSpec => ThawOnlyByExternalRequirement
<1> DEFINE Thaw == doc.frozen /\ ~doc'.frozen =>
             \E r \in doc'.required : r \notin doc.required \cup doc'.embedded
<1>1. ContentInv /\ [ContentNext]_contentVars => [Thaw]_doc
  <2> SUFFICES ASSUME ContentInv, [ContentNext]_contentVars
               PROVE  [Thaw]_doc
    OBVIOUS
  <2>1. CASE ContentNext
    BY <2>1, StepKeeps DEF Grown, ThawFits
  <2>2. CASE UNCHANGED contentVars
    BY <2>2 DEF contentVars
  <2> QED
    BY <2>1, <2>2
<1> QED
  BY <1>1, ContentSafety, PTL DEF ContentSpec, ThawOnlyByExternalRequirement

-----------------------------------------------------------------------------
(* Exact retries.                                                          *)

(* Only one order ascends: the one that has the ordinals as its places.    *)
LEMMA AscendingIsOrdinal ==
  ASSUME LayersTyped, LayersReadable,
         NEW order \in [1..Cardinality(Layers) -> Layers],
         Ascends(order, Cardinality(Layers))
  PROVE  \A i \in 1..Cardinality(Layers) : layer[order[i]].ordinal = i - 1
<1> DEFINE n == Cardinality(Layers)
           at == [i \in 1..n |-> layer[order[i]].ordinal]
<1>1. n \in Nat
  BY LayerCount
<1>2. \A i \in 1..n : at[i] \in 0..n - 1
  BY OrdinalsAreDense
<1>3. \A i, j \in 1..n : i < j => at[i] < at[j]
  BY DEF Ascends
<1> HIDE DEF n, at
<1>4. \A i \in 1..n : at[i] >= i - 1
  <2> DEFINE T == {i \in 1..n : ~(at[i] >= i - 1)}
  <2> SUFFICES ASSUME T # {} PROVE FALSE
    OBVIOUS
  <2>1. T \subseteq Nat
    BY <1>1
  <2>2. PICK m \in T : \A k \in T : m <= k
    <3> HIDE DEF T
    <3> QED
      BY <2>1, LeastNumber
  <2>3. m \in 1..n /\ at[m] \in 0..n - 1 /\ at[m] < m - 1
    BY <1>1, <1>2
  <2>4. m - 1 \in 1..n /\ m - 1 \notin T
    BY <1>1, <2>2, <2>3
  <2>5. at[m - 1] >= (m - 1) - 1 /\ at[m - 1] < at[m] /\ at[m - 1] \in 0..n - 1
    BY <1>2, <1>3, <2>3, <2>4
  <2> QED
    BY <1>1, <2>3, <2>5
<1>5. \A i \in 1..n : at[i] <= i - 1
  <2> DEFINE T == {n - i : i \in {j \in 1..n : ~(at[j] <= j - 1)}}
  <2> SUFFICES ASSUME T # {} PROVE FALSE
    OBVIOUS
  <2>1. T \subseteq Nat
    BY <1>1
  <2>2. PICK d \in T : \A k \in T : d <= k
    <3> HIDE DEF T
    <3> QED
      BY <2>1, LeastNumber
  <2>3. PICK m \in 1..n : d = n - m /\ ~(at[m] <= m - 1)
    OBVIOUS
  <2>4. at[m] \in 0..n - 1 /\ at[m] > m - 1 /\ m # n
    BY <1>1, <1>2, <2>3
  <2>5. m + 1 \in 1..n
    BY <1>1, <2>3, <2>4
  <2>6. at[m + 1] <= (m + 1) - 1
    <3>1. n - (m + 1) < d /\ n - (m + 1) \in Nat /\ d \in Nat
      BY <1>1, <2>3, <2>5
    <3>2. n - (m + 1) \notin T
      <4> HIDE DEF T
      <4> QED
        BY <2>2, <3>1
    <3> QED
      BY <2>5, <3>2
  <2>7. at[m] < at[m + 1] /\ at[m + 1] \in 0..n - 1
    BY <1>2, <1>3, <2>3, <2>5
  <2> QED
    BY <1>1, <2>3, <2>4, <2>6, <2>7
<1>6. \A i \in 1..n : at[i] = i - 1
  BY <1>1, <1>2, <1>4, <1>5
<1> QED
  BY <1>6 DEF n, at

(* What load_layers returns when the rows are in a known order.            *)
LEMMA OrderIsKnown ==
  ASSUME LayersTyped, LayersReadable,
         NEW order \in [1..Cardinality(Layers) -> Layers],
         \A i \in 1..Cardinality(Layers) : layer[order[i]].ordinal = i - 1
  PROVE  OrderOf(Layers) = order
<1> DEFINE n == Cardinality(Layers)
           Sorted(o) == \A i, j \in DOMAIN o :
                          i < j => layer[o[i]].ordinal < layer[o[j]].ordinal
<1>1. n \in Nat
  BY LayerCount
<1>2. Sorted(order)
  <2> HIDE DEF n
  <2> QED
    BY <1>1 DEF n
<1>3. OrderOf(Layers) \in [1..n -> Layers] /\ Sorted(OrderOf(Layers))
  BY <1>2 DEF OrderOf
<1>4. Ascends(OrderOf(Layers), n)
  BY <1>3 DEF Ascends
<1>5. \A i \in 1..n : layer[OrderOf(Layers)[i]].ordinal = i - 1
  BY <1>3, <1>4, AscendingIsOrdinal
<1>6. \A k, l \in Layers : layer[k].ordinal = layer[l].ordinal => k = l
  BY OrdinalsAreDense
<1>7. ASSUME NEW i \in 1..n
      PROVE  OrderOf(Layers)[i] = order[i]
  <2>1. OrderOf(Layers)[i] \in Layers /\ order[i] \in Layers
    BY <1>3
  <2> QED
    BY <1>5, <1>6, <2>1
<1>8. OrderOf(Layers) \in [1..n -> Layers] /\ order \in [1..n -> Layers]
  BY <1>3
<1> QED
  <2> HIDE DEF n
  <2>1. ASSUME NEW S, NEW f \in [1..n -> S], NEW g \in [1..n -> S],
               \A i \in 1..n : f[i] = g[i]
        PROVE  f = g
    <3>1. f = [i \in 1..n |-> f[i]] /\ g = [i \in 1..n |-> g[i]]
      OBVIOUS
    <3>2. [i \in 1..n |-> f[i]] = [i \in 1..n |-> g[i]]
      BY <2>1
    <3> QED
      BY <3>1, <3>2, Zenon
  <2> QED
    BY <1>7, <1>8, <2>1

(* What a request leaves behind, by which it is recognised.                *)
RowIs(request, l) ==
  /\ l \in Layers
  /\ ValidBindings(request.sources, request.resources)
  /\ layer[l] = RowOf(request, layer[l].ordinal)

BindingsIncluded(old, new) ==
  \A slot \in Slot : new[slot] # Unbound => old[slot] = new[slot]

InEffect(q) ==
  /\ q \in MutationType => Verdict(doc, q) = "retry"
  /\ q.op = "append_layer" => RowIs(q.request, q.request.layer)
  /\ q.op = "append_layer_bindings" =>
       /\ q.layer \in Layers
       /\ Bound(q.sources) \cup Bound(q.resources) # {}
       /\ ValidBindings(q.sources, q.resources)
       /\ BindingsIncluded(layer[q.layer].sources, q.sources)
       /\ BindingsIncluded(layer[q.layer].resources, q.resources)
  /\ q.op = "update_layer_state" => q.layer \in Layers /\ layer[q.layer].state = q.state
  /\ q.op = "set_layer_order" =>
       /\ Numbers(q.order, Layers)
       /\ \A i \in 1..Cardinality(Layers) : layer[q.order[i]].ordinal = i - 1
  /\ q.op = "initialize_layer_stack" =>
       /\ ValidStack(q.requests)
       /\ Cardinality(Layers) = Len(q.requests)
       /\ \A i \in 1..Len(q.requests) :
            /\ q.requests[i].layer \in Layers
            /\ layer[q.requests[i].layer] = RowOf(q.requests[i], i - 1)
  /\ q.op = "store_source_snapshot" => q.source \in source
  /\ q.op = "set_style" =>
       q.style \in Styles /\ style[q.style] = q.row
  /\ q.op = "remove_style" => q.style \notin Styles
  /\ q.op = "set_layer_style_bindings" =>
       /\ q.layer \in Layers
       /\ layer[q.layer].styles = q.styles

RetryInv ==
  last # NoCall =>
    /\ last \in ContentCall
    /\ last.op \notin {"update_metadata", "remove_layer"} => InEffect(last)

(* A mutation of the document is in effect once it is written.             *)
LEMMA MutationInEffect ==
  ASSUME NEW d, WellFormed(d), NEW q \in MutationType, Verdict(d, q) = "commit",
         q.op # "update_metadata"
  PROVE  Verdict(Written(d, q), q) = "retry"
<1> DEFINE e == Written(d, q)
<1>1. CASE q \in ProjectionChange
  <2>1. e.projection_id = q.projection.model /\ e.projection = q.projection
    BY <1>1 DEF ProjectionChange, Written, SetProjectProjection, Advance, WellFormed, Document
  <2> HIDE DEF e
  <2> QED
    BY <1>1, <2>1 DEF ProjectionChange, Verdict, VerdictOnProjection, e
<1>2. CASE q \in Freeze
  <2>1. VerdictOnFreeze(d) = "commit"
    BY <1>2 DEF Freeze, Verdict
  <2>2. e.frozen /\ e.required = d.required /\ e.embedded = d.embedded
    BY <1>2 DEF Freeze, Written, FreezeProject, Advance, WellFormed, Document
  <2> HIDE DEF e
  <2>3. VerdictOnFreeze(e) = "retry"
    BY <2>1, <2>2 DEF VerdictOnFreeze
  <2> QED
    BY <1>2, <2>3 DEF Freeze, Verdict, e
<1>3. CASE q \in ExternalResource \cup EmbeddedResource
  <2>1. /\ e.identity = [d.identity EXCEPT ![q.resource] = q.identity]
        /\ e.required = Promote(d, q)
        /\ e.embedded = IF q.op = "embed_resource_file"
                        THEN d.embedded \cup {q.resource} ELSE d.embedded
    BY <1>3 DEF ExternalResource, EmbeddedResource, Written, StoreExternalResource,
      EmbedResourceFile, Advance, WellFormed, Document
  <2>2. /\ q.resource \in Resource
        /\ q.op \in {"store_external_resource", "embed_resource_file"}
    BY <1>3 DEF ExternalResource, EmbeddedResource
  <2>3. e.identity[q.resource] = q.identity /\ (q.required => q.resource \in e.required)
    BY <2>1, <2>2 DEF WellFormed, Document, Promote
  <2> HIDE DEF e
  <2>4. SameContent(e, q) /\ RowHas(e, q)
    BY <2>3 DEF SameContent, RowHas
  <2>5. q.op = "embed_resource_file" => q.resource \in e.embedded
    BY <2>1
  <2>6. VerdictOnResource(e, q) = "retry"
    BY <2>4, <2>5 DEF VerdictOnResource
  <2> QED
    BY <2>2, <2>6 DEF Verdict, e
<1>4. q \notin MetadataUpdate
  BY DEF MetadataUpdate
<1> QED
  BY <1>1, <1>2, <1>3, <1>4 DEF MutationType

LEMMA AppendInEffect ==
  ASSUME ContentInv, NEW q \in ContentCall, AppendLayer(q), UNCHANGED style
  PROVE  InEffect(q)'
<1> USE DEF ContentInv, LayersInv
<1> DEFINE r == q.request
           row == RowOf(r, Cardinality(Layers))
<1>1. r \in LayerCreateRequest /\ q.op = "append_layer" /\ q \notin MutationType
  BY RequestTypes DEF AppendLayer, AppendLayerCall
<1>2. VerdictOnAppend(r) = "commit"
  BY DEF AppendLayer, LayerVerdict
<1>3. ValidBindings(r.sources, r.resources)
  BY <1>2 DEF VerdictOnAppend
<1>4. r.layer \in Layer /\ row \in LayerRow /\ row.ordinal = Cardinality(Layers)
  BY <1>1, LayerCount, BoundFacts DEF LayerCreateRequest, RowOf, LayerRow
<1>5. layer' = [layer EXCEPT ![r.layer] = row]
  BY DEF AppendLayer
<1>6. r.layer \in Layers' /\ layer'[r.layer] = row
  BY <1>4, <1>5, RowWritten
<1>7. RowIs(r, r.layer)'
  BY <1>3, <1>4, <1>6 DEF RowIs
<1> QED
  BY <1>1, <1>7 DEF InEffect

LEMMA AppendBindingsInEffect ==
  ASSUME ContentInv, NEW q \in ContentCall, AppendLayerBindings(q), UNCHANGED style
  PROVE  InEffect(q)'
<1> USE DEF ContentInv, LayersInv
<1> DEFINE old == layer[q.layer]
<1>1. q \in AppendBindingsCall /\ q.op = "append_layer_bindings" /\ q \notin MutationType
  BY RequestTypes DEF AppendLayerBindings
<1>2. VerdictOnBindings(q) = "commit"
  BY DEF AppendLayerBindings, LayerVerdict
<1>3. /\ q.layer \in Layers
      /\ Bound(q.sources) \cup Bound(q.resources) # {}
      /\ ValidBindings(q.sources, q.resources)
      /\ ~SlotsConflict(old.sources, q.sources)
      /\ ~SlotsConflict(old.resources, q.resources)
  BY <1>2 DEF VerdictOnBindings
<1>4. q.layer \in Layer /\ old \in LayerRow
  BY <1>3 DEF Layers, LayersTyped
<1>5. /\ layer'[q.layer].sources = Merged(old.sources, q.sources)
      /\ layer'[q.layer].resources = Merged(old.resources, q.resources)
  <2> DEFINE sources == Merged(old.sources, q.sources)
             resources == Merged(old.resources, q.resources)
  <2>1. layer' = [layer EXCEPT ![q.layer].sources = sources,
                               ![q.layer].resources = resources]
    BY DEF AppendLayerBindings
  <2> HIDE DEF sources, resources
  <2>2. layer'[q.layer].sources = sources /\ layer'[q.layer].resources = resources
    BY <1>4, <2>1 DEF LayersTyped, LayerRow
  <2> QED
    BY <2>2 DEF sources, resources
<1>6. q.layer \in Layers'
  BY <1>3, AppendLayerBindingsKeeps
<1>7. /\ BindingsIncluded(layer'[q.layer].sources, q.sources)
      /\ BindingsIncluded(layer'[q.layer].resources, q.resources)
  BY <1>3, <1>5 DEF BindingsIncluded, SlotsConflict, Merged
<1> QED
  BY <1>1, <1>3, <1>6, <1>7 DEF InEffect

LEMMA StateInEffect ==
  ASSUME ContentInv, NEW q \in ContentCall, UpdateLayerState(q), UNCHANGED style
  PROVE  InEffect(q)'
<1>1. q.op = "update_layer_state" /\ q \notin MutationType
  BY RequestTypes DEF UpdateLayerState
<1>2. q.layer \in Layers
  BY DEF UpdateLayerState, LayerVerdict, VerdictOnState
<1>3. q.layer \in Layers'
  BY <1>2, UpdateLayerStateKeeps
<1>4. layer'[q.layer].state = q.state
  BY <1>2 DEF UpdateLayerState, ContentInv, LayersInv, LayersTyped, Layers, LayerRow
<1> QED
  BY <1>1, <1>3, <1>4 DEF InEffect

LEMMA OrderInEffect ==
  ASSUME ContentInv, NEW q \in ContentCall, SetLayerOrder(q), UNCHANGED style
  PROVE  InEffect(q)'
<1>1. q.op = "set_layer_order" /\ q \notin MutationType
  BY RequestTypes DEF SetLayerOrder
<1>2. Numbers(q.order, Layers) /\ layer' = Reordered(q.order, Layers)
  BY SetLayerOrderKeeps DEF SetLayerOrder
<1>3. Layers' = Layers
      /\ \A i \in 1..Cardinality(Layers) : layer'[q.order[i]].ordinal = i - 1
  BY <1>2, ReorderedReadable DEF ContentInv, LayersInv
<1>4. Numbers(q.order, Layers)'
  BY <1>2, <1>3 DEF Numbers
<1> QED
  BY <1>1, <1>3, <1>4 DEF InEffect

LEMMA InitializeInEffect ==
  ASSUME ContentInv, NEW q \in ContentCall, InitializeLayerStack(q), UNCHANGED style
  PROVE  InEffect(q)'
<1>1. q.op = "initialize_layer_stack" /\ q \notin MutationType
  BY RequestTypes DEF InitializeLayerStack
<1>2. ValidStack(q.requests)
  BY DEF InitializeLayerStack, LayerVerdict, VerdictOnInitialize
<1> QED
  BY <1>1, <1>2, InitializeLayerStackKeeps DEF InEffect

LEMMA SourceInEffect ==
  ASSUME ContentInv, NEW q \in ContentCall, StoreSourceSnapshot(q), UNCHANGED style
  PROVE  InEffect(q)'
<1>1. q.op = "store_source_snapshot" /\ q \notin MutationType
  BY RequestTypes DEF StoreSourceSnapshot
<1> QED
  BY <1>1 DEF InEffect, StoreSourceSnapshot

LEMMA StyleInEffect ==
  ASSUME ContentInv, NEW q \in ContentCall,
         SetStyle(q) \/ RemoveStyle(q) \/ SetLayerStyleBindings(q)
  PROVE  InEffect(q)'
<1>1. q.op \in {"set_style", "remove_style", "set_layer_style_bindings"}
      /\ q \notin MutationType
  BY RequestTypes DEF SetStyle, RemoveStyle, SetLayerStyleBindings
<1>2. CASE SetStyle(q)
  BY <1>1, <1>2, SetStyleKeeps DEF InEffect, SetStyle
<1>3. CASE RemoveStyle(q)
  BY <1>1, <1>3, RemoveStyleKeeps DEF InEffect, RemoveStyle
<1>4. CASE SetLayerStyleBindings(q)
  <2>1. q.layer \in Layers
    BY <1>4, StyleCalls DEF VerdictOnLayerStyles
  <2> QED
    BY <1>1, <1>4, <2>1, SetLayerStyleBindingsKeeps DEF InEffect, SetLayerStyleBindings
<1> QED
  BY <1>2, <1>3, <1>4

(* What is in effect needs no second commit.                               *)
LEMMA InEffectIsRetry ==
  ASSUME ContentInv, NEW q \in ContentCall, InEffect(q),
         q.op \notin {"update_metadata", "remove_layer"}
  PROVE  ContentVerdict(q) = "retry"
<1> USE DEF ContentInv, LayersInv, StylesInv
<1>1. CASE q \in MutationType
  <2>1. q.op \notin {"set_style", "remove_style", "set_layer_style_bindings"}
    BY <1>1, RequestTypes
  <2> QED
    BY <1>1, <2>1 DEF InEffect, ContentVerdict
<1>2. CASE q.op = "append_layer"
  <2>1. RowIs(q.request, q.request.layer)
    BY <1>2 DEF InEffect
  <2> DEFINE r == q.request
             o == layer[r.layer].ordinal
  <2>2. layer[r.layer] = RowOf(r, o)
    BY <2>1 DEF RowIs
  <2>3. [RowOf(r, o) EXCEPT !.styles = layer[r.layer].styles] = RowOf(r, o)
    <3> HIDE DEF o
    <3>1. layer[r.layer].styles = NoBindings
      BY <2>2 DEF RowOf
    <3> QED
      BY <3>1 DEF RowOf
  <2>4. EqualExisting(r)
    BY <2>2, <2>3 DEF EqualExisting
  <2>5. VerdictOnAppend(r) = "retry"
    BY <2>1, <2>4 DEF RowIs, VerdictOnAppend
  <2> QED
    BY <1>2, <2>5, RequestTypes DEF ContentVerdict, LayerVerdict
<1>3. CASE q.op = "append_layer_bindings"
  <2> DEFINE old == layer[q.layer]
  <2>1. /\ q.layer \in Layers
        /\ Bound(q.sources) \cup Bound(q.resources) # {}
        /\ ValidBindings(q.sources, q.resources)
        /\ BindingsIncluded(old.sources, q.sources)
        /\ BindingsIncluded(old.resources, q.resources)
    BY <1>3 DEF InEffect
  <2>2. old.sources \in Bindings(Source) /\ old.resources \in Bindings(Resource)
    BY <2>1 DEF Layers, LayersTyped, LayerRow
  <2>3. ASSUME NEW S, NEW b \in Bindings(S), NEW new, BindingsIncluded(b, new)
        PROVE  /\ Merged(b, new) = b
               /\ Added(b, new) = {}
               /\ ~SlotsConflict(b, new)
    BY <2>3 DEF BindingsIncluded, Bindings, Merged, Added, Bound, SlotsConflict
  <2>4. /\ Merged(old.sources, q.sources) = old.sources
        /\ Merged(old.resources, q.resources) = old.resources
        /\ Added(old.sources, q.sources) = {} /\ Added(old.resources, q.resources) = {}
        /\ ~SlotsConflict(old.sources, q.sources)
        /\ ~SlotsConflict(old.resources, q.resources)
    BY <2>1, <2>2, <2>3
  <2>5. WithinBound(old, q)
    BY <2>1, <2>4 DEF WithinBound, LayersReadable, LayerReadable
  <2>6. VerdictOnBindings(q) = "retry"
    BY <2>1, <2>4, <2>5 DEF VerdictOnBindings
  <2> QED
    BY <1>3, <2>6, RequestTypes DEF ContentVerdict, LayerVerdict
<1>4. CASE q.op = "update_layer_state"
  <2>1. VerdictOnState(q) = "retry"
    BY <1>4 DEF InEffect, VerdictOnState
  <2> QED
    BY <1>4, <2>1, RequestTypes DEF ContentVerdict, LayerVerdict
<1>5. CASE q.op = "set_layer_order"
  <2>1. /\ Numbers(q.order, Layers)
        /\ \A i \in 1..Cardinality(Layers) : layer[q.order[i]].ordinal = i - 1
    BY <1>5 DEF InEffect
  <2>2. OrderOf(Layers) = q.order
    BY <2>1, OrderIsKnown DEF Numbers
  <2>3. IsOrderOf(q.order, Layers)
    <3>1. q.order \in Seq(Layer)
      BY <1>5, RequestTypes DEF SetOrderCall
    <3>2. DOMAIN q.order = 1..Len(q.order) /\ Len(q.order) \in Nat
      BY <3>1
    <3>3. DOMAIN q.order = 1..Cardinality(Layers)
      BY <2>1 DEF Numbers
    <3>4. Len(q.order) = Cardinality(Layers)
      BY <3>1, <3>2, <3>3, LayerCount
    <3> QED
      BY <2>1, <3>3, <3>4 DEF Numbers, IsOrderOf
  <2>4. VerdictOnOrder(q) = "retry"
    BY <2>2, <2>3 DEF VerdictOnOrder
  <2> QED
    BY <1>5, <2>4, RequestTypes DEF ContentVerdict, LayerVerdict
<1>6. CASE q.op = "initialize_layer_stack"
  <2> DEFINE reqs == q.requests
             n == Cardinality(Layers)
             order == [i \in 1..n |-> reqs[i].layer]
  <2>1. /\ ValidStack(reqs) /\ n = Len(reqs)
        /\ \A i \in 1..n : /\ reqs[i].layer \in Layers
                           /\ layer[reqs[i].layer] = RowOf(reqs[i], i - 1)
    BY <1>6 DEF InEffect
  <2>2. reqs \in Seq(LayerCreateRequest)
    BY <1>6, RequestTypes DEF InitializeCall
  <2>3. n \in 1..MaxLayers
    BY <2>1 DEF ValidStack
  <2> HIDE DEF n
  <2>4. order \in [1..n -> Layers] /\ \A i \in 1..n : layer[order[i]].ordinal = i - 1
    <3>1. \A i \in 1..n : RowOf(reqs[i], i - 1).ordinal = i - 1
      BY DEF RowOf
    <3> QED
      BY <2>1, <3>1
  <2>5. OrderOf(Layers) = order
    BY <2>4, OrderIsKnown DEF n
  <2>6. ASSUME NEW i \in 1..n
        PROVE  StoredRequest(order[i]) = reqs[i]
    <3>1. layer[reqs[i].layer] = RowOf(reqs[i], i - 1) /\ reqs[i] \in LayerCreateRequest
      BY <2>1, <2>2
    <3>2. order[i] = reqs[i].layer
      OBVIOUS
    <3> QED
      BY <3>1, <3>2 DEF RowOf, StoredRequest, LayerCreateRequest
  <2>7. ExistingStack = [i \in 1..n |-> StoredRequest(order[i])]
    <3>1. DOMAIN order = 1..n
      OBVIOUS
    <3> HIDE DEF order
    <3> QED
      BY <2>5, <3>1 DEF ExistingStack
  <2>8. reqs = [i \in 1..n |-> reqs[i]]
    BY <2>1, <2>2
  <2>9. EqualStack(reqs)
    <3> HIDE DEF order
    <3>1. [i \in 1..n |-> StoredRequest(order[i])] = [i \in 1..n |-> reqs[i]]
      BY <2>6
    <3> QED
      BY <2>7, <2>8, <3>1 DEF EqualStack
  <2>10. Layers # {}
    <3>1. 1 \in 1..n
      BY <2>3
    <3> QED
      BY <2>1, <3>1
  <2>11. VerdictOnInitialize(q) = "retry"
    BY <2>1, <2>9, <2>10 DEF VerdictOnInitialize
  <2> QED
    BY <1>6, <2>11, RequestTypes DEF ContentVerdict, LayerVerdict
<1>7. CASE q.op = "store_source_snapshot"
  <2>1. VerdictOnSource(q) = "retry"
    BY <1>7 DEF InEffect, VerdictOnSource
  <2> QED
    BY <1>7, <2>1, RequestTypes DEF ContentVerdict, LayerVerdict
<1>8. \A s \in Styles : StyleReadable(s)
  BY DEF WellFormed, StyleRefs, StyleReadable, BindingsRequired
<1>9. CASE q.op = "set_style"
  <2>1. q.style \in Styles /\ style[q.style] = q.row
    BY <1>9 DEF InEffect
  <2>2. ValidStyle(q.style, q.row)
    BY <2>1 DEF StyleRefs
  <2>3. VerdictOnChain(q.style, q.row.parent) = "ok"
    BY <2>1, RankedIsForest DEF StyleForest, VerdictOnChain
  <2>4. VerdictOnSetStyle(q) = "retry"
    BY <1>8, <2>1, <2>2, <2>3 DEF VerdictOnSetStyle
  <2> QED
    BY <1>9, <2>4, RequestTypes DEF ContentVerdict
<1>10. CASE q.op = "remove_style"
  <2>1. VerdictOnRemoveStyle(q) = "retry"
    BY <1>10 DEF InEffect, VerdictOnRemoveStyle
  <2> QED
    BY <1>10, <2>1, RequestTypes DEF ContentVerdict
<1>11. CASE q.op = "set_layer_style_bindings"
  <2>1. q.layer \in Layers /\ layer[q.layer].styles = q.styles
    BY <1>11 DEF InEffect
  <2>2. LayerStylesReadable(q.layer)
    BY <2>1 DEF LayerRefs
  <2>3. VerdictOnLayerStyles(q) = "retry"
    BY <1>8, <2>1, <2>2 DEF VerdictOnLayerStyles, LayerStylesReadable
  <2> QED
    BY <1>11, <2>3, RequestTypes DEF ContentVerdict
<1>12. q \in MutationType \/ q.op \in
         {"append_layer", "append_layer_bindings", "update_layer_state", "set_layer_order",
          "remove_layer", "initialize_layer_stack", "store_source_snapshot", "set_style",
          "remove_style", "set_layer_style_bindings"}
  BY ContentAssumption DEF StyleCallType, SetStyleCall, RemoveStyleCall, SetLayerStylesCall,
    LayerCallType, AppendLayerCall, AppendBindingsCall, UpdateStateCall,
    SetOrderCall, RemoveLayerCall, InitializeCall, StoreSourceCall
<1> QED
  BY <1>1, <1>2, <1>3, <1>4, <1>5, <1>6, <1>7, <1>9, <1>10, <1>11, <1>12

(* The request committed last is in effect: asked again it changes nothing.*)
THEOREM RetriesAreExact == ContentSpec => []ExactRetry
<1>1. ContentInit => RetryInv
  BY DEF ContentInit, RetryInv
<1>2. ContentInv /\ RetryInv /\ [ContentNext]_contentVars => RetryInv'
  <2> SUFFICES ASSUME ContentInv, RetryInv, [ContentNext]_contentVars PROVE RetryInv'
    OBVIOUS
  <2>1. CASE ContentNext
    <3>1. PICK q \in ContentCall :
            /\ last' = q
            /\ \/ MutateDocument(q)
               \/ LayerStep(q) /\ UNCHANGED style
               \/ SetStyle(q) \/ RemoveStyle(q) \/ SetLayerStyleBindings(q)
      BY <2>1 DEF ContentNext
    <3> SUFFICES ASSUME q.op \notin {"update_metadata", "remove_layer"}
                 PROVE  InEffect(q)'
      BY <3>1 DEF RetryInv
    <3>2. CASE MutateDocument(q)
      <4>1. q.op \in {"set_project_projection", "freeze_project",
                      "store_external_resource", "embed_resource_file"}
        BY <3>2, RequestTypes DEF MutateDocument
      <4>2. Verdict(doc', q) = "retry"
        BY <3>2, MutationInEffect DEF MutateDocument, Mutate, ContentInv
      <4> QED
        BY <4>1, <4>2 DEF InEffect
    <3>3. CASE LayerStep(q) /\ UNCHANGED style
      <4>1. ~RemoveLayer(q)
        BY DEF RemoveLayer
      <4> QED
        BY <3>3, <4>1, AppendInEffect, AppendBindingsInEffect, StateInEffect, OrderInEffect,
           InitializeInEffect, SourceInEffect DEF LayerStep
    <3> QED
      BY <3>1, <3>2, <3>3, StyleInEffect
  <2>2. CASE UNCHANGED contentVars
    <3>1. /\ doc' = doc /\ layer' = layer /\ source' = source /\ style' = style
          /\ last' = last
      BY <2>2 DEF contentVars
    <3>2. Layers' = Layers /\ Styles' = Styles
      BY <3>1 DEF Layers, Styles
    <3>3. InEffect(last) => InEffect(last)'
      BY <3>1, <3>2 DEF InEffect, RowIs, Numbers
    <3> QED
      BY <3>1, <3>3 DEF RetryInv
  <2> QED
    BY <2>1, <2>2
<1>3. ContentInv /\ RetryInv => ExactRetry
  BY InEffectIsRetry DEF RetryInv, ExactRetry
<1> QED
  BY <1>1, <1>2, <1>3, ContentSafety, PTL DEF ContentSpec

-----------------------------------------------------------------------------
(***************************************************************************)
(* Compositions of built-in layers, for any number of handles, sources,    *)
(* features and surface classes: what they wire can be drawn, what they    *)
(* answer is true, and the rows of the user stay.                          *)
(*                                                                         *)
(* A composition looks at its sources in several reads and writes in a     *)
(* transaction of its own.  The inductive invariant states for each pc     *)
(* what has been read (WorkerOK), as a claim about the sources as they are *)
(* now: it survives the stores of others because a stored part is never    *)
(* replaced, which is what Catalog promises and SourceImport_proofs shows  *)
(* of the stores.                                                          *)
(***************************************************************************)
Fields == {"pc", "call", "outcome", "physical", "features", "left"}
Whole(w) == w = [field \in Fields |-> w[field]]

InitializeOp == "initialize_builtin_world_layer_stack"
EnsureOp == "ensure_builtin_surface_classification_layer"
Resting == {"idle", "done"}
Looking == {"snapshots", "physical_geometry", "geometry", "properties", "classes",
            "layers", "compose"}
Decided == {"classes", "layers", "compose"}

-----------------------------------------------------------------------------
(* What a handle knows of the sources, here of any catalog c.              *)

KnowsGeometry(c, s, features) ==
  c[s].geometry # Missing /\ DOMAIN c[s].geometry = features
KnowsProperties(c, s, features) ==
  c[s].properties # Missing /\ DOMAIN c[s].properties = features
KnowsClasses(c, s, features) ==
  \A f \in features : c[s].properties[f] \in SurfaceClass

WorkerOK(w, c) ==
  /\ w.pc \in Resting \cup Looking
  /\ w.pc \in Looking =>
       /\ w.call \in WorldCall
       /\ w.pc = "physical_geometry" => w.call.op = InitializeOp
       /\ w.pc \in {"classes", "layers"} => w.call.op = EnsureOp
       /\ w.call.op = InitializeOp /\ w.pc \in {"geometry", "properties", "compose"} =>
            KnowsGeometry(c, w.call.physical, w.physical)
       /\ w.pc \in {"properties"} \cup Decided =>
            KnowsGeometry(c, w.call.political, w.features)
       /\ w.pc \in Decided =>
            /\ w.features # {}
            /\ w.call.op = InitializeOp => w.physical # {}
            /\ KnowsProperties(c, w.call.political, w.features)
            /\ w.call.op = EnsureOp =>
                 KnowsClasses(c, w.call.political, w.features \ w.left)
       /\ w.pc \in {"layers", "compose"} /\ w.call.op = EnsureOp => w.left = {}

(* A channel that is complete and stays so, and a layer of such channels.  *)
Drawable(c, slot, s) ==
  /\ s \in Source
  /\ slot \in {"geometry", "properties", "classification"}
  /\ c[s].geometry # Missing /\ DOMAIN c[s].geometry # {}
  /\ slot # "geometry" => KnowsProperties(c, s, DOMAIN c[s].geometry)
  /\ slot = "classification" => KnowsClasses(c, s, DOMAIN c[s].geometry)

RowOK(row, c) ==
  /\ "sources" \in DOMAIN row
  /\ \A slot \in Slot :
       row.sources[slot] # Unbound => Drawable(c, slot, row.sources[slot])

ShapeOK ==
  /\ "revision" \in DOMAIN doc
  /\ layer = [l \in Layer |-> layer[l]]
  /\ catalog = [s \in Source |-> catalog[s]]
  /\ worker = [h \in Handle |-> worker[h]]
  /\ \A h \in Handle : Whole(worker[h])

WorkersOK == \A h \in Handle : WorkerOK(worker[h], catalog)
WiringOK == \A l \in Layers \cap DOMAIN RoleOf : RowOK(layer[l], catalog)

WorldInv == ShapeOK /\ WorkersOK /\ WiringOK

-----------------------------------------------------------------------------
(* The sources.                                                            *)

(* Nothing that is stored is replaced.                                     *)
Grows(c, d) ==
  \A s \in Source : \A part \in {"provenance", "geometry", "properties"} :
    c[s][part] # Missing => d[s][part] = c[s][part]

LEMMA CallTypes ==
  ASSUME NEW q \in WorldCall
  PROVE  /\ q.op \in {InitializeOp, EnsureOp}
         /\ q.political \in Source
         /\ q.op = InitializeOp => q.physical \in Source
BY WorldAssumption DEF InitializeWorldCall, EnsureSurfaceCall, InitializeOp, EnsureOp

(* A store only extends the row of its source.                             *)
LEMMA StoresGrow ==
  ASSUME ShapeOK, NEW s \in Source, StoreSource(s)
  PROVE  Grows(catalog, catalog') /\ ShapeOK'
<1>1. /\ catalog' = [catalog EXCEPT ![s] = catalog'[s]]
      /\ \A part \in {"provenance", "geometry", "properties"} :
           catalog[s][part] # Missing => catalog'[s][part] = catalog[s][part]
  BY DEF StoreSource, Sources!Add, Sources!Extended, Sources!Parts
<1>2. catalog' = [t \in Source |-> catalog'[t]]
  BY <1>1 DEF ShapeOK
<1>3. \A t \in Source : t # s => catalog'[t] = catalog[t]
  BY <1>1 DEF ShapeOK
<1>4. "revision" \in DOMAIN doc'
  BY DEF StoreSource, Advance, ShapeOK
<1>5. layer' = layer /\ worker' = worker
  BY DEF StoreSource
<1> QED
  BY <1>1, <1>2, <1>3, <1>4, <1>5 DEF Grows, ShapeOK

(* What a handle knows stays true as sources grow.                         *)
LEMMA KnowledgeStays ==
  ASSUME NEW c, NEW d, Grows(c, d), NEW s \in Source
  PROVE  /\ \A fs : KnowsGeometry(c, s, fs) => KnowsGeometry(d, s, fs)
         /\ \A fs : KnowsProperties(c, s, fs) => KnowsProperties(d, s, fs)
         /\ \A fs, all : KnowsProperties(c, s, all) /\ KnowsClasses(c, s, fs)
                           => KnowsClasses(d, s, fs)
<1>1. /\ c[s].geometry # Missing => d[s].geometry = c[s].geometry
      /\ c[s].properties # Missing => d[s].properties = c[s].properties
  BY DEF Grows
<1> QED
  BY <1>1 DEF KnowsGeometry, KnowsProperties, KnowsClasses

LEMMA WorkerStays ==
  ASSUME NEW w, NEW c, NEW d, Grows(c, d), WorkerOK(w, c)
  PROVE  WorkerOK(w, d)
<1>1. CASE w.pc \notin Looking
  BY <1>1 DEF WorkerOK
<1>2. CASE w.pc \in Looking
  <2> USE <1>2
  <2> DEFINE q == w.call
  <2>1. q \in WorldCall
    BY DEF WorkerOK
  <2>2. /\ q.political \in Source
        /\ q.op = InitializeOp => q.physical \in Source
    BY <2>1, CallTypes
  <2>3. q.op = InitializeOp /\ w.pc \in {"geometry", "properties", "compose"} =>
          KnowsGeometry(d, q.physical, w.physical)
    BY <2>2, KnowledgeStays DEF WorkerOK
  <2>4. w.pc \in {"properties"} \cup Decided => KnowsGeometry(d, q.political, w.features)
    BY <2>2, KnowledgeStays DEF WorkerOK
  <2>5. ASSUME w.pc \in Decided
        PROVE  /\ KnowsProperties(d, q.political, w.features)
               /\ q.op = EnsureOp => KnowsClasses(d, q.political, w.features \ w.left)
    <3>1. /\ KnowsProperties(c, q.political, w.features)
          /\ q.op = EnsureOp => KnowsClasses(c, q.political, w.features \ w.left)
      BY <2>5 DEF WorkerOK
    <3> QED
      BY <2>2, <3>1, KnowledgeStays
  <2> QED
    BY <2>3, <2>4, <2>5 DEF WorkerOK
<1> QED
  BY <1>1, <1>2

LEMMA RowStays ==
  ASSUME NEW row, NEW c, NEW d, Grows(c, d), RowOK(row, c)
  PROVE  RowOK(row, d)
<1>1. ASSUME NEW slot, NEW s, Drawable(c, slot, s)
      PROVE  Drawable(d, slot, s)
  <2> USE <1>1
  <2>1. /\ s \in Source
        /\ KnowsGeometry(c, s, DOMAIN c[s].geometry)
        /\ slot # "geometry" => KnowsProperties(c, s, DOMAIN c[s].geometry)
        /\ slot = "classification" => KnowsClasses(c, s, DOMAIN c[s].geometry)
    BY DEF Drawable, KnowsGeometry
  <2>2. /\ KnowsGeometry(d, s, DOMAIN c[s].geometry)
        /\ slot # "geometry" => KnowsProperties(d, s, DOMAIN c[s].geometry)
        /\ slot = "classification" => KnowsClasses(d, s, DOMAIN c[s].geometry)
    BY <2>1, KnowledgeStays
  <2> QED
    BY <2>1, <2>2 DEF Drawable, KnowsGeometry
<1> QED
  BY <1>1 DEF RowOK

LEMMA StoreKeeps ==
  ASSUME WorldInv, NEW s \in Source, StoreSource(s)
  PROVE  WorldInv'
<1>1. Grows(catalog, catalog') /\ ShapeOK'
  BY StoresGrow DEF WorldInv
<1>2. layer' = layer /\ worker' = worker
  BY DEF StoreSource
<1>3. WorkersOK'
  BY <1>1, <1>2, WorkerStays DEF WorldInv, WorkersOK
<1>4. WiringOK'
  BY <1>1, <1>2, RowStays DEF WorldInv, WiringOK, Layers
<1> QED
  BY <1>1, <1>3, <1>4 DEF WorldInv

-----------------------------------------------------------------------------
(* The reads of a composition, which change nothing but their worker.      *)

Becomes(h, w) == worker' = [worker EXCEPT ![h] = w]

LEMMA WorkerMoves ==
  ASSUME ShapeOK, WorkersOK, NEW h \in Handle, NEW w, Becomes(h, w),
         Whole(w), WorkerOK(w, catalog)
  PROVE  /\ worker' = [k \in Handle |-> worker'[k]]
         /\ worker'[h] = w
         /\ \A k \in Handle : Whole(worker'[k]) /\ WorkerOK(worker'[k], catalog)
<1>1. worker' = [k \in Handle |-> worker'[k]]
  BY DEF Becomes, ShapeOK
<1>2. \A k \in Handle : worker'[k] = IF k = h THEN w ELSE worker[k]
  BY DEF Becomes, ShapeOK
<1> QED
  BY <1>1, <1>2 DEF ShapeOK, WorkersOK

LEMMA Reads ==
  ASSUME WorldInv, NEW h \in Handle, ReadsOnly, NEW w, Becomes(h, w),
         Whole(w), WorkerOK(w, catalog)
  PROVE  WorldInv'
<1>1. /\ worker' = [k \in Handle |-> worker'[k]]
      /\ \A k \in Handle : Whole(worker'[k]) /\ WorkerOK(worker'[k], catalog)
  BY WorkerMoves DEF WorldInv
<1> QED
  BY <1>1 DEF WorldInv, ShapeOK, WorkersOK, WiringOK, ReadsOnly, Layers

(* The handle that answers keeps its call and no more.                     *)
Answered(h, error, changed) ==
  [AtRest EXCEPT !.pc = "done", !.call = Asked(h), !.outcome = Outcome(error, changed)]

LEMMA Rests ==
  ASSUME NEW w, NEW pc \in Resting, NEW call, NEW outcome,
         w = [AtRest EXCEPT !.pc = pc, !.call = call, !.outcome = outcome]
  PROVE  /\ \A c : Whole(w) /\ WorkerOK(w, c)
         /\ w.pc = pc /\ w.call = call /\ w.outcome = outcome
<1>1. w = [pc |-> pc, call |-> call, outcome |-> outcome,
           physical |-> {}, features |-> {}, left |-> {}]
  BY DEF AtRest
<1>2. Whole(w)
  BY <1>1 DEF Whole, Fields
<1> QED
  BY <1>1, <1>2 DEF WorkerOK, Resting, Looking

LEMMA AnsweredFields ==
  ASSUME NEW h, NEW error, NEW changed
  PROVE  /\ Answered(h, error, changed).call = Asked(h)
         /\ Answered(h, error, changed).outcome = Outcome(error, changed)
<1> DEFINE call == Asked(h)
           outcome == Outcome(error, changed)
<1>1. Answered(h, error, changed) =
        [AtRest EXCEPT !.pc = "done", !.call = call, !.outcome = outcome]
  BY DEF Answered
<1> HIDE DEF call, outcome
<1>2. /\ Answered(h, error, changed).call = call
      /\ Answered(h, error, changed).outcome = outcome
  BY <1>1 DEF AtRest
<1> QED
  BY <1>2 DEF call, outcome

LEMMA RefusedKeeps ==
  ASSUME WorldInv, NEW h \in Handle, ReadsOnly, NEW error, Refuse(h, error)
  PROVE  WorldInv'
<1> DEFINE w == Answered(h, error, FALSE)
<1>1. Becomes(h, w)
  BY DEF Refuse, AnswerWith, Answered, Becomes
<1>2. Whole(w) /\ WorkerOK(w, catalog)
  BY Rests DEF Answered, Resting
<1> HIDE DEF w
<1> QED
  BY <1>1, <1>2, Reads

LEMMA BeginKeeps ==
  ASSUME WorldInv, NEW h \in Handle, Begin(h)
  PROVE  WorldInv'
<1>1. PICK q \in WorldCall :
        \/ Becomes(h, [AtRest EXCEPT !.pc = "done", !.call = q,
                                     !.outcome = Outcome("invalid_request", FALSE)])
        \/ Becomes(h, [AtRest EXCEPT !.pc = "snapshots", !.call = q])
  BY DEF Begin, Becomes
<1>2. ReadsOnly
  BY DEF Begin
<1>3. ASSUME NEW w, w = [AtRest EXCEPT !.pc = "snapshots", !.call = q]
      PROVE  Whole(w) /\ WorkerOK(w, catalog)
  <2>1. w = [pc |-> "snapshots", call |-> q, outcome |-> Outcome("pending", FALSE),
             physical |-> {}, features |-> {}, left |-> {}]
    BY <1>3 DEF AtRest
  <2>2. Whole(w)
    BY <2>1 DEF Whole, Fields
  <2> QED
    BY <2>1, <2>2 DEF WorkerOK, Resting, Looking, Decided
<1>4. ASSUME NEW w, w = [AtRest EXCEPT !.pc = "done", !.call = q,
                                       !.outcome = Outcome("invalid_request", FALSE)]
      PROVE  Whole(w) /\ WorkerOK(w, catalog)
  BY <1>4, Rests DEF Resting
<1> QED
  BY <1>1, <1>2, <1>3, <1>4, Reads

(* A step of a handle whose record gets new values in some fields.         *)
Same(old, w, fields) == \A field \in Fields \ fields : w[field] = old[field]


LEMMA ReadSnapshotsKeeps ==
  ASSUME WorldInv, NEW h \in Handle, ReadSnapshots(h)
  PROVE  WorldInv'
<1> DEFINE old == worker[h]
           pc == IF Ensures(h) THEN "geometry" ELSE "physical_geometry"
           w == [old EXCEPT !.pc = pc]
<1>1. ReadsOnly /\ old.pc = "snapshots" /\ Whole(old) /\ WorkerOK(old, catalog)
  BY DEF ReadSnapshots, At, WorldInv, ShapeOK, WorkersOK
<1>2. CASE ~ContractOfSnapshots(Asked(h))
  BY <1>1, <1>2, RefusedKeeps DEF ReadSnapshots
<1>3. CASE ContractOfSnapshots(Asked(h))
  <2>1. Becomes(h, w)
    BY <1>3 DEF ReadSnapshots, Go, Becomes
  <2>2. Whole(w) /\ w.pc = pc /\ Same(old, w, {"pc"})
    BY <1>1 DEF Whole, Fields, Same
  <2>3. old.call \in WorldCall /\ old.call.op \in {InitializeOp, EnsureOp}
    BY <1>1, CallTypes DEF WorkerOK, Looking
  <2>4. WorkerOK(w, catalog)
    BY <2>2, <2>3 DEF WorkerOK, Same, Fields, Looking, Decided, Resting, Ensures, Asked,
                      InitializeOp, EnsureOp
  <2> HIDE DEF w
  <2> QED
    BY <1>1, <2>1, <2>2, <2>4, Reads
<1> QED
  BY <1>2, <1>3

(* What a handle that looks on has found so far.                           *)
LEMMA Looker ==
  ASSUME WorldInv, NEW h \in Handle, worker[h].pc \in Looking
  PROVE  /\ Whole(worker[h]) /\ WorkerOK(worker[h], catalog)
         /\ Asked(h) \in WorldCall
         /\ Asked(h).op \in {InitializeOp, EnsureOp}
         /\ Ensures(h) <=> Asked(h).op # InitializeOp
<1>1. Whole(worker[h]) /\ WorkerOK(worker[h], catalog)
  BY DEF WorldInv, ShapeOK, WorkersOK
<1>2. Asked(h) \in WorldCall
  BY <1>1 DEF WorkerOK, Asked
<1> QED
  BY <1>1, <1>2, CallTypes DEF Ensures, InitializeOp, EnsureOp

LEMMA ReadPhysicalGeometryKeeps ==
  ASSUME WorldInv, NEW h \in Handle, ReadPhysicalGeometry(h)
  PROVE  WorldInv'
<1> DEFINE old == worker[h]
           geometry == Parts(Asked(h).physical).geometry
           w == [old EXCEPT !.pc = "geometry", !.physical = DOMAIN geometry]
<1>1. ReadsOnly /\ old.pc = "physical_geometry" /\ Whole(old) /\ WorkerOK(old, catalog)
      /\ Asked(h) \in WorldCall
  BY Looker DEF ReadPhysicalGeometry, At, Looking
<1>2. CASE geometry = Missing
  BY <1>1, <1>2, RefusedKeeps DEF ReadPhysicalGeometry
<1>3. CASE geometry # Missing
  <2>1. Becomes(h, w)
    BY <1>3 DEF ReadPhysicalGeometry, Becomes
  <2>2. /\ Whole(w) /\ w.pc = "geometry" /\ w.physical = DOMAIN geometry
        /\ Same(old, w, {"pc", "physical"})
    BY <1>1 DEF Whole, Fields, Same
  <2>3. WorkerOK(w, catalog)
    BY <1>1, <1>3, <2>2 DEF WorkerOK, Same, Fields, Looking, Decided, Resting, Asked, Parts,
                            KnowsGeometry
  <2> HIDE DEF w
  <2> QED
    BY <1>1, <2>1, <2>2, <2>3, Reads
<1> QED
  BY <1>2, <1>3

LEMMA ReadGeometryKeeps ==
  ASSUME WorldInv, NEW h \in Handle, ReadGeometry(h)
  PROVE  WorldInv'
<1> DEFINE old == worker[h]
           geometry == Parts(Asked(h).political).geometry
           w == [old EXCEPT !.pc = "properties", !.features = DOMAIN geometry]
<1>1. ReadsOnly /\ old.pc = "geometry" /\ Whole(old) /\ WorkerOK(old, catalog)
      /\ Asked(h) \in WorldCall
  BY Looker DEF ReadGeometry, At, Looking
<1>2. CASE geometry = Missing
  BY <1>1, <1>2, RefusedKeeps DEF ReadGeometry
<1>3. CASE geometry # Missing
  <2>1. Becomes(h, w)
    BY <1>3 DEF ReadGeometry, Becomes
  <2>2. /\ Whole(w) /\ w.pc = "properties" /\ w.features = DOMAIN geometry
        /\ Same(old, w, {"pc", "features"})
    BY <1>1 DEF Whole, Fields, Same
  <2>3. WorkerOK(w, catalog)
    BY <1>1, <1>3, <2>2 DEF WorkerOK, Same, Fields, Looking, Decided, Resting, Asked, Parts,
                            KnowsGeometry
  <2> HIDE DEF w
  <2> QED
    BY <1>1, <2>1, <2>2, <2>3, Reads
<1> QED
  BY <1>2, <1>3

LEMMA ReadPropertiesKeeps ==
  ASSUME WorldInv, NEW h \in Handle, ReadProperties(h)
  PROVE  WorldInv'
<1> DEFINE old == worker[h]
           properties == Parts(Asked(h).political).properties
           pc == IF Ensures(h) THEN "classes" ELSE "compose"
           w == [old EXCEPT !.pc = pc, !.left = old.features]
<1>1. ReadsOnly /\ old.pc = "properties" /\ Whole(old) /\ WorkerOK(old, catalog)
      /\ Asked(h) \in WorldCall /\ (Ensures(h) <=> Asked(h).op # InitializeOp)
      /\ Asked(h).op \in {InitializeOp, EnsureOp}
  BY Looker DEF ReadProperties, At, Looking
<1>2. CASE ~IndexesAgree(h, properties)
  BY <1>1, <1>2, RefusedKeeps DEF ReadProperties
<1>3. CASE IndexesAgree(h, properties)
  <2>1. Becomes(h, w)
    BY <1>3 DEF ReadProperties, Becomes
  <2>2. /\ Whole(w) /\ w.pc = pc /\ w.left = old.features
        /\ Same(old, w, {"pc", "left"})
    BY <1>1 DEF Whole, Fields, Same
  <2>3. /\ KnowsProperties(catalog, Asked(h).political, old.features)
        /\ old.features # {}
        /\ Asked(h).op = InitializeOp => old.physical # {}
    BY <1>1, <1>3 DEF IndexesAgree, KnowsProperties, Parts
  <2>4. KnowsClasses(catalog, Asked(h).political, w.features \ w.left)
    BY <2>2 DEF KnowsClasses, Same, Fields
  <2>5. Ensures(h) => w.pc = "classes"
    BY <2>2
  <2>6. ~Ensures(h) => w.pc = "compose"
    BY <2>2
  <2>7. WorkerOK(w, catalog)
    <3> HIDE DEF w
    <3> QED
      BY <1>1, <2>2, <2>3, <2>4, <2>5, <2>6
      DEF WorkerOK, Same, Fields, Looking, Decided, Resting, Asked, InitializeOp, EnsureOp
  <2> HIDE DEF w
  <2> QED
    BY <1>1, <2>1, <2>2, <2>7, Reads
<1> QED
  BY <1>2, <1>3

(* The class of one more feature is known.                                 *)
LEMMA ReadClassKeeps ==
  ASSUME WorldInv, NEW h \in Handle, ReadClass(h)
  PROVE  WorldInv'
<1> DEFINE old == worker[h]
           f == CHOOSE g \in old.left : TRUE
           value == Parts(Asked(h).political).properties[f]
           w == [old EXCEPT !.left = old.left \ {f}]
<1>1. ReadsOnly /\ old.pc = "classes" /\ Whole(old) /\ WorkerOK(old, catalog)
      /\ Asked(h) \in WorldCall
  BY Looker DEF ReadClass, At, Looking
<1>2. CASE ~HasClass(value)
  BY <1>1, <1>2, RefusedKeeps DEF ReadClass
<1>3. CASE HasClass(value)
  <2>1. Becomes(h, w)
    BY <1>3 DEF ReadClass, Becomes
  <2>2. /\ Whole(w) /\ w.left = old.left \ {f}
        /\ Same(old, w, {"left"})
    BY <1>1 DEF Whole, Fields, Same
  <2>3. KnowsClasses(catalog, Asked(h).political, old.features \ w.left)
    <3>1. Asked(h).op = EnsureOp
      BY <1>1 DEF WorkerOK, Looking, Asked
    <3>2. KnowsClasses(catalog, Asked(h).political, old.features \ old.left)
      BY <1>1, <3>1 DEF WorkerOK, Looking, Decided, Asked
    <3> HIDE DEF f, w
    <3> QED
      BY <1>3, <2>2, <3>2 DEF KnowsClasses, HasClass, Parts
  <2>4. WorkerOK(w, catalog)
    <3> HIDE DEF w, f
    <3> QED
      BY <1>1, <2>2, <2>3
      DEF WorkerOK, Same, Fields, Looking, Decided, Resting, Asked
  <2> HIDE DEF w
  <2> QED
    BY <1>1, <2>1, <2>2, <2>4, Reads
<1> QED
  BY <1>2, <1>3

LEMMA ClassifiedKeeps ==
  ASSUME WorldInv, NEW h \in Handle, Classified(h)
  PROVE  WorldInv'
<1> DEFINE old == worker[h]
           w == [old EXCEPT !.pc = "layers"]
<1>1. ReadsOnly /\ old.pc = "classes" /\ Whole(old) /\ WorkerOK(old, catalog)
      /\ old.left = {}
  BY Looker DEF Classified, At, Looking
<1>2. Becomes(h, w)
  BY DEF Classified, Go, Becomes
<1>3. Whole(w) /\ w.pc = "layers" /\ Same(old, w, {"pc"})
  BY <1>1 DEF Whole, Fields, Same
<1>4. WorkerOK(w, catalog)
  BY <1>1, <1>3 DEF WorkerOK, Same, Fields, Looking, Decided, Resting
<1> HIDE DEF w
<1> QED
  BY <1>1, <1>2, <1>3, <1>4, Reads

LEMMA ReadLayersKeeps ==
  ASSUME WorldInv, NEW h \in Handle, ReadLayers(h)
  PROVE  WorldInv'
<1> DEFINE old == worker[h]
           w == [old EXCEPT !.pc = "compose"]
<1>1. ReadsOnly /\ old.pc = "layers" /\ Whole(old) /\ WorkerOK(old, catalog)
  BY Looker DEF ReadLayers, At, Looking
<1>2. CASE Surface \in Layers
  BY <1>1, <1>2, RefusedKeeps DEF ReadLayers
<1>3. CASE Surface \notin Layers
  <2>1. Becomes(h, w)
    BY <1>3 DEF ReadLayers, Go, Becomes
  <2>2. Whole(w) /\ w.pc = "compose" /\ Same(old, w, {"pc"})
    BY <1>1 DEF Whole, Fields, Same
  <2>3. WorkerOK(w, catalog)
    BY <1>1, <2>2 DEF WorkerOK, Same, Fields, Looking, Decided, Resting, InitializeOp, EnsureOp
  <2> HIDE DEF w
  <2> QED
    BY <1>1, <2>1, <2>2, <2>3, Reads
<1> QED
  BY <1>2, <1>3

LEMMA LooksKeep ==
  ASSUME WorldInv, NEW h \in Handle, Look(h) \/ LeaveComposed(h) \/ StorageFails(h)
  PROVE  WorldInv'
<1>1. CASE Look(h)
  BY <1>1, ReadSnapshotsKeeps, ReadPhysicalGeometryKeeps, ReadGeometryKeeps,
     ReadPropertiesKeeps, ReadClassKeeps, ClassifiedKeeps, ReadLayersKeeps DEF Look
<1>2. CASE LeaveComposed(h) \/ StorageFails(h)
  BY <1>2, RefusedKeeps DEF LeaveComposed, StorageFails
<1> QED
  BY <1>1, <1>2

-----------------------------------------------------------------------------
(* What a composition writes.                                              *)

Requested(q) ==
  IF q.op = EnsureOp THEN {SurfaceRequest(q)}
  ELSE RequestsOf([requests |-> WorldStack(q)])

WorldSlots == {"geometry", "properties", "classification"}

LEMMA WiredFields ==
  ASSUME NEW l, NEW slots, NEW s
  PROVE  LET r == Wired(l, slots, s)
         IN /\ r.layer = l /\ r.state = NewLayerState(l) /\ r.resources = NoBindings
            /\ r.sources = [slot \in Slot |-> IF slot \in slots THEN s ELSE Unbound]
BY DEF Wired

LEMMA RequestedIsWired ==
  ASSUME NEW q \in WorldCall, NEW r \in Requested(q)
  PROVE  \/ /\ q.op = EnsureOp
            /\ r = Wired(Surface, {"classification", "geometry"}, q.political)
         \/ /\ q.op = InitializeOp
            /\ \/ \E l \in {Labels, Borders, Countries} :
                    \E slots \in SUBSET {"geometry", "properties"} :
                      r = Wired(l, slots, q.political)
               \/ \E l \in {Coastline, Land} : r = Wired(l, {"geometry"}, q.physical)
<1>1. CASE q.op = EnsureOp
  BY <1>1 DEF Requested, SurfaceRequest
<1>2. CASE q.op = InitializeOp
  <2>1. PICK i \in DOMAIN WorldStack(q) : r = WorldStack(q)[i]
    BY <1>2 DEF Requested, RequestsOf, InitializeOp, EnsureOp
  <2>2. i \in 1..5
    BY <2>1 DEF WorldStack
  <2>3. \/ r = Wired(Labels, {"properties"}, q.political)
        \/ r = Wired(Borders, {"geometry"}, q.political)
        \/ r = Wired(Countries, {"geometry", "properties"}, q.political)
        \/ r = Wired(Coastline, {"geometry"}, q.physical)
        \/ r = Wired(Land, {"geometry"}, q.physical)
    BY <2>1, <2>2 DEF WorldStack
  <2> QED
    BY <1>2, <2>3
<1> QED
  BY <1>1, <1>2, CallTypes

(* Every channel that the composition wires is known to be complete.       *)
LEMMA RequestedIsDrawable ==
  ASSUME WorldInv, NEW h \in Handle, At(h, "compose"), NEW r \in Requested(Asked(h))
  PROVE  /\ r.layer \in DOMAIN RoleOf /\ r.layer \in Layer
         /\ r.state \in LayerState /\ r.resources = NoBindings
         /\ r.sources \in Bindings(Source)
         /\ \A slot \in Slot :
              r.sources[slot] # Unbound => Drawable(catalog, slot, r.sources[slot])
<1> DEFINE q == Asked(h)
           w == worker[h]
<1>1. w.pc = "compose" /\ WorkerOK(w, catalog) /\ q \in WorldCall
  BY Looker DEF At, Looking
<1>2. q.political \in Source /\ (q.op = InitializeOp => q.physical \in Source)
  BY <1>1, CallTypes
<1>3. /\ KnowsGeometry(catalog, q.political, w.features)
      /\ KnowsProperties(catalog, q.political, w.features)
      /\ w.features # {}
      /\ q.op = InitializeOp => KnowsGeometry(catalog, q.physical, w.physical)
                                  /\ w.physical # {}
      /\ q.op = EnsureOp => KnowsClasses(catalog, q.political, w.features \ w.left)
                              /\ w.left = {}
  BY <1>1 DEF WorkerOK, Looking, Decided, Asked
<1>4. /\ \A slot \in {"geometry", "properties"} : Drawable(catalog, slot, q.political)
      /\ q.op = InitializeOp => Drawable(catalog, "geometry", q.physical)
      /\ q.op = EnsureOp => Drawable(catalog, "classification", q.political)
  BY <1>2, <1>3 DEF Drawable, KnowsGeometry, KnowsProperties, KnowsClasses
<1>5. PICK l, slots, s :
        /\ r = Wired(l, slots, s)
        /\ l \in {Labels, Borders, Countries, Coastline, Land, Surface}
        /\ s \in Source
        /\ \A slot \in slots : Drawable(catalog, slot, s)
  <2>1. CASE q.op = EnsureOp
    BY <1>1, <1>2, <1>4, <2>1, RequestedIsWired DEF InitializeOp, EnsureOp
  <2>2. CASE q.op = InitializeOp
    <3>1. q.op # EnsureOp
      BY <2>2 DEF InitializeOp, EnsureOp
    <3>2. CASE \E k \in {Labels, Borders, Countries} :
                 \E slots \in SUBSET {"geometry", "properties"} :
                   r = Wired(k, slots, q.political)
      <4>1. PICK k \in {Labels, Borders, Countries},
                 slots \in SUBSET {"geometry", "properties"} :
                   r = Wired(k, slots, q.political)
        BY <3>2
      <4>2. \A slot \in slots : Drawable(catalog, slot, q.political)
        BY <1>4, <4>1
      <4> QED
        BY <1>2, <4>1, <4>2
    <3>3. CASE \E k \in {Coastline, Land} : r = Wired(k, {"geometry"}, q.physical)
      <4>1. PICK k \in {Coastline, Land} : r = Wired(k, {"geometry"}, q.physical)
        BY <3>3
      <4>2. \A slot \in {"geometry"} : Drawable(catalog, slot, q.physical)
        BY <1>4, <2>2
      <4> QED
        BY <1>2, <2>2, <4>1, <4>2
    <3> QED
      BY <1>1, <3>1, <3>2, <3>3, RequestedIsWired
  <2> QED
    BY <1>1, <2>1, <2>2, CallTypes
<1>6. /\ r.layer = l /\ r.state = NewLayerState(l) /\ r.resources = NoBindings
      /\ r.sources = [slot \in Slot |-> IF slot \in slots THEN s ELSE Unbound]
  BY <1>5, WiredFields
<1>7. l \in DOMAIN RoleOf
  BY <1>5 DEF RoleOf
<1>8. r.sources \in Bindings(Source)
  BY <1>5, <1>6 DEF Bindings
<1> QED
  BY <1>5, <1>6, <1>7, <1>8, WorldAssumption

LEMMA RowIsThere ==
  ASSUME NEW r, NEW n \in Nat, r.state \in LayerState, r.resources = NoBindings,
         r.sources \in Bindings(Source)
  PROVE  /\ RowOf(r, n) # NoLayer
         /\ "sources" \in DOMAIN RowOf(r, n)
         /\ RowOf(r, n).sources = r.sources
<1>1. NoBindings \in Bindings(Resource) /\ NoBindings \in Bindings(Style)
  BY DEF NoBindings, Bindings
<1>2. RowOf(r, n) \in LayerRow
  BY <1>1 DEF RowOf, LayerRow
<1> QED
  BY <1>2, LayerAssumption DEF RowOf

LEMMA LayersAreCounted == Cardinality(Layers) \in Nat
<1>1. IsFiniteSet(Layers)
  BY LayerAssumption, FS_Subset DEF Layers
<1> QED
  BY <1>1, FS_CardinalityType

(* A composition adds the rows it asked for, in one revision, where none   *)
(* was, and leaves every other row.                                        *)
Composition(q) ==
  /\ layer' = [l \in Layer |-> layer'[l]]
  /\ \A r \in Requested(q) :
       /\ r.layer \notin Layers
       /\ \E n \in Nat : layer'[r.layer] = RowOf(r, n)
  /\ \A l \in Layer : (\A r \in Requested(q) : r.layer # l) => layer'[l] = layer[l]
  /\ "revision" \in DOMAIN doc'
  /\ doc'.revision = doc.revision + 1

LEMMA AppendComposes ==
  ASSUME WorldInv, NEW h \in Handle, Compose(h), Ensures(h)
  PROVE  Composition(Asked(h))
<1> DEFINE q == Asked(h)
           r == SurfaceRequest(q)
<1>1. Mutation(h) = [op |-> "append_layer", request |-> r]
  BY DEF Mutation
<1>2. VerdictOnAppend(r) = "commit"
  BY <1>1 DEF Compose, LayerVerdict
<1>3. r.layer = Surface
  BY DEF SurfaceRequest, Wired
<1>4. Surface \notin Layers
  BY <1>2, <1>3 DEF VerdictOnAppend
<1>5. /\ layer' = [layer EXCEPT ![r.layer] = RowOf(r, Cardinality(Layers))]
      /\ doc' = RequireBound(Bound(r.resources))
  BY <1>1 DEF Compose, AppendLayer, InitializeLayerStack
<1>6. Requested(q) = {r}
  BY DEF Requested, Ensures, EnsureOp
<1>7. Surface \in Layer
  BY WorldAssumption DEF RoleOf
<1>8. /\ layer' = [l \in Layer |-> layer'[l]]
      /\ layer'[Surface] = RowOf(r, Cardinality(Layers))
      /\ \A l \in Layer : l # Surface => layer'[l] = layer[l]
  <2> HIDE DEF r
  <2> QED
    BY <1>3, <1>5, <1>7 DEF WorldInv, ShapeOK
<1>9. "revision" \in DOMAIN doc' /\ doc'.revision = doc.revision + 1
  BY <1>5 DEF RequireBound, Advance, NextRevision, WorldInv, ShapeOK
<1> HIDE DEF r
<1> QED
  BY <1>3, <1>4, <1>6, <1>8, <1>9, LayersAreCounted DEF Composition

LEMMA InitializeComposes ==
  ASSUME WorldInv, NEW h \in Handle, Compose(h), ~Ensures(h)
  PROVE  Composition(Asked(h))
<1> DEFINE q == Asked(h)
           stack == WorldStack(q)
           m == [op |-> "initialize_layer_stack", requests |-> stack]
<1>1. Mutation(h) = m
  BY DEF Mutation
<1>2. VerdictOnInitialize(m) = "commit"
  <2> HIDE DEF stack
  <2> QED
    BY <1>1 DEF Compose, LayerVerdict
<1>3. ValidStack(stack) /\ Layers = {}
  BY <1>2 DEF VerdictOnInitialize
<1>4. /\ layer' = [l \in Layer |->
           IF \E i \in DOMAIN stack : stack[i].layer = l
           THEN LET i == CHOOSE j \in DOMAIN stack : stack[j].layer = l
                IN RowOf(stack[i], i - 1)
           ELSE NoLayer]
      /\ doc' = RequireStack(m)
  <2> HIDE DEF stack
  <2> QED
    BY <1>1 DEF Compose, AppendLayer, InitializeLayerStack
<1>5. Requested(q) = {stack[i] : i \in DOMAIN stack} /\ DOMAIN stack = 1..5
  BY DEF Requested, Ensures, EnsureOp, RequestsOf, WorldStack
<1>6. \A i, j \in DOMAIN stack : stack[i].layer = stack[j].layer => i = j
  BY <1>3 DEF ValidStack
<1>7. "revision" \in DOMAIN doc' /\ doc'.revision = doc.revision + 1
  <2> HIDE DEF m
  <2> QED
    BY <1>4 DEF RequireStack, Advance, NextRevision, WorldInv, ShapeOK
<1>8. ASSUME NEW r \in Requested(q)
      PROVE  r.layer \notin Layers /\ \E n \in Nat : layer'[r.layer] = RowOf(r, n)
  <2>1. PICK i \in DOMAIN stack : r = stack[i]
    BY <1>5
  <2>2. r.layer \in Layer
    BY <1>8, RequestedIsDrawable DEF Compose
  <2> HIDE DEF stack
  <2>3. (CHOOSE j \in DOMAIN stack : stack[j].layer = r.layer) = i
    BY <1>6, <2>1
  <2>4. layer'[r.layer] = RowOf(stack[i], i - 1)
    BY <1>4, <2>1, <2>2, <2>3
  <2>5. i - 1 \in Nat
    BY <1>5, <2>1
  <2> QED
    BY <1>3, <2>1, <2>4, <2>5
<1>9. ASSUME NEW l \in Layer, \A r \in Requested(q) : r.layer # l
      PROVE  layer'[l] = layer[l]
  <2> HIDE DEF stack
  <2>1. layer'[l] = NoLayer
    BY <1>4, <1>5, <1>9
  <2>2. layer[l] = NoLayer
    BY <1>3 DEF Layers
  <2> QED
    BY <2>1, <2>2
<1>10. layer' = [l \in Layer |-> layer'[l]]
  <2> HIDE DEF stack
  <2> QED
    BY <1>4
<1> HIDE DEF stack, m
<1> QED
  BY <1>7, <1>8, <1>9, <1>10 DEF Composition

LEMMA Composes ==
  ASSUME WorldInv, NEW h \in Handle, Compose(h)
  PROVE  Composition(Asked(h))
BY AppendComposes, InitializeComposes

LEMMA ComposeKeeps ==
  ASSUME WorldInv, NEW h \in Handle, Compose(h)
  PROVE  WorldInv'
<1> DEFINE q == Asked(h)
<1>1. Composition(q)
  BY Composes
<1>2. PICK error : Becomes(h, Answered(h, error, TRUE))
  BY DEF Compose, AnswerWith, Answered, Becomes
<1>3. Whole(Answered(h, error, TRUE)) /\ WorkerOK(Answered(h, error, TRUE), catalog)
  BY Rests DEF Answered, Resting
<1>4. /\ worker' = [k \in Handle |-> worker'[k]]
      /\ \A k \in Handle : Whole(worker'[k]) /\ WorkerOK(worker'[k], catalog)
  <2> DEFINE w == Answered(h, error, TRUE)
  <2>1. Becomes(h, w) /\ Whole(w) /\ WorkerOK(w, catalog)
    BY <1>2, <1>3
  <2> HIDE DEF w
  <2> QED
    BY <2>1, WorkerMoves DEF WorldInv
<1>5. catalog' = catalog
  BY DEF Compose
<1>6. ShapeOK' /\ WorkersOK'
  BY <1>1, <1>4, <1>5 DEF Composition, ShapeOK, WorkersOK, WorldInv
<1>7. ASSUME NEW l \in Layer, layer'[l] # NoLayer, l \in DOMAIN RoleOf
      PROVE  RowOK(layer'[l], catalog)
  <2>1. CASE \A r \in Requested(q) : r.layer # l
    BY <1>1, <1>7, <2>1 DEF Composition, WorldInv, WiringOK, Layers
  <2>2. CASE \E r \in Requested(q) : r.layer = l
    <3>1. PICK r \in Requested(q) : r.layer = l
      BY <2>2
    <3>2. PICK n \in Nat : layer'[l] = RowOf(r, n)
      BY <1>1, <3>1 DEF Composition
    <3>3. /\ r.state \in LayerState /\ r.resources = NoBindings
          /\ r.sources \in Bindings(Source)
          /\ \A slot \in Slot :
               r.sources[slot] # Unbound => Drawable(catalog, slot, r.sources[slot])
      BY <3>1, RequestedIsDrawable DEF Compose
    <3> QED
      BY <3>2, <3>3, RowIsThere DEF RowOK
  <2> QED
    BY <2>1, <2>2
<1>8. WiringOK'
  BY <1>5, <1>7 DEF WiringOK, Layers
<1> QED
  BY <1>6, <1>8 DEF WorldInv

-----------------------------------------------------------------------------
(* Edits of layers by the others.                                          *)

LEMMA UserRequests ==
  ASSUME NEW q \in UserCall
  PROVE  /\ q \in LayerCallType
         /\ q.op = "append_layer" => q.request.layer \notin DOMAIN RoleOf
         /\ q.op = "append_layer_bindings" => q.layer \notin DOMAIN RoleOf
         /\ q.op = "initialize_layer_stack" =>
              \A i \in DOMAIN q.requests : q.requests[i].layer \notin DOMAIN RoleOf
<1>1. q.op = "initialize_layer_stack" =>
        \A r \in RequestsOf(q) : r.layer \notin DOMAIN RoleOf
  BY UserAssumption
<1> QED
  BY <1>1, WorldAssumption, UserAssumption DEF RequestsOf

(* A layer of the world that is there after an edit was there before, with *)
(* the same bindings to sources.                                           *)
Rewires(l) ==
  layer'[l] # NoLayer => /\ layer[l] # NoLayer
                         /\ "sources" \in DOMAIN layer[l] =>
                              /\ "sources" \in DOMAIN layer'[l]
                              /\ layer'[l].sources = layer[l].sources

LEMMA ReorderedRow ==
  ASSUME NEW order, NEW layers \in SUBSET Layers, NEW l \in Layer,
         Reordered(order, layers)[l] # NoLayer
  PROVE  /\ layer[l] # NoLayer
         /\ "sources" \in DOMAIN layer[l] =>
              /\ "sources" \in DOMAIN Reordered(order, layers)[l]
              /\ Reordered(order, layers)[l].sources = layer[l].sources
<1> DEFINE n == OrdinalAfter(order, Cardinality(layers), l)
<1>1. l \in layers /\ Reordered(order, layers)[l] = [layer[l] EXCEPT !.ordinal = n]
  BY DEF Reordered
<1> HIDE DEF n
<1> QED
  BY <1>1 DEF Layers

LEMMA EditsRewireNothing ==
  ASSUME ShapeOK, NEW q \in UserCall, LayerStep(q)
  PROVE  /\ layer' = [l \in Layer |-> layer'[l]]
         /\ "revision" \in DOMAIN doc'
         /\ \A l \in DOMAIN RoleOf : l \in Layer /\ Rewires(l)
<1>0. DOMAIN RoleOf \subseteq Layer
  BY WorldAssumption
<1>1. layer = [l \in Layer |-> layer[l]] /\ "revision" \in DOMAIN doc
  BY DEF ShapeOK
<1>2. CASE AppendLayer(q)
  <2>1. q.request.layer \notin DOMAIN RoleOf
    BY <1>2, UserRequests DEF AppendLayer
  <2>2. /\ layer' = [layer EXCEPT ![q.request.layer] = RowOf(q.request, Cardinality(Layers))]
        /\ doc' = RequireBound(Bound(q.request.resources))
    BY <1>2 DEF AppendLayer
  <2>3. "revision" \in DOMAIN doc'
    BY <1>1, <2>2 DEF RequireBound, Advance
  <2> QED
    BY <1>0, <1>1, <2>1, <2>2, <2>3 DEF Rewires
<1>3. CASE AppendLayerBindings(q)
  <2>1. q.layer \notin DOMAIN RoleOf
    BY <1>3, UserRequests DEF AppendLayerBindings
  <2>2. PICK row : layer' = [layer EXCEPT ![q.layer] = row]
    BY <1>3 DEF AppendLayerBindings
  <2>3. "revision" \in DOMAIN doc'
    BY <1>1, <1>3 DEF AppendLayerBindings, RequireBound, Advance
  <2> QED
    BY <1>0, <1>1, <2>1, <2>2, <2>3 DEF Rewires
<1>4. CASE UpdateLayerState(q)
  <2>1. VerdictOnState(q) = "commit"
    BY <1>4 DEF UpdateLayerState, LayerVerdict
  <2>2. q.layer \in Layers
    BY <2>1 DEF VerdictOnState
  <2>3. layer' = [layer EXCEPT ![q.layer] = [layer[q.layer] EXCEPT !.state = q.state]]
    BY <1>4 DEF UpdateLayerState
  <2>4. "revision" \in DOMAIN doc'
    BY <1>1, <1>4 DEF UpdateLayerState, Advance
  <2> QED
    BY <1>0, <1>1, <2>2, <2>3, <2>4 DEF Rewires, Layers
<1>5. ASSUME NEW order, NEW layers \in SUBSET Layers,
             layer' = Reordered(order, layers), doc' = Advance(doc, doc.frozen)
      PROVE  /\ layer' = [l \in Layer |-> layer'[l]]
             /\ "revision" \in DOMAIN doc'
             /\ \A l \in DOMAIN RoleOf : l \in Layer /\ Rewires(l)
  <2>1. layer' = [l \in Layer |-> layer'[l]]
    BY <1>5 DEF Reordered
  <2>2. "revision" \in DOMAIN doc'
    BY <1>1, <1>5 DEF Advance
  <2> QED
    BY <1>0, <1>5, <2>1, <2>2, ReorderedRow DEF Rewires
<1>8. CASE SetLayerOrder(q)
  BY <1>5, <1>8 DEF SetLayerOrder
<1>9. CASE RemoveLayer(q)
  <2>1. Layers \ {q.layer} \in SUBSET Layers
    OBVIOUS
  <2> QED
    BY <1>5, <1>9, <2>1 DEF RemoveLayer, RowsWithout
<1>6. CASE InitializeLayerStack(q)
  <2>1. \A i \in DOMAIN q.requests : q.requests[i].layer \notin DOMAIN RoleOf
    BY <1>6, UserRequests DEF InitializeLayerStack
  <2>2. /\ layer' = [l \in Layer |-> layer'[l]]
        /\ \A l \in Layer : (\A i \in DOMAIN q.requests : q.requests[i].layer # l)
                              => layer'[l] = NoLayer
    BY <1>6 DEF InitializeLayerStack
  <2>3. "revision" \in DOMAIN doc'
    BY <1>1, <1>6 DEF InitializeLayerStack, RequireStack, Advance
  <2> QED
    BY <1>0, <2>1, <2>2, <2>3 DEF Rewires
<1>7. CASE StoreSourceSnapshot(q)
  BY <1>0, <1>1, <1>7 DEF StoreSourceSnapshot, Advance, Rewires
<1> QED
  BY <1>2, <1>3, <1>4, <1>6, <1>7, <1>8, <1>9 DEF LayerStep

LEMMA EditKeeps ==
  ASSUME WorldInv, EditLayers
  PROVE  WorldInv'
<1>1. PICK q \in UserCall : LayerStep(q)
  BY DEF EditLayers
<1>2. catalog' = catalog /\ worker' = worker
  BY DEF EditLayers
<1>3. /\ layer' = [l \in Layer |-> layer'[l]]
      /\ "revision" \in DOMAIN doc'
      /\ \A l \in DOMAIN RoleOf : l \in Layer /\ Rewires(l)
  BY <1>1, EditsRewireNothing DEF WorldInv
<1>4. ShapeOK' /\ WorkersOK'
  BY <1>2, <1>3 DEF WorldInv, ShapeOK, WorkersOK
<1>5. ASSUME NEW l \in DOMAIN RoleOf, layer'[l] # NoLayer
      PROVE  RowOK(layer'[l], catalog)
  <2>1. l \in Layers /\ Rewires(l)
    BY <1>3, <1>5 DEF Rewires, Layers
  <2>2. RowOK(layer[l], catalog)
    BY <2>1 DEF WorldInv, WiringOK
  <2> QED
    BY <1>5, <2>1, <2>2 DEF RowOK, Rewires
<1>6. WiringOK'
  BY <1>2, <1>5 DEF WiringOK, Layers
<1> QED
  BY <1>4, <1>6 DEF WorldInv

-----------------------------------------------------------------------------
(* The theorems.                                                           *)

LEMMA WorldInitially ==
  ASSUME WorldInit
  PROVE  WorldInv
<1>1. "revision" \in DOMAIN doc
  BY DEF WorldInit, LayerInit, DocumentInit, NewDocument
<1>2. \A h \in Handle : worker[h] = AtRest
  BY DEF WorldInit
<1>3. Whole(AtRest) /\ WorkerOK(AtRest, catalog)
  BY DEF AtRest, Whole, Fields, WorkerOK, Resting, Looking
<1>4. /\ layer = [l \in Layer |-> NoLayer]
      /\ catalog = [s \in Source |-> [part \in Sources!Parts |-> Missing]]
      /\ worker = [h \in Handle |-> AtRest]
  BY DEF WorldInit, LayerInit, Sources!Init
<1> HIDE DEF AtRest
<1>5. ShapeOK
  BY <1>1, <1>2, <1>3, <1>4 DEF ShapeOK
<1>6. WorkersOK
  BY <1>2, <1>3 DEF WorkersOK
<1>7. WiringOK
  BY <1>4 DEF WiringOK, Layers
<1> QED
  BY <1>5, <1>6, <1>7 DEF WorldInv

(* The invariant holds whoever composes, stores and edits, in whatever     *)
(* order the reads and mutations fall.                                     *)
THEOREM WorldSafety == WorldSpec => []WorldInv
<1>1. WorldInit => WorldInv
  BY WorldInitially
<1>2. WorldInv /\ [WorldNext]_worldVars => WorldInv'
  <2> SUFFICES ASSUME WorldInv, [WorldNext]_worldVars
               PROVE  WorldInv'
    OBVIOUS
  <2>1. CASE \E h \in Handle : Begin(h)
    BY <2>1, BeginKeeps
  <2>2. CASE \E h \in Handle : Look(h) \/ LeaveComposed(h) \/ StorageFails(h)
    BY <2>2, LooksKeep
  <2>3. CASE \E h \in Handle : Compose(h)
    BY <2>3, ComposeKeeps
  <2>4. CASE \E s \in Source : StoreSource(s)
    BY <2>4, StoreKeeps
  <2>5. CASE EditLayers
    BY <2>5, EditKeeps
  <2>6. CASE UNCHANGED worldVars
    BY <2>6 DEF worldVars, WorldInv, ShapeOK, WorkersOK, WiringOK, Layers
  <2> QED
    BY <2>1, <2>2, <2>3, <2>4, <2>5, <2>6 DEF WorldNext
<1> QED
  BY <1>1, <1>2, PTL DEF WorldSpec

(* A layer that was composed can be drawn: all its channels are complete   *)
(* and every surface feature has a known class, although the composition   *)
(* read them one after the other while they were being stored.             *)
THEOREM WiredIsStored == WorldSpec => []ChannelsAreStored
<1>1. WorldInv => ChannelsAreStored
  <2> SUFFICES ASSUME WorldInv, NEW l \in Layers \cap DOMAIN RoleOf, NEW slot \in Slot,
                      layer[l].sources[slot] # Unbound
               PROVE  Channel(slot, layer[l].sources[slot])
    BY DEF ChannelsAreStored
  <2>1. Drawable(catalog, slot, layer[l].sources[slot])
    BY DEF WorldInv, WiringOK, RowOK
  <2> DEFINE s == layer[l].sources[slot]
  <2>2. PICK t : t = s
    OBVIOUS
  <2>3. Drawable(catalog, slot, t)
    BY <2>1, <2>2
  <2> HIDE DEF s
  <2>4. /\ Features(Parts(t).geometry) = DOMAIN catalog[t].geometry
        /\ DOMAIN catalog[t].geometry # {}
    BY <2>3 DEF Drawable, Features, Parts
  <2>5. slot # "geometry" =>
          Features(Parts(t).properties) = DOMAIN catalog[t].geometry
    BY <2>3 DEF Drawable, KnowsProperties, Features, Parts
  <2>6. slot = "classification" =>
          \A f \in DOMAIN catalog[t].geometry : Parts(t).properties[f] \in SurfaceClass
    BY <2>3 DEF Drawable, KnowsClasses, Parts
  <2>7. Channel(slot, t)
    BY <2>4, <2>5, <2>6 DEF Channel
  <2> QED
    BY <2>2, <2>7 DEF s
<1> QED
  BY <1>1, WorldSafety, PTL

(* All that a composition asked for is there once it succeeded, or         *)
(* committed and failed afterwards.                                        *)
LEMMA ComposedIsThere ==
  ASSUME WorldInv, NEW h \in Handle, Compose(h), NEW r \in Requested(Asked(h))
  PROVE  /\ r.layer \in Layer /\ layer'[r.layer] # NoLayer
         /\ layer'[r.layer].sources = r.sources
<1>1. PICK n \in Nat : layer'[r.layer] = RowOf(r, n)
  BY Composes DEF Composition
<1>2. /\ r.layer \in Layer /\ r.state \in LayerState /\ r.resources = NoBindings
      /\ r.sources \in Bindings(Source)
  BY RequestedIsDrawable DEF Compose
<1> QED
  BY <1>1, <1>2, RowIsThere

(* The vector of layers that load_layers returns has only layers of the    *)
(* project, since their ordinals are dense.                                *)
LEMMA OrderIsOfLayers ==
  ASSUME LayersReadable
  PROVE  OrderOf(Layers) \in [1..Cardinality(Layers) -> Layers]
<1> DEFINE n == Cardinality(Layers)
           at == [i \in 1..n |-> CHOOSE l \in Layers : layer[l].ordinal = i - 1]
<1>1. n \in Nat
  BY LayersAreCounted
<1>2. \A i \in 1..n : \E l \in Layers : layer[l].ordinal = i - 1
  <2>1. {layer[l].ordinal : l \in Layers} = 0..n - 1
    BY DEF LayersReadable
  <2>2. \A i \in 1..n : i - 1 \in 0..n - 1
    BY <1>1
  <2> QED
    BY <2>1, <2>2
<1>3. \A i \in 1..n : at[i] \in Layers /\ layer[at[i]].ordinal = i - 1
  BY <1>2
<1>4. at \in [1..n -> Layers]
  BY <1>3
<1>5. \A i, j \in DOMAIN at : i < j => layer[at[i]].ordinal < layer[at[j]].ordinal
  BY <1>1, <1>3, <1>4
<1> HIDE DEF at
<1> QED
  BY <1>4, <1>5 DEF OrderOf

(* An existing stack that is equal to what was asked for has all of it.    *)
LEMMA EqualIsThere ==
  ASSUME NEW requests, LayersReadable, EqualStack(requests), NEW i \in DOMAIN requests
  PROVE  /\ requests[i].layer \in Layers
         /\ layer[requests[i].layer].sources = requests[i].sources
<1> DEFINE order == OrderOf(Layers)
<1>1. order \in [1..Cardinality(Layers) -> Layers]
  BY OrderIsOfLayers
<1> HIDE DEF order
<1>2. [k \in DOMAIN order |-> StoredRequest(order[k])] = requests
  BY DEF EqualStack, ExistingStack, order
<1>3. i \in DOMAIN order /\ requests[i] = StoredRequest(order[i])
  BY <1>2
<1>4. order[i] \in Layers
  BY <1>1, <1>3
<1> QED
  BY <1>3, <1>4 DEF StoredRequest

(* So has what a mutation that finds nothing to do was asked for.          *)
LEMMA RetriedIsThere ==
  ASSUME WorldInv, NEW h \in Handle, At(h, "compose"),
         LayerVerdict(Mutation(h)) = "retry", NEW r \in Requested(Asked(h))
  PROVE  r.layer \in Layers /\ layer[r.layer].sources = r.sources
<1> DEFINE q == Asked(h)
<1>1. CASE Ensures(h)
  <2>1. r = SurfaceRequest(q)
    BY <1>1 DEF Requested, Ensures, EnsureOp
  <2>2. VerdictOnAppend(r) = "retry"
    BY <1>1, <2>1 DEF Mutation, LayerVerdict
  <2>3. r.layer \in Layers /\ EqualExisting(r)
    BY <2>2 DEF VerdictOnAppend, Committed
  <2> QED
    BY <2>3 DEF EqualExisting, RowOf
<1>2. CASE ~Ensures(h)
  <2> DEFINE stack == WorldStack(q)
             m == [op |-> "initialize_layer_stack", requests |-> stack]
  <2>1. PICK i \in DOMAIN stack : r = stack[i]
    BY <1>2 DEF Requested, Ensures, EnsureOp, RequestsOf
  <2> HIDE DEF stack
  <2>2. Mutation(h) = m
    BY <1>2 DEF Mutation, stack
  <2>3. VerdictOnInitialize(m) = "retry"
    BY <2>2 DEF LayerVerdict
  <2>4. LayersReadable /\ EqualStack(stack)
    BY <2>3 DEF VerdictOnInitialize, Committed
  <2> QED
    BY <2>1, <2>4, EqualIsThere
<1> QED
  BY <1>1, <1>2

(* What a composition reports is true when it does: after success, or a    *)
(* change, all of its layers are there with their wiring, and without a    *)
(* change there was none, in every interleaving with stores and edits.     *)
THEOREM AnswersAreTrue == WorldSpec => CompositionAnswersTrue
<1> DEFINE Told(h) ==
      LET outcome == worker'[h].outcome
      IN /\ outcome.error = "none" \/ outcome.changed => (IsComposed(Asked(h)))'
         /\ ~outcome.changed => layer' = layer
<1>1. ASSUME WorldInv, WorldInv', [WorldNext]_worldVars, NEW h \in Handle, Answers(h)
      PROVE  Told(h)
  <2>1. PICK k \in Handle : Begin(k) \/ Look(k) \/ Compose(k) \/ LeaveComposed(k) \/ StorageFails(k)
    BY <1>1 DEF WorldNext, worldVars, Answers, StoreSource, EditLayers
  <2>2. worker = [j \in Handle |-> worker[j]] /\ Whole(worker[h])
    BY <1>1 DEF WorldInv, ShapeOK
  <2>3. k = h
    BY <1>1, <2>1, <2>2 DEF Begin, Look, Compose, LeaveComposed, StorageFails, Answers,
         ReadSnapshots, ReadPhysicalGeometry, ReadGeometry, ReadProperties, ReadClass,
         Classified, ReadLayers, Refuse, AnswerWith, Go
  <2>4. ASSUME NEW error, NEW changed, AnswerWith(h, error, changed)
        PROVE  worker'[h].call = Asked(h) /\ worker'[h].outcome.error = error
               /\ worker'[h].outcome.changed = changed
    <3>1. worker'[h] = Answered(h, error, changed)
      BY <2>2, <2>4 DEF AnswerWith, Answered
    <3>2. /\ worker'[h].call = Asked(h)
          /\ worker'[h].outcome = Outcome(error, changed)
      BY <3>1, AnsweredFields
    <3> QED
      BY <3>2 DEF Outcome
  <2>5. ASSUME NEW error, error # "none", ReadsOnly, Refuse(h, error)
        PROVE  Told(h)
    BY <2>4, <2>5 DEF Refuse, ReadsOnly
  <2>6. ASSUME worker[h].pc \in Looking, worker'[h].call = Asked(h),
               \A r \in Requested(Asked(h)) :
                 r.layer \in Layers' /\ layer'[r.layer].sources = r.sources
        PROVE  (IsComposed(Asked(h)))'
    <3>1. PICK q : q = Asked(h)
      OBVIOUS
    <3>2. q \in WorldCall /\ q = Asked(h)'
      BY <1>1, <2>6, <3>1, Looker DEF Asked
    <3>3. \A r \in Requested(q) : r.layer \in Layers' /\ layer'[r.layer].sources = r.sources
      BY <2>6, <3>1
    <3>4. CASE q.op = EnsureOp
      <4>1. SurfaceRequest(q) \in Requested(q) /\ SurfaceRequest(q).layer = Surface
        BY <3>4 DEF Requested, SurfaceRequest, Wired
      <4>2. Surface \in Layers' /\ layer'[Surface].sources = SurfaceRequest(q).sources
        BY <3>3, <4>1
      <4> QED
        BY <3>2, <3>4, <4>2 DEF IsComposed, EnsureOp
    <3>5. CASE q.op = InitializeOp
      <4>1. Requested(q) = RequestsOf([requests |-> WorldStack(q)])
        BY <3>5 DEF Requested, InitializeOp, EnsureOp
      <4> QED
        BY <3>2, <3>3, <3>5, <4>1 DEF IsComposed, InitializeOp
    <3> QED
      BY <3>2, <3>4, <3>5, CallTypes
  <2>7. CASE Begin(h)
    <3>1. PICK q \in WorldCall :
            \/ worker'[h] = [AtRest EXCEPT !.pc = "done", !.call = q,
                               !.outcome = Outcome("invalid_request", FALSE)]
            \/ worker'[h] = [AtRest EXCEPT !.pc = "snapshots", !.call = q]
      BY <2>2, <2>7 DEF Begin
    <3>2. worker'[h].outcome = Outcome("invalid_request", FALSE)
      BY <1>1, <3>1 DEF Answers, AtRest
    <3> QED
      BY <2>7, <3>2 DEF Begin, ReadsOnly, Outcome
  <2>8. CASE Look(h) /\ ~At(h, "layers")
    <3>1. ReadsOnly /\ \E error : error # "none" /\ Refuse(h, error)
      <4>1. Refuse(h, "source_contract_mismatch")
        BY <1>1, <2>2, <2>8 DEF Look, ReadSnapshots, ReadPhysicalGeometry, ReadGeometry,
           ReadProperties, ReadClass, Classified, ReadLayers, Go, Answers, At, Whole, Fields
      <4>2. ReadsOnly
        BY <2>8 DEF Look, ReadSnapshots, ReadPhysicalGeometry, ReadGeometry,
           ReadProperties, ReadClass, Classified, ReadLayers
      <4> QED
        BY <4>1, <4>2
    <3> QED
      BY <2>5, <3>1
  <2>9. CASE Look(h) /\ At(h, "layers")
    <3>1. ReadLayers(h) /\ ReadsOnly /\ worker[h].pc = "layers"
      BY <2>9 DEF Look, ReadSnapshots, ReadPhysicalGeometry, ReadGeometry,
         ReadProperties, ReadClass, Classified, ReadLayers, At
    <3>2. Surface \in Layers
      BY <1>1, <2>2, <3>1 DEF ReadLayers, Go, Answers, Whole, Fields
    <3>3. CASE ExactSurfaceWiring(layer[Surface], Asked(h))
      <4>1. AnswerWith(h, "none", FALSE)
        BY <3>1, <3>2, <3>3 DEF ReadLayers, Refuse
      <4>2. Asked(h).op = EnsureOp
        BY <1>1, <3>1, Looker DEF WorkerOK, Looking, Asked
      <4>3. Requested(Asked(h)) = {SurfaceRequest(Asked(h))}
        BY <4>2 DEF Requested
      <4>4. SurfaceRequest(Asked(h)).layer = Surface
        BY DEF SurfaceRequest, Wired
      <4>5. \A r \in Requested(Asked(h)) :
              r.layer \in Layers' /\ layer'[r.layer].sources = r.sources
        BY <3>1, <3>2, <3>3, <4>3, <4>4 DEF ExactSurfaceWiring, ReadsOnly, Layers
      <4> QED
        BY <2>4, <2>6, <3>1, <4>1, <4>5 DEF Looking, ReadsOnly
    <3>4. CASE ~ExactSurfaceWiring(layer[Surface], Asked(h))
      BY <2>5, <3>1, <3>2, <3>4 DEF ReadLayers
    <3> QED
      BY <3>3, <3>4
  <2>10. CASE Compose(h)
    <3>1. PICK error : AnswerWith(h, error, TRUE)
      BY <2>10 DEF Compose
    <3>2. \A r \in Requested(Asked(h)) :
            r.layer \in Layers' /\ layer'[r.layer].sources = r.sources
      BY <1>1, <2>10, ComposedIsThere DEF Layers
    <3> QED
      BY <2>4, <2>6, <2>10, <3>1, <3>2 DEF Compose, At, Looking
  <2>11. CASE LeaveComposed(h)
    <3> DEFINE verdict == LayerVerdict(Mutation(h))
    <3>1. Refuse(h, NotComposed(verdict)) /\ ReadsOnly /\ At(h, "compose")
      BY <2>11 DEF LeaveComposed
    <3>2. CASE verdict = "retry"
      <4>1. \A r \in Requested(Asked(h)) :
              r.layer \in Layers' /\ layer'[r.layer].sources = r.sources
        BY <1>1, <3>1, <3>2, RetriedIsThere DEF ReadsOnly, Layers
      <4>2. AnswerWith(h, "none", FALSE)
        BY <3>1, <3>2 DEF NotComposed, Refuse
      <4> QED
        BY <2>4, <2>6, <3>1, <4>1, <4>2 DEF At, Looking, ReadsOnly
    <3>3. CASE verdict # "retry"
      BY <2>5, <3>1, <3>3 DEF NotComposed
    <3> QED
      BY <3>2, <3>3
  <2>12. CASE StorageFails(h)
    BY <2>5, <2>12 DEF StorageFails
  <2> QED
    BY <2>1, <2>3, <2>7, <2>8, <2>9, <2>10, <2>11, <2>12
<1>2. WorldInv /\ WorldInv' /\ [WorldNext]_worldVars
        => [\A h \in Handle : Answers(h) => Told(h)]_worldVars
  BY <1>1
<1> QED
  BY <1>2, WorldSafety, PTL DEF WorldSpec, CompositionAnswersTrue

(* No composition touches a layer that is there, with its name, visibility,*)
(* wiring and place, and what it adds comes in one revision.               *)
THEOREM UserStateStays == WorldSpec => UserStateSurvives
<1> DEFINE Kept == /\ \A l \in Layers : layer'[l] = layer[l]
                   /\ layer' # layer => doc'.revision = doc.revision + 1
<1>1. ASSUME WorldInv, [WorldNext]_worldVars, \E h \in Handle : worker'[h] # worker[h]
      PROVE  Kept
  <2>1. PICK k \in Handle : Begin(k) \/ Look(k) \/ Compose(k) \/ LeaveComposed(k) \/ StorageFails(k)
    BY <1>1 DEF WorldNext, worldVars, StoreSource, EditLayers
  <2>2. CASE ~Compose(k)
    <3>1. layer' = layer
      BY <2>1, <2>2 DEF Begin, Look, LeaveComposed, StorageFails, ReadSnapshots,
         ReadPhysicalGeometry, ReadGeometry, ReadProperties, ReadClass, Classified,
         ReadLayers, ReadsOnly
    <3> QED
      BY <3>1
  <2>3. CASE Compose(k)
    <3>1. Composition(Asked(k))
      BY <1>1, <2>3, Composes
    <3>2. ASSUME NEW l \in Layers
          PROVE  layer'[l] = layer[l]
      BY <3>1 DEF Composition, Layers
    <3> QED
      BY <3>1, <3>2 DEF Composition
  <2> QED
    BY <2>2, <2>3
<1>2. WorldInv /\ [WorldNext]_worldVars
        => [(\E h \in Handle : worker'[h] # worker[h]) => Kept]_worldVars
  BY <1>1
<1> QED
  BY <1>2, WorldSafety, PTL DEF WorldSpec, UserStateSurvives

=============================================================================
