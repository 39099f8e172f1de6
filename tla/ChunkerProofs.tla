--------------------------- MODULE ChunkerProofs ----------------------------
(***************************************************************************)
(* What the chunker guarantees for every blob and every tree that          *)
(* tree-sitter may return, whatever the limits.                            *)
(***************************************************************************)
EXTENDS Chunker, FiniteSetTheorems, WellFoundedInduction, TLAPS

-----------------------------------------------------------------------------
(* Sets of numbers *)

\* A nonempty set of offsets has a smallest element.
LEMMA SmallestIn ==
  ASSUME NEW S, S \subseteq Nat, S # {}
  PROVE  /\ Smallest(S) \in S
         /\ \A y \in S : Smallest(S) <= y
<1>1. PICK x \in S : \A y \in S : ~ (<<y, x>> \in OpToRel(<, Nat))
  <2> HIDE DEF OpToRel
  <2> QED BY WFMin, NatLessThanWellFounded
<1>2. ASSUME NEW y \in S PROVE x <= y
  <2>1. SUFFICES ASSUME y < x PROVE FALSE
    OBVIOUS
  <2>2. <<y, x>> \in OpToRel(<, Nat)
    BY <2>1, Zenon DEF OpToRel
  <2> QED
    BY <2>2, <1>1
<1> QED
  BY <1>2 DEF Smallest

\* A nonempty set of offsets below a bound has a greatest element.
LEMMA GreatestIn ==
  ASSUME NEW n \in Nat, NEW S, S \subseteq 0..n, S # {}
  PROVE  /\ Greatest(S) \in S
         /\ \A y \in S : y <= Greatest(S)
<1> DEFINE T == {y \in 0..n : n - y \in S}
<1>1. T # {} /\ T \subseteq Nat
  <2>1. PICK x \in S : TRUE
    OBVIOUS
  <2>2. n - x \in 0..n /\ n - (n - x) = x
    OBVIOUS
  <2>3. n - x \in T
    BY <2>2
  <2>4. T \subseteq Nat
    OBVIOUS
  <2> HIDE DEF T
  <2> QED
    BY <2>3, <2>4
<1> DEFINE m == Smallest(T)
<1>2. m \in T /\ \A y \in T : m <= y
  <2> HIDE DEF T
  <2> QED BY <1>1, SmallestIn
<1> HIDE DEF m
<1>3. ASSUME NEW y \in S PROVE y <= n - m
  <2>1. y \in 0..n /\ n - y \in 0..n /\ n - (n - y) = y
    OBVIOUS
  <2> QED
    BY <2>1, <1>2
<1>4. n - m \in S
  BY <1>2
<1> QED
  BY <1>3, <1>4 DEF Greatest

-----------------------------------------------------------------------------
(* Bytes *)

\* Sizes are numbers of bytes, never more than there are, ...
LEMMA InkBound ==
  ASSUME NEW a \in Nat, NEW b \in Nat, a <= b
  PROVE  Ink(a, b) \in Nat /\ Ink(a, b) <= b - a
<1> DEFINE S == {k \in a..(b - 1) : blob.bytes[k] = "ink"}
<1>1. IsFiniteSet(a..(b - 1)) /\ Cardinality(a..(b - 1)) = b - a
  <2>1. a \in Int /\ b - 1 \in Int
    OBVIOUS
  <2>2. /\ IsFiniteSet(a..(b - 1))
        /\ Cardinality(a..(b - 1)) = IF a > b - 1 THEN 0 ELSE (b - 1) - a + 1
    BY <2>1, FS_Interval, Zenon
  <2> QED
    BY <2>2
<1>2. S \in SUBSET (a..(b - 1))
  OBVIOUS
<1>3. IsFiniteSet(S) /\ Cardinality(S) <= b - a
  <2> HIDE DEF S
  <2> QED BY <1>1, <1>2, FS_Subset
<1>4. Cardinality(S) \in Nat
  <2> HIDE DEF S
  <2> QED BY <1>3, FS_CardinalityType
<1>5. Ink(a, b) = Cardinality(S)
  BY Zenon DEF Ink
<1> QED
  BY <1>3, <1>4, <1>5

\* ... and they add up, which is why _merge need not count again.
LEMMA InkAdds ==
  ASSUME NEW a \in Nat, NEW b \in Nat, NEW c \in Nat, a <= b, b <= c
  PROVE  Ink(a, c) = Ink(a, b) + Ink(b, c)
<1> DEFINE S(x, y) == {k \in x..(y - 1) : blob.bytes[k] = "ink"}
<1>1. ASSUME NEW x \in Nat, NEW y \in Nat PROVE IsFiniteSet(S(x, y))
  <2>1. IsFiniteSet(x..(y - 1))
    BY FS_Interval
  <2>2. S(x, y) \in SUBSET (x..(y - 1))
    OBVIOUS
  <2> QED
    BY <2>1, <2>2, FS_Subset
<1>2. S(a, c) = S(a, b) \cup S(b, c) /\ S(a, b) \cap S(b, c) = {}
  OBVIOUS
<1>3. /\ Cardinality(S(a, b)) \in Nat /\ Cardinality(S(b, c)) \in Nat
      /\ Cardinality(S(a, b) \cup S(b, c)) =
           Cardinality(S(a, b)) + Cardinality(S(b, c)) - Cardinality(S(a, b) \cap S(b, c))
  <2> HIDE DEF S
  <2> QED BY <1>1, FS_Union, FS_CardinalityType
<1>4. Cardinality(S(a, b) \cap S(b, c)) = 0
  BY <1>2, FS_EmptySet
<1>5. /\ Ink(a, b) = Cardinality(S(a, b)) /\ Ink(b, c) = Cardinality(S(b, c))
      /\ Ink(a, c) = Cardinality(S(a, c))
  BY Zenon DEF Ink
<1> QED
  <2> HIDE DEF S
  <2> QED BY <1>2, <1>3, <1>4, <1>5

-----------------------------------------------------------------------------
(* Cutting an extent *)

\* S cuts [a, b) into nonempty extents, each byte in one of them.
Splits(S, a, b) ==
  /\ \A s \in S : s.from \in a..b /\ s.to \in a..b /\ s.from < s.to
  /\ \A k \in a..(b - 1) : Covers(S, k)
  /\ \A c, d \in S : c # d => Disjoint(c, d)

\* Cutting one part further leaves a cut, and makes no part that was there.
LEMMA Refine ==
  ASSUME NEW n \in Nat, NEW P, Splits(P, 0, n),
         NEW x \in P, NEW S, Splits(S, x.from, x.to)
  PROVE  /\ Splits((P \ {x}) \cup S, 0, n)
         /\ S \cap (P \ {x}) = {}
<1> DEFINE Q == (P \ {x}) \cup S
<1>1. x.from \in 0..n /\ x.to \in 0..n /\ x.from < x.to
  BY DEF Splits
<1>2. \A s \in S : s.from \in x.from..x.to /\ s.to \in x.from..x.to /\ s.from < s.to
  BY DEF Splits
<1>3. ASSUME NEW s \in Q PROVE s.from \in 0..n /\ s.to \in 0..n /\ s.from < s.to
  BY <1>1, <1>2 DEF Splits
<1>4. ASSUME NEW k \in 0..(n - 1) PROVE Covers(Q, k)
  <2>1. PICK c \in P : c.from <= k /\ k < c.to
    BY DEF Splits, Covers
  <2>2. CASE c # x
    BY <2>1, <2>2 DEF Covers
  <2>3. CASE c = x
    <3>1. k \in x.from..(x.to - 1)
      BY <1>1, <2>1, <2>3
    <3>2. Covers(S, k)
      BY <3>1 DEF Splits
    <3> QED
      BY <3>2 DEF Covers
  <2> QED
    BY <2>2, <2>3
<1>5. ASSUME NEW c \in P \ {x}, NEW d \in S PROVE Disjoint(c, d) /\ Disjoint(d, c)
  <2>1. Disjoint(c, x)
    BY DEF Splits
  <2>2. c.from \in 0..n /\ c.to \in 0..n
    BY DEF Splits
  <2>3. d.from \in x.from..x.to /\ d.to \in x.from..x.to
    BY <1>2
  <2> QED
    BY <1>1, <2>1, <2>2, <2>3 DEF Disjoint
<1>6. ASSUME NEW c \in Q, NEW d \in Q, c # d PROVE Disjoint(c, d)
  BY <1>5, <1>6 DEF Splits
<1>7. S \cap (P \ {x}) = {}
  <2>1. SUFFICES ASSUME NEW s \in S, s \in P \ {x} PROVE FALSE
    OBVIOUS
  <2>2. Disjoint(s, s) /\ s.from < s.to /\ s.from \in 0..n /\ s.to \in 0..n
    BY <2>1, <1>5, <1>3
  <2> QED
    BY <2>2 DEF Disjoint
<1> QED
  BY <1>3, <1>4, <1>6, <1>7 DEF Splits

\* S has the extents of X, under other labels.
Relabels(S, X) ==
  /\ \A e \in X : \E s \in S : s.from = e.from /\ s.to = e.to
  /\ \A s \in S : \E e \in X : s.from = e.from /\ s.to = e.to
  /\ \A c, d \in S : c # d =>
       \E e, f \in X : e # f /\ c.from = e.from /\ c.to = e.to
                           /\ d.from = f.from /\ d.to = f.to

\* What is cut does not depend on what the extents are labelled with.
LEMMA Relabel ==
  ASSUME NEW a \in Nat, NEW b \in Nat, NEW X, NEW S, Splits(X, a, b), Relabels(S, X)
  PROVE  Splits(S, a, b)
<1> USE DEF Relabels
<1>1. \A s \in S : s.from \in a..b /\ s.to \in a..b /\ s.from < s.to
  BY DEF Splits
<1>2. ASSUME NEW k \in a..(b - 1) PROVE Covers(S, k)
  <2>1. PICK e \in X : e.from <= k /\ k < e.to
    BY DEF Splits, Covers
  <2> QED
    BY <2>1 DEF Covers
<1>3. ASSUME NEW c \in S, NEW d \in S, c # d PROVE Disjoint(c, d)
  <2>1. PICK e \in X, f \in X : e # f /\ c.from = e.from /\ c.to = e.to
                                  /\ d.from = f.from /\ d.to = f.to
    BY <1>3
  <2>2. Disjoint(e, f)
    BY <2>1 DEF Splits
  <2> QED
    BY <2>1, <2>2 DEF Disjoint
<1> QED
  BY <1>1, <1>2, <1>3 DEF Splits

\* Pieces that make up [a, b), correctly measured and small enough.
PieceRecords(n) == [from : 0..n, to : 0..n, size : Nat, tainted : BOOLEAN]

Measured(p) == p.size = Ink(p.from, p.to)

Small(p) == IF p.tainted THEN p.to - p.from <= MaxBytes ELSE p.size <= MaxChunk

\* Cut points that begin at a cut [a, b) into measured pieces.
LEMMA PiecesAtCuts ==
  ASSUME NEW a \in Nat, NEW b \in Nat, a < b,
         NEW cuts, \A c \in cuts : c \in Nat /\ a <= c /\ c < b, a \in cuts,
         NEW tainted \in BOOLEAN
  PROVE  /\ Splits(PiecesAt(cuts, b, tainted), a, b)
         /\ \A p \in PiecesAt(cuts, b, tainted) :
              /\ p \in PieceRecords(b) /\ Measured(p) /\ p.tainted = tainted
              /\ p.from \in cuts
              /\ \A d \in cuts \cup {b} : d > p.from => p.to <= d
<1> DEFINE Later(c) == {d \in cuts \cup {b} : d > c}
           E(c) == Smallest(Later(c))
           S == PiecesAt(cuts, b, tainted)
<1>1. ASSUME NEW c \in cuts
      PROVE  /\ E(c) \in cuts \cup {b} /\ c < E(c)
             /\ \A d \in cuts \cup {b} : d > c => E(c) <= d
  <2>1. Later(c) \subseteq Nat /\ b \in Later(c)
    <3> HIDE DEF E, S
    <3> QED OBVIOUS
  <2>2. E(c) \in Later(c) /\ \A d \in Later(c) : E(c) <= d
    <3> HIDE DEF Later
    <3> QED BY <2>1, SmallestIn
  <2> QED
    BY <2>2
<1>2. ASSUME NEW c \in cuts PROVE E(c) \in a..b /\ c \in a..b
  <2> HIDE DEF E, S
  <2>1. a <= c /\ c < b /\ c \in Nat
    OBVIOUS
  <2>2. c < E(c)
    BY <1>1
  <2>3. E(c) = b \/ E(c) \in cuts
    BY <1>1
  <2>4. E(c) \in Nat /\ E(c) <= b
    <3>1. CASE E(c) = b
      BY <3>1
    <3>2. CASE E(c) \in cuts
      <4>1. E(c) \in Nat /\ E(c) < b
        BY <3>2
      <4> QED
        BY <4>1
    <3> QED
      BY <2>3, <3>1, <3>2
  <2> QED
    BY <2>1, <2>2, <2>4
<1>3. S = {Piece(c, E(c), tainted) : c \in cuts}
  BY Zenon DEF PiecesAt
<1> HIDE DEF E, S
<1>4. ASSUME NEW p \in S
      PROVE  /\ p.from \in cuts /\ p.to = E(p.from)
             /\ p.tainted = tainted /\ Measured(p)
             /\ p \in PieceRecords(b)
             /\ \A d \in cuts \cup {b} : d > p.from => p.to <= d
  <2>1. PICK c \in cuts : p = Piece(c, E(c), tainted)
    BY <1>3
  <2>2. c \in 0..b /\ E(c) \in 0..b /\ Ink(c, E(c)) \in Nat
    BY <1>1, <1>2, InkBound
  <2> QED
    BY <2>1, <2>2, <1>1 DEF Piece, Measured, PieceRecords
<1>5. \A p \in S : p.from \in a..b /\ p.to \in a..b /\ p.from < p.to
  BY <1>1, <1>2, <1>4, ZenonT(30)
<1>6. ASSUME NEW k \in a..(b - 1) PROVE Covers(S, k)
  <2> DEFINE Before == {c \in cuts : c <= k}
             c == Greatest(Before)
  <2>1. Before \subseteq 0..k /\ a \in Before /\ k \in Nat
    <3> HIDE DEF c
    <3> QED OBVIOUS
  <2>2. c \in Before /\ \A d \in Before : d <= c
    <3> HIDE DEF Before
    <3> QED BY <2>1, GreatestIn
  <2> HIDE DEF c
  <2>3. k < E(c)
    <3>1. c \in cuts /\ c <= k /\ E(c) \in a..b
      BY <1>2, <2>2
    <3>2. E(c) \in cuts => ~ (E(c) <= k)
      <4>1. SUFFICES ASSUME E(c) \in cuts, E(c) <= k PROVE FALSE
        OBVIOUS
      <4>2. E(c) \in Before
        BY <4>1
      <4>3. E(c) <= c /\ c < E(c) /\ c \in Nat /\ E(c) \in Nat
        BY <4>1, <4>2, <2>2, <1>1, <3>1
      <4> QED
        BY <4>3
    <3> QED
      BY <3>1, <3>2, <1>1
  <2>4. Piece(c, E(c), tainted) \in S
    BY <1>3, <2>2
  <2> QED
    BY <2>2, <2>3, <2>4 DEF Covers, Piece
<1>7. ASSUME NEW p \in S, NEW q \in S, p # q PROVE Disjoint(p, q)
  <2>1. PICK c \in cuts : p = Piece(c, E(c), tainted)
    BY <1>3
  <2>2. PICK d \in cuts : q = Piece(d, E(d), tainted)
    BY <1>3
  <2>3. c < d \/ d < c
    BY <2>1, <2>2, <1>7
  <2> QED
    BY <2>1, <2>2, <2>3, <1>1 DEF Disjoint, Piece
<1> QED
  BY <1>4, <1>5, <1>6, <1>7 DEF Splits, S

\* Cuts begins where its first start is, and no two of its cuts are further
\* apart than the width.
LEMMA CutsDense ==
  ASSUME NEW a \in Nat, NEW b \in Nat, a < b,
         NEW starts, \A s \in starts : s \in Nat /\ a <= s /\ s < b, a \in starts,
         NEW width \in Nat \ {0}
  PROVE  /\ \A c \in Cuts(starts, width, a, b) : c \in Nat /\ a <= c /\ c < b
         /\ a \in Cuts(starts, width, a, b)
         /\ \A c \in Cuts(starts, width, a, b) :
              c + width < b =>
                \E d \in Cuts(starts, width, a, b) : c < d /\ d <= c + width
<1> DEFINE Upto(x) == {s \in starts : s <= x}
           G(x) == Greatest(Upto(x))
           C == Cuts(starts, width, a, b)
<1>1. ASSUME NEW x \in a..(b - 1)
      PROVE  G(x) \in starts /\ G(x) <= x /\ \A s \in starts : s <= x => s <= G(x)
  <2>1. Upto(x) \subseteq 0..x /\ a \in Upto(x) /\ x \in Nat
    <3> HIDE DEF G, C
    <3>1. x \in Nat /\ a <= x
      OBVIOUS
    <3>2. ASSUME NEW s \in Upto(x) PROVE s \in 0..x
      BY <3>1
    <3> QED
      BY <3>1, <3>2
  <2>2. G(x) \in Upto(x) /\ \A s \in Upto(x) : s <= G(x)
    <3> HIDE DEF Upto
    <3> QED BY <2>1, GreatestIn
  <2> QED
    BY <2>2
<1>2. C = {c \in a..(b - 1) : \E k \in 0..(b - a) : c = G(c) + k * width}
  BY Zenon DEF Cuts
<1> HIDE DEF G, C
<1>3. ASSUME NEW s \in starts PROVE s \in C
  <2>1. s \in a..(b - 1)
    OBVIOUS
  <2>2. G(s) = s
    <3>1. G(s) \in starts /\ G(s) <= s /\ s <= G(s)
      BY <1>1, <2>1
    <3>2. G(s) \in Nat /\ s \in Nat
      BY <3>1
    <3> QED
      BY <3>1, <3>2
  <2>3. 0 \in 0..(b - a) /\ s = G(s) + 0 * width
    BY <2>1, <2>2
  <2> QED
    BY <1>2, <2>1, <2>3
<1>4. ASSUME NEW c \in C, c + width < b
      PROVE  \E d \in C : c < d /\ d <= c + width
  <2>1. c \in a..(b - 1) /\ c + width \in a..(b - 1)
    BY <1>2, <1>4
  <2>2. PICK k \in 0..(b - a) : c = G(c) + k * width
    BY <1>2
  <2>3. CASE G(c + width) <= c
    <3>1. /\ G(c) \in Nat /\ G(c) <= c /\ a <= G(c)
          /\ G(c + width) \in Nat /\ G(c) \in starts /\ G(c + width) \in starts
      BY <1>1, <2>1
    <3>2. G(c + width) = G(c)
      <4>1. G(c + width) <= G(c)
        BY <1>1, <2>1, <2>3, <3>1
      <4>2. G(c) <= G(c + width)
        BY <1>1, <2>1, <3>1
      <4> QED
        BY <3>1, <4>1, <4>2
    <3>3. k * width \in Nat /\ (k + 1) * width = k * width + width /\ k <= k * width
      BY ONLY k \in Nat, width \in Nat \ {0}
    <3>4. k + 1 \in 0..(b - a) /\ c + width = G(c) + (k + 1) * width
      BY <2>1, <2>2, <3>1, <3>3
    <3>5. c + width \in C
      BY <1>2, <2>1, <3>2, <3>4
    <3> QED
      BY <3>5, <2>1
  <2>4. CASE c < G(c + width)
    <3>1. G(c + width) \in C /\ G(c + width) <= c + width
      BY <1>1, <1>3, <2>1
    <3> QED
      BY <2>4, <3>1
  <2>5. G(c + width) \in Nat
    BY <1>1, <2>1
  <2> QED
    BY <2>1, <2>3, <2>4, <2>5
<1>5. ASSUME NEW c \in C PROVE c \in Nat /\ a <= c /\ c < b
  BY <1>2
<1> QED
  BY <1>3, <1>4, <1>5 DEF C

\* Starts in [a, b), the first of them a.
Begins(starts, a, b) ==
  /\ \A s \in starts : s \in Nat /\ a <= s /\ s < b
  /\ a \in starts

\* Cut every width bytes after each start, [a, b) falls into pieces of at most
\* that width.
LEMMA DensePieces ==
  ASSUME NEW a \in Nat, NEW b \in Nat, a < b,
         NEW starts, Begins(starts, a, b),
         NEW width \in Nat \ {0}, NEW tainted \in BOOLEAN
  PROVE  LET S == PiecesAt(Cuts(starts, width, a, b), b, tainted)
         IN  /\ Splits(S, a, b)
             /\ \A p \in S : /\ p \in PieceRecords(b) /\ Measured(p)
                             /\ p.tainted = tainted
                             /\ p.to - p.from <= width
                             /\ p.size <= width
<1> DEFINE S == PiecesAt(Cuts(starts, width, a, b), b, tainted)
           C == Cuts(starts, width, a, b)
<1>1. /\ \A c \in C : c \in Nat /\ a <= c /\ c < b
      /\ a \in C
      /\ \A c \in C : c + width < b => \E d \in C : c < d /\ d <= c + width
  BY CutsDense DEF Begins
<1> HIDE DEF C, S
<1>2. /\ Splits(S, a, b)
      /\ \A p \in S : /\ p \in PieceRecords(b) /\ Measured(p) /\ p.tainted = tainted
                      /\ p.from \in C
                      /\ \A d \in C \cup {b} : d > p.from => p.to <= d
  BY <1>1, PiecesAtCuts DEF C, S
<1>3. ASSUME NEW p \in S PROVE p.to - p.from <= width /\ p.size <= width
  <2>1. p.from \in Nat /\ p.to \in Nat /\ p.from < b /\ p.from < p.to
    BY <1>1, <1>2 DEF PieceRecords, Splits
  <2>2. p.to <= p.from + width
    <3>1. CASE p.from + width < b
      <4>1. PICK d \in C : p.from < d /\ d <= p.from + width
        BY <1>1, <1>2, <3>1
      <4>2. p.to <= d /\ d \in Nat
        BY <1>1, <1>2, <4>1
      <4> QED
        BY <2>1, <4>1, <4>2
    <3>2. CASE b <= p.from + width
      <4>1. p.to <= b
        BY <1>2, <2>1
      <4> QED
        BY <2>1, <3>2, <4>1
    <3> QED
      BY <2>1, <3>1, <3>2
  <2>3. Ink(p.from, p.to) \in Nat /\ Ink(p.from, p.to) <= p.to - p.from
    <3>1. p.from <= p.to
      BY <2>1
    <3> QED
      BY <2>1, <3>1, InkBound, Zenon
  <2> QED
    BY <1>2, <2>1, <2>2, <2>3 DEF Measured
<1> QED
  BY <1>2, <1>3 DEF S

\* Lines begin within what they are lines of, the first where it begins.
LEMMA LineStartsIn ==
  ASSUME NEW a \in Nat, NEW b \in Nat, a < b
  PROVE  Begins(LineStarts(a, b), a, b)
  BY DEF LineStarts, Begins

LEMMA WindowStartsIn ==
  ASSUME NEW a \in Nat, NEW b \in Nat, a < b
  PROVE  Begins(WindowStarts(a, b), a, b)
<1>1. {t \in LineStarts(a, b) : t < a} = {}
  BY LineStartsIn DEF Begins
<1>2. Cardinality({t \in LineStarts(a, b) : t < a}) % WindowLines = 0
  BY <1>1, FS_EmptySet, ChunkerAssumption DEF ChunkerAssumption
<1> QED
  BY <1>2, LineStartsIn DEF WindowStarts, Begins

\* A cut of [a, b) into pieces as they are when they come to be merged.
Cut(S, a, b, tainted) ==
  /\ Splits(S, a, b)
  /\ \A p \in S : p \in PieceRecords(b) /\ Measured(p) /\ Small(p) /\ p.tainted = tainted

\* _hard_split and _line_window_pieces are cuts.
LEMMA HardSplitCuts ==
  ASSUME NEW a \in Nat, NEW b \in Nat, a < b
  PROVE  Cut(HardSplit(a, b), a, b, FALSE)
<1> DEFINE S == HardSplit(a, b)
<1>1. S = PiecesAt(Cuts(LineStarts(a, b), MaxChunk, a, b), b, FALSE)
  BY DEF HardSplit
<1>2. MaxChunk \in Nat \ {0}
  BY ChunkerAssumption DEF ChunkerAssumption
<1>3. Begins(LineStarts(a, b), a, b)
  BY LineStartsIn
<1> HIDE DEF S
<1>4. /\ Splits(S, a, b)
      /\ \A p \in S : /\ p \in PieceRecords(b) /\ Measured(p)
                      /\ p.tainted = FALSE
                      /\ p.size <= MaxChunk
  BY <1>1, <1>2, <1>3, DensePieces
<1> QED
  BY <1>4 DEF Cut, Small, S

LEMMA WindowsCut ==
  ASSUME NEW a \in Nat, NEW b \in Nat, a < b
  PROVE  Cut(Windows(a, b), a, b, TRUE)
<1> DEFINE S == Windows(a, b)
<1>1. S = PiecesAt(Cuts(WindowStarts(a, b), MaxBytes, a, b), b, TRUE)
  BY DEF Windows
<1>2. MaxBytes \in Nat \ {0}
  BY ChunkerAssumption DEF ChunkerAssumption
<1>3. Begins(WindowStarts(a, b), a, b)
  BY WindowStartsIn
<1> HIDE DEF S
<1>4. /\ Splits(S, a, b)
      /\ \A p \in S : /\ p \in PieceRecords(b) /\ Measured(p)
                      /\ p.tainted = TRUE
                      /\ p.to - p.from <= MaxBytes
  BY <1>1, <1>2, <1>3, DensePieces
<1> QED
  BY <1>4 DEF Cut, Small, S

-----------------------------------------------------------------------------
(* Trees *)

\* The extent [e.from, e.to) of a node holds the node.
Holds(e) ==
  /\ e.node \in blob.nodes
  /\ e.from <= blob.start[e.node] /\ blob.fin[e.node] <= e.to

\* What tree-sitter promises of one node's children.
LEMMA Children ==
  ASSUME WellFormed(blob), NEW node \in blob.nodes
  PROVE  /\ N \in Nat /\ blob.start[node] \in 0..N /\ blob.fin[node] \in 0..N
         /\ blob.kids[node] \in Seq(blob.nodes)
         /\ \A i \in 1..Len(blob.kids[node]) :
              LET k == blob.kids[node][i]
              IN  /\ k \in blob.nodes
                  /\ blob.start[k] \in 0..N /\ blob.fin[k] \in 0..N
                  /\ blob.start[k] <= blob.fin[k]
                  /\ blob.start[node] <= blob.start[k] /\ blob.fin[k] <= blob.fin[node]
                  /\ blob.bad[k] => blob.bad[node]
                  /\ \A j \in 1..(i - 1) : blob.fin[blob.kids[node][j]] <= blob.start[k]
<1>1. blob.kids[node] \in Seq(blob.nodes)
  BY DEF WellFormed
<1>2. \A i \in 1..Len(blob.kids[node]) : blob.kids[node][i] \in blob.nodes
  BY <1>1
<1> QED
  BY <1>1, <1>2 DEF WellFormed, N

\* The extents of a node's children cut its extent, and each holds its child.
LEMMA ExtentsSplit ==
  ASSUME WellFormed(blob), NEW node \in blob.nodes, blob.kids[node] # <<>>,
         NEW a \in 0..N, NEW b \in 0..N, a < b,
         a <= blob.start[node], blob.fin[node] <= b
  PROVE  /\ Splits(Extents(node, a, b), a, b)
         /\ \A e \in Extents(node, a, b) :
              /\ e \in [node : blob.nodes, from : 0..N, to : 0..N]
              /\ Holds(e)
              /\ blob.bad[e.node] => blob.bad[node]
<1> DEFINE kids == blob.kids[node]
           n == Len(kids)
           First(i) == IF i = 1 THEN a ELSE blob.start[kids[i]]
           Last(i) == IF i = n THEN b ELSE blob.start[kids[i + 1]]
           X(i) == [node |-> kids[i], from |-> First(i), to |-> Last(i)]
           S == Extents(node, a, b)
<1>1. n \in Nat \ {0} /\ N \in Nat
  BY Children
<1>2. ASSUME NEW i \in 1..n
      PROVE  /\ kids[i] \in blob.nodes
             /\ blob.start[kids[i]] \in 0..N /\ blob.fin[kids[i]] \in 0..N
             /\ blob.start[kids[i]] <= blob.fin[kids[i]]
             /\ a <= blob.start[kids[i]] /\ blob.fin[kids[i]] <= b
             /\ blob.bad[kids[i]] => blob.bad[node]
  <2>1. /\ kids[i] \in blob.nodes
        /\ blob.start[kids[i]] \in 0..N /\ blob.fin[kids[i]] \in 0..N
        /\ blob.start[kids[i]] <= blob.fin[kids[i]]
        /\ blob.start[node] <= blob.start[kids[i]]
        /\ blob.fin[kids[i]] <= blob.fin[node]
        /\ blob.bad[kids[i]] => blob.bad[node]
    BY Children
  <2>2. blob.start[node] \in 0..N /\ blob.fin[node] \in 0..N
    BY Children
  <2>3. a <= blob.start[kids[i]]
    <3> HIDE DEF kids
    <3> QED BY <2>1, <2>2
  <2>4. blob.fin[kids[i]] <= b
    <3> HIDE DEF kids
    <3> QED BY <2>1, <2>2
  <2> QED
    BY <2>1, <2>3, <2>4
<1>3. ASSUME NEW i \in 1..n, NEW j \in 1..n, i < j
      PROVE  blob.fin[kids[i]] <= blob.start[kids[j]]
  <2>1. i \in 1..(j - 1)
    BY <1>3
  <2> QED
    BY <2>1, Children
<1>4. ASSUME NEW i \in 1..n
      PROVE  /\ First(i) \in 0..N /\ a <= First(i) /\ First(i) <= blob.start[kids[i]]
             /\ Last(i) \in 0..N /\ Last(i) <= b /\ blob.fin[kids[i]] <= Last(i)
             /\ a <= Last(i) /\ First(i) <= b
             /\ i # n => Last(i) = First(i + 1)
  <2>1. CASE i = n
    BY <1>1, <1>2, <2>1, SMTT(30)
  <2>2. CASE i # n
    <3>1. i + 1 \in 1..n /\ i < i + 1 /\ i + 1 # 1
      BY <1>1, <2>2
    <3>2. Last(i) = blob.start[kids[i + 1]] /\ First(i + 1) = blob.start[kids[i + 1]]
      BY <2>2, <3>1
    <3>3. /\ blob.start[kids[i + 1]] \in 0..N /\ a <= blob.start[kids[i + 1]]
          /\ blob.start[kids[i + 1]] <= blob.fin[kids[i + 1]]
          /\ blob.fin[kids[i + 1]] \in 0..N /\ blob.fin[kids[i + 1]] <= b
      BY <1>2, <3>1
    <3>4. blob.fin[kids[i]] <= blob.start[kids[i + 1]]
      BY <1>3, <3>1
    <3>5. /\ First(i) \in 0..N /\ a <= First(i) /\ First(i) <= blob.start[kids[i]]
          /\ First(i) <= b
      BY <1>2, SMTT(30)
    <3> HIDE DEF First, Last
    <3> QED
      BY <3>2, <3>3, <3>4, <3>5, SMTT(30)
  <2> QED
    BY <2>1, <2>2
<1>5. S = {X(i) : i \in {j \in 1..n : First(j) < Last(j)}}
  BY Zenon DEF Extents
<1> HIDE DEF S, First, Last
<1>6. ASSUME NEW e \in S
      PROVE  /\ e \in [node : blob.nodes, from : 0..N, to : 0..N]
             /\ Holds(e)
             /\ blob.bad[e.node] => blob.bad[node]
             /\ e.from \in a..b /\ e.to \in a..b /\ e.from < e.to
  <2>1. PICK i \in 1..n : e = X(i) /\ First(i) < Last(i)
    BY <1>5
  <2> QED
    BY <1>2, <1>4, <2>1 DEF Holds
<1>7. ASSUME NEW k \in a..(b - 1) PROVE Covers(S, k)
  <2> DEFINE Before == {i \in 1..n : First(i) <= k}
             i == Greatest(Before)
  <2>1. Before \subseteq 0..n /\ n \in Nat
    BY <1>1
  <2>2. 1 \in Before
    BY <1>1 DEF First
  <2>3. i \in Before /\ \A j \in Before : j <= i
    <3> HIDE DEF Before
    <3> QED BY <2>1, <2>2, GreatestIn
  <2> HIDE DEF i
  <2>4. k < Last(i)
    <3>1. CASE i = n
      BY <2>3, <3>1, <1>1 DEF Last
    <3>2. CASE i # n
      <4>1. i + 1 \in 1..n /\ i + 1 \notin Before
        BY <2>3, <3>2, <1>1
      <4>2. First(i + 1) \in 0..N /\ ~ (First(i + 1) <= k)
        BY <4>1, <1>4
      <4> QED
        BY <4>1, <4>2, <1>4, <2>3, <3>2
    <3> QED
      BY <3>1, <3>2
  <2>5. First(i) <= k /\ First(i) < Last(i)
    BY <2>3, <2>4, <1>4
  <2>6. X(i) \in S
    BY <1>5, <2>3, <2>5
  <2> QED
    BY <2>4, <2>5, <2>6 DEF Covers
<1>8. ASSUME NEW e \in S, NEW f \in S, e # f PROVE Disjoint(e, f)
  <2>1. PICK i \in 1..n : e = X(i)
    BY <1>5
  <2>2. PICK j \in 1..n : f = X(j)
    BY <1>5
  <2>3. ASSUME NEW x \in 1..n, NEW y \in 1..n, x < y
        PROVE  Last(x) <= First(y)
    <3>1. x + 1 \in 1..n /\ x # n
      BY <1>1, <2>3
    <3>4. Last(x) = First(x + 1) /\ First(y) \in 0..N
      BY <1>4, <3>1
    <3>2. CASE x + 1 = y
      BY <3>2, <3>4
    <3>3. CASE x + 1 < y
      <4>1. /\ First(x + 1) = blob.start[kids[x + 1]]
            /\ First(y) = blob.start[kids[y]]
        BY <3>1, <3>3, <2>3 DEF First
      <4>2. blob.fin[kids[x + 1]] <= blob.start[kids[y]]
        BY <3>1, <3>3, <1>3
      <4>3. /\ blob.start[kids[x + 1]] <= blob.fin[kids[x + 1]]
            /\ blob.start[kids[x + 1]] \in 0..N /\ blob.fin[kids[x + 1]] \in 0..N
            /\ blob.start[kids[y]] \in 0..N
        BY <3>1, <1>2
      <4> HIDE DEF kids
      <4> QED
        BY <3>4, <4>1, <4>2, <4>3, SMTT(30)
    <3> QED
      BY <2>3, <3>2, <3>3
  <2>4. i < j \/ j < i
    BY <2>1, <2>2, <1>8
  <2> QED
    BY <2>1, <2>2, <2>3, <2>4 DEF Disjoint
<1> QED
  BY <1>6, <1>7, <1>8 DEF Splits, S

-----------------------------------------------------------------------------
(* Lines *)

\* Lines and their offsets are within the blob.
LEMMA LinesIn ==
  ASSUME N \in Nat, 0 < N
  PROVE  /\ IsFiniteSet(LineStarts(0, N))
         /\ Lines \in Nat /\ Lines <= N
<1>1. LineStarts(0, N) \subseteq 0..(N - 1)
  BY LineStartsIn DEF Begins
<1>2. IsFiniteSet(0..(N - 1)) /\ Cardinality(0..(N - 1)) = N
  <2>1. 0 \in Int /\ N - 1 \in Int
    OBVIOUS
  <2>2. /\ IsFiniteSet(0..(N - 1))
        /\ Cardinality(0..(N - 1)) = IF 0 > N - 1 THEN 0 ELSE (N - 1) - 0 + 1
    BY <2>1, FS_Interval, Zenon
  <2> QED
    BY <2>2
<1>3. IsFiniteSet(LineStarts(0, N)) /\ Cardinality(LineStarts(0, N)) <= N
  BY <1>1, <1>2, FS_Subset
<1> QED
  BY <1>3, FS_CardinalityType DEF Lines

LEMMA OffsetIn ==
  ASSUME N \in Nat, 0 < N, NEW i \in Nat
  PROVE  Offset(i) \in 0..N
<1> DEFINE S == {s \in LineStarts(0, N) \cup {N} :
                   Cardinality({t \in LineStarts(0, N) : t < s}) >= i}
<1>1. CASE i >= Lines
  BY <1>1 DEF Offset
<1>2. CASE ~ (i >= Lines)
  <2>1. \A s \in LineStarts(0, N) : s \in Nat /\ s < N
    BY LineStartsIn DEF Begins
  <2>2. {t \in LineStarts(0, N) : t < N} = LineStarts(0, N)
    BY <2>1
  <2>3. N \in S
    BY <1>2, <2>2, LinesIn DEF Lines
  <2>4. \A s \in S : s \in 0..N
    BY <2>1
  <2>5. S \subseteq Nat /\ S # {}
    <3> HIDE DEF S
    <3>1. \A s \in S : s \in Nat
      BY <2>4
    <3> QED
      BY <2>3, <3>1
  <2>6. Smallest(S) \in S
    <3> HIDE DEF S
    <3> QED BY <2>5, SmallestIn
  <2>7. Offset(i) = Smallest(S)
    BY <1>2, Zenon DEF Offset
  <2> QED
    BY <2>4, <2>6, <2>7
<1> QED
  BY <1>1, <1>2

\* A window is cut into measured pieces of at most MaxBytes.
LEMMA LineWindowCut ==
  ASSUME NEW a \in Nat, NEW b \in Nat
  PROVE  \A p \in LineWindow(a, b) : /\ p \in PieceRecords(b) /\ p.from < p.to
                                    /\ Measured(p)
                                    /\ p.to - p.from <= MaxBytes
<1> DEFINE S == LineWindow(a, b)
           C == Cuts({a}, MaxBytes, a, b)
<1>1. S = PiecesAt(C, b, FALSE)
  BY DEF LineWindow
<1>2. CASE a < b
  <2>1. Begins({a}, a, b)
    BY <1>2 DEF Begins
  <2>2. MaxBytes \in Nat \ {0}
    BY ChunkerAssumption DEF ChunkerAssumption
  <2> HIDE DEF S
  <2>3. /\ Splits(S, a, b)
        /\ \A p \in S : /\ p \in PieceRecords(b) /\ Measured(p)
                        /\ p.to - p.from <= MaxBytes
    BY <1>1, <1>2, <2>1, <2>2, DensePieces
  <2> QED
    BY <2>3 DEF Splits, S
<1>3. CASE ~ (a < b)
  <2>1. C = {}
    BY <1>3 DEF Cuts
  <2>2. S = {}
    BY <1>1, <2>1 DEF PiecesAt
  <2> QED
    BY <2>2
<1> QED
  BY <1>2, <1>3

-----------------------------------------------------------------------------
(* The invariant *)

Parts == todo \cup pieces \cup chunks

Working == stage \in {"split", "merge", "chunked"}

\* What there is at each stage.
StageInv ==
  /\ stage \in {"parse", "split"} => chunks = {}
  /\ stage \in {"parse", "split", "merge"} => line = 0
  /\ stage \in {"split", "merge"} => 0 < N
  /\ stage # "split" => todo = {}
  /\ stage \notin {"split", "merge"} => pieces = {}

\* The parts cut the blob; chunks come before the pieces still to be merged.
CutInv ==
  /\ Working => Splits(Parts, 0, N)
  /\ \A t \in todo : Holds(t)
  /\ todo \cap pieces = {}
  /\ \A c \in chunks, p \in pieces : c.to <= p.from

BudgetInv ==
  \A p \in pieces \cup chunks :
    /\ Measured(p)
    /\ IF Working THEN Small(p) ELSE p.to - p.from <= MaxBytes

Core == TypeOK /\ StageInv /\ CutInv /\ BudgetInv

\* Each part is tainted as the declarations that it overlaps with are.
ProvenanceInv ==
  Working =>
    \A c \in Parts, e \in TopLevel :
      ~Disjoint(c, e) => c.tainted = blob.bad[e.node]

\* No two neighbours would have fitted into one chunk.
MaximalInv ==
  Working =>
    \A c, d \in chunks :
      c.to = d.from /\ ~c.tainted /\ ~d.tainted => c.size + d.size > MaxChunk

-----------------------------------------------------------------------------
(* One call of _split *)

TaskRecords ==
  [node : blob.nodes, from : 0..N, to : 0..N, depth : 0..MaxDepth, tainted : BOOLEAN]

\* A call replaces its extent by pieces, or by extents for further calls, that
\* cut it; what it makes is tainted as the extent was.
LEMMA SplitCuts ==
  ASSUME TypeOK, CutInv, NEW t \in todo,
         Whole(t) \/ Hard(t) \/ Descend(t) \/ Window(t)
  PROVE  \E S :
           /\ Splits(S, t.from, t.to)
           /\ \/ /\ todo' = todo \ {t} /\ pieces' = pieces \cup S
                 /\ Cut(S, t.from, t.to, t.tainted)
              \/ /\ todo' = (todo \ {t}) \cup S /\ pieces' = pieces
                 /\ \A s \in S : s \in TaskRecords /\ Holds(s) /\ s.tainted = t.tainted
<1>1. /\ t \in TaskRecords /\ t.from < t.to /\ Holds(t)
      /\ WellFormed(blob) /\ N \in Nat
  BY DEF TypeOK, CutInv, TaskRecords, WellFormed, N
<1>2. t.from \in 0..N /\ t.to \in 0..N /\ t.from \in Nat /\ t.to \in Nat
  BY <1>1 DEF TaskRecords
<1>3. CASE Whole(t)
  <2> DEFINE p == Piece(t.from, t.to, FALSE)
  <2>1. t.tainted = FALSE
    BY <1>1, <1>3 DEF Whole, TaskRecords
  <2>2. Ink(t.from, t.to) \in Nat
    BY <1>1, <1>2, InkBound
  <2>3. Splits({p}, t.from, t.to)
    BY <1>1, <1>2 DEF Splits, Covers, Piece
  <2>4. p \in PieceRecords(t.to) /\ Measured(p) /\ Small(p) /\ p.tainted = FALSE
    BY <1>1, <1>2, <1>3, <2>2 DEF PieceRecords, Measured, Small, Piece, Whole, Fits
  <2>5. todo' = todo \ {t} /\ pieces' = pieces \cup {p}
    BY <1>3 DEF Whole
  <2> HIDE DEF p
  <2>6. Cut({p}, t.from, t.to, t.tainted)
    BY <2>1, <2>3, <2>4 DEF Cut
  <2> QED
    BY <2>3, <2>5, <2>6
<1>4. CASE Hard(t)
  <2>1. t.tainted = FALSE
    BY <1>1, <1>4 DEF Hard, TaskRecords
  <2>2. Cut(HardSplit(t.from, t.to), t.from, t.to, FALSE)
    BY <1>1, <1>2, HardSplitCuts
  <2> QED
    BY <1>4, <2>1, <2>2 DEF Hard, Cut
<1>5. CASE Window(t)
  <2>1. t.tainted = TRUE
    BY <1>1, <1>5 DEF Window, TaskRecords
  <2>2. Cut(Windows(t.from, t.to), t.from, t.to, TRUE)
    BY <1>1, <1>2, WindowsCut
  <2> QED
    BY <1>5, <2>1, <2>2 DEF Window, Cut
<1>6. CASE Descend(t)
  <2> DEFINE X == Extents(t.node, t.from, t.to)
             S == {Task(e, t.depth + 1, FALSE) : e \in X}
  <2>1. t.tainted = FALSE
    BY <1>1, <1>6 DEF Descend, TaskRecords
  <2>2. t.depth + 1 \in 0..MaxDepth
    BY <1>1, <1>6, ChunkerAssumption DEF Descend, Atomic, TaskRecords, ChunkerAssumption
  <2>3. /\ Splits(X, t.from, t.to)
        /\ \A e \in X : /\ e \in [node : blob.nodes, from : 0..N, to : 0..N]
                        /\ Holds(e)
    BY <1>1, <1>2, <1>6, ExtentsSplit DEF Descend, Atomic, Holds
  <2> HIDE DEF X
  <2>4. ASSUME NEW s \in S PROVE s \in TaskRecords /\ Holds(s) /\ s.tainted = FALSE
    <3>1. PICK e \in X : s = Task(e, t.depth + 1, FALSE)
      OBVIOUS
    <3>2. /\ e.node \in blob.nodes /\ e.from \in 0..N /\ e.to \in 0..N
          /\ s.node = e.node /\ s.from = e.from /\ s.to = e.to /\ Holds(e)
      BY <2>3, <3>1 DEF Task
    <3>3. s \in TaskRecords /\ s.tainted = FALSE
      BY <2>2, <3>1, <3>2 DEF Task, TaskRecords
    <3> QED
      BY <3>2, <3>3 DEF Holds
  <2>5. Splits(S, t.from, t.to)
    <3>1. \A e \in X : LET s == Task(e, t.depth + 1, FALSE)
                       IN  s \in S /\ s.from = e.from /\ s.to = e.to
      BY DEF Task
    <3>2. \A s \in S : \E e \in X : /\ s.from = e.from /\ s.to = e.to
                                 /\ s = Task(e, t.depth + 1, FALSE)
      BY <3>1
    <3> HIDE DEF S
    <3>3. ASSUME NEW c \in S, NEW d \in S, c # d
          PROVE  \E e, f \in X : e # f /\ c.from = e.from /\ c.to = e.to
                                     /\ d.from = f.from /\ d.to = f.to
      BY <3>2, <3>3
    <3>4. Relabels(S, X)
      BY <3>1, <3>2, <3>3 DEF Relabels
    <3> QED
      BY <1>2, <2>3, <3>4, Relabel
  <2>6. todo' = (todo \ {t}) \cup S /\ pieces' = pieces
    BY <1>6 DEF Descend, X
  <2> QED
    BY <2>1, <2>4, <2>5, <2>6
<1> QED
  BY <1>3, <1>4, <1>5, <1>6

-----------------------------------------------------------------------------
(* The core of the invariant is preserved *)

\* Top-level declarations, if there are any, cut the blob.
LEMMA TopLevelCuts ==
  ASSUME WellFormed(blob), 0 < N, NEW d \in TopLevel
  PROVE  /\ Splits(TopLevel, 0, N)
         /\ \A e \in TopLevel : e \in [node : blob.nodes, from : 0..N, to : 0..N] /\ Holds(e)
         /\ blob.bad[d.node] => blob.bad[blob.root]
<1>1. blob.root \in blob.nodes /\ N \in Nat
  BY DEF WellFormed, N
<1>2. blob.start[blob.root] \in 0..N /\ blob.fin[blob.root] \in 0..N
  BY <1>1, Children
<1>3. blob.kids[blob.root] # <<>>
  <2>1. SUFFICES ASSUME blob.kids[blob.root] = <<>> PROVE FALSE
    OBVIOUS
  <2>2. Len(blob.kids[blob.root]) = 0
    BY <2>1
  <2>4. \E i \in 1..Len(blob.kids[blob.root]) : TRUE
    BY DEF TopLevel, Extents
  <2> QED
    BY <2>2, <2>4
<1>4. 0 \in 0..N /\ N \in 0..N /\ 0 <= blob.start[blob.root] /\ blob.fin[blob.root] <= N
  BY <1>1, <1>2
<1> QED
  BY <1>1, <1>3, <1>4, ExtentsSplit DEF TopLevel

LEMMA CoreInit == Init => Core
<1> SUFFICES ASSUME Init PROVE Core
  OBVIOUS
<1>1. WellFormed(blob) /\ N \in Nat
  BY ChunkerAssumption DEF ChunkerAssumption, Init, WellFormed, N
<1> QED
  BY <1>1 DEF Init, Core, TypeOK, Stages, StageInv, CutInv, BudgetInv, Working

\* Nothing that has been made is kept.
LEMMA CoreDiscard ==
  ASSUME Core, Empty \/ NoTree \/ Hopeless \/ Raise
  PROVE  Core'
<1>1. blob' = blob /\ N' = N /\ N \in Nat /\ line' = line /\ line = 0
  BY DEF Core, TypeOK, StageInv, Empty, NoTree, Hopeless, Raise, Goto, N, WellFormed
<1>2. todo' = {} /\ pieces' = {} /\ chunks' = {}
  BY DEF Core, StageInv, Empty, NoTree, Hopeless, Raise, Goto
<1>3. \/ stage' = "chunked" /\ N = 0
      \/ stage' = "lines" /\ 0 < N
  <2>1. CASE Empty
    BY <2>1 DEF Empty, Goto
  <2>2. CASE NoTree \/ Hopeless
    BY <2>2 DEF NoTree, Hopeless, Goto
  <2>3. CASE Raise
    BY <2>3 DEF Raise, Core, StageInv
  <2> QED
    BY <2>1, <2>2, <2>3
<1>4. TypeOK'
  BY <1>1, <1>2, <1>3 DEF Core, TypeOK, Stages, WellFormed
<1>5. N = 0 => Splits({}, 0, N)
  BY DEF Splits, Covers
<1> QED
  BY <1>1, <1>2, <1>3, <1>4, <1>5
     DEF Core, StageInv, CutInv, BudgetInv, Working, Parts

LEMMA CoreClean ==
  ASSUME Core, Clean
  PROVE  Core'
<1> DEFINE t == Task([node |-> blob.root, from |-> 0, to |-> N], 0, FALSE)
<1>1. /\ blob' = blob /\ N' = N /\ N \in Nat /\ 0 < N /\ line' = 0
      /\ stage' = "split" /\ todo' = {t} /\ pieces' = {} /\ chunks' = {}
  BY DEF Core, TypeOK, StageInv, Clean, Goto, N, WellFormed
<1>2. t \in TaskRecords /\ t.from < t.to /\ t.from = 0 /\ t.to = N
  BY <1>1, ChunkerAssumption
     DEF ChunkerAssumption, Core, TypeOK, WellFormed, Task, TaskRecords
<1>3. Holds(t)
  <2>1. blob.root \in blob.nodes /\ WellFormed(blob)
    BY DEF Core, TypeOK, WellFormed
  <2>2. blob.start[blob.root] \in 0..N /\ blob.fin[blob.root] \in 0..N
    BY <2>1, Children
  <2> QED
    BY <1>1, <2>1, <2>2 DEF Holds, Task
<1> HIDE DEF t
<1>4. Splits({t}, 0, N)
  BY <1>1, <1>2 DEF Splits, Covers
<1>5. TypeOK'
  BY <1>1, <1>2, ZenonT(30) DEF Core, TypeOK, Stages, WellFormed, TaskRecords
<1>6. CutInv'
  BY <1>1, <1>3, <1>4 DEF CutInv, Parts, Working, Holds
<1> QED
  BY <1>1, <1>5, <1>6 DEF Core, StageInv, BudgetInv

LEMMA CoreSalvage ==
  ASSUME Core, Salvage
  PROVE  Core'
<1> DEFINE S == {Task(e, 0, blob.bad[e.node]) : e \in TopLevel}
<1>1. /\ blob' = blob /\ N' = N /\ N \in Nat /\ 0 < N /\ line' = 0
      /\ stage' = "split" /\ todo' = S /\ pieces' = {} /\ chunks' = {}
      /\ WellFormed(blob) /\ Salvageable
  BY DEF Core, TypeOK, StageInv, Salvage, Goto, N, WellFormed
<1>2. /\ Splits(TopLevel, 0, N)
      /\ \A e \in TopLevel : e \in [node : blob.nodes, from : 0..N, to : 0..N] /\ Holds(e)
  <2>1. PICK d \in TopLevel : TRUE
    BY <1>1 DEF Salvageable
  <2> QED
    BY <1>1, <2>1, TopLevelCuts
<1>3. ASSUME NEW s \in S
      PROVE  s \in TaskRecords /\ Holds(s) /\ s.from < s.to
  <2>1. PICK e \in TopLevel : s = Task(e, 0, blob.bad[e.node])
    OBVIOUS
  <2>2. /\ e.node \in blob.nodes /\ e.from \in 0..N /\ e.to \in 0..N /\ e.from < e.to
        /\ s.node = e.node /\ s.from = e.from /\ s.to = e.to /\ Holds(e)
    BY <1>2, <2>1 DEF Task, Splits
  <2>3. 0 \in 0..MaxDepth /\ blob.bad[e.node] \in BOOLEAN
    BY <1>1, <2>2, ChunkerAssumption DEF ChunkerAssumption, WellFormed
  <2> QED
    BY <2>1, <2>2, <2>3 DEF Task, TaskRecords, Holds
<1>4. Splits(S, 0, N)
  <2>1. \A e \in TopLevel : LET s == Task(e, 0, blob.bad[e.node])
                           IN  s \in S /\ s.from = e.from /\ s.to = e.to
    BY DEF Task
  <2>2. \A s \in S : \E e \in TopLevel : /\ s.from = e.from /\ s.to = e.to
                                      /\ s = Task(e, 0, blob.bad[e.node])
    BY <2>1
  <2> HIDE DEF S
  <2>3. ASSUME NEW c \in S, NEW d \in S, c # d
        PROVE  \E e, f \in TopLevel : e # f /\ c.from = e.from /\ c.to = e.to
                                          /\ d.from = f.from /\ d.to = f.to
    BY <2>2, <2>3
  <2>4. Relabels(S, TopLevel)
    BY <2>1, <2>2, <2>3 DEF Relabels
  <2> QED
    BY <1>1, <1>2, <2>4, Relabel
<1> HIDE DEF S
<1>5. TypeOK'
  BY <1>1, <1>3 DEF TypeOK, Stages, WellFormed, TaskRecords
<1>6. CutInv'
  BY <1>1, <1>3, <1>4 DEF CutInv, Parts, Working, Holds
<1> QED
  BY <1>1, <1>5, <1>6 DEF Core, StageInv, BudgetInv

LEMMA CoreSplit ==
  ASSUME Core, Split
  PROVE  Core'
<1>1. /\ blob' = blob /\ N' = N /\ N \in Nat /\ 0 < N /\ line' = 0 /\ line = 0
      /\ stage = "split" /\ stage' = "split" /\ chunks = {} /\ chunks' = {}
  BY DEF Core, TypeOK, StageInv, Split, Goto, N, WellFormed
<1>2. PICK t \in todo : Whole(t) \/ Hard(t) \/ Descend(t) \/ Window(t)
  BY DEF Split
<1>3. PICK S :
        /\ Splits(S, t.from, t.to)
        /\ \/ /\ todo' = todo \ {t} /\ pieces' = pieces \cup S
              /\ Cut(S, t.from, t.to, t.tainted)
           \/ /\ todo' = (todo \ {t}) \cup S /\ pieces' = pieces
              /\ \A s \in S : s \in TaskRecords /\ Holds(s) /\ s.tainted = t.tainted
  BY <1>2, SplitCuts DEF Core
<1>4. Parts = todo \cup pieces /\ t \in Parts /\ t \notin pieces /\ Splits(Parts, 0, N)
  BY <1>1 DEF Core, CutInv, Parts, Working
<1>5. Splits((Parts \ {t}) \cup S, 0, N) /\ S \cap (Parts \ {t}) = {}
  BY <1>1, <1>3, <1>4, Refine
<1>6. Parts' = (Parts \ {t}) \cup S
  BY <1>1, <1>3, <1>4 DEF Parts
<1>7. \A s \in S : s.from < s.to
  BY <1>3 DEF Splits
<1>8. t.to \in 0..N
  BY DEF Core, TypeOK
<1>9. CASE /\ todo' = todo \ {t} /\ pieces' = pieces \cup S
           /\ Cut(S, t.from, t.to, t.tainted)
  <2>1. \A p \in S : p \in PieceRecords(N) /\ Measured(p) /\ Small(p)
    BY <1>1, <1>8, <1>9 DEF Cut, PieceRecords
  <2>2. TypeOK'
    BY <1>1, <1>7, <1>9, <2>1 DEF Core, TypeOK, WellFormed, PieceRecords
  <2>3. todo' \cap pieces' = {}
    BY <1>4, <1>5, <1>9 DEF Core, CutInv
  <2>4. CutInv'
    BY <1>1, <1>5, <1>6, <1>9, <2>3 DEF Core, CutInv, Holds, Working
  <2>5. ASSUME NEW p \in pieces' PROVE Measured(p)' /\ Small(p)
    BY <1>1, <1>9, <2>1 DEF Core, BudgetInv, Working, Measured, Ink
  <2>6. BudgetInv'
    BY <1>1, <2>5 DEF BudgetInv, Working, Small
  <2> QED
    BY <1>1, <2>2, <2>4, <2>6 DEF Core, StageInv
<1>10. CASE /\ todo' = (todo \ {t}) \cup S /\ pieces' = pieces
            /\ \A s \in S : s \in TaskRecords /\ Holds(s) /\ s.tainted = t.tainted
  <2>1. TypeOK'
    BY <1>1, <1>7, <1>10 DEF Core, TypeOK, WellFormed, TaskRecords
  <2>2. todo' \cap pieces' = {}
    BY <1>4, <1>5, <1>10 DEF Core, CutInv
  <2>3. CutInv'
    BY <1>1, <1>5, <1>6, <1>10, <2>2 DEF Core, CutInv, Holds, Working
  <2>4. BudgetInv'
    BY <1>1, <1>10 DEF Core, BudgetInv, Working, Measured, Ink, Small
  <2> QED
    BY <1>1, <2>1, <2>3, <2>4 DEF Core, StageInv
<1> QED
  BY <1>3, <1>9, <1>10

LEMMA CoreEnd ==
  ASSUME Core, EndSplit \/ EndMerge
  PROVE  Core'
<1>1. /\ blob' = blob /\ todo' = todo /\ pieces' = pieces /\ chunks' = chunks
      /\ line' = line /\ stage' \in {"merge", "chunked"} /\ todo = {}
      /\ stage \in {"split", "merge"}
      /\ stage' = "chunked" => pieces = {}
  BY DEF Core, StageInv, EndSplit, EndMerge, Goto
<1>2. TypeOK'
  BY <1>1 DEF Core, TypeOK, Stages, WellFormed, N
<1>3. CutInv'
  BY <1>1 DEF Core, CutInv, Parts, Working, Holds, N
<1>4. BudgetInv'
  BY <1>1 DEF Core, BudgetInv, Working, Measured, Ink, Small
<1>5. StageInv'
  BY <1>1 DEF Core, StageInv, N
<1> QED
  BY <1>2, <1>3, <1>4, <1>5 DEF Core

LEMMA CoreAddWindow ==
  ASSUME Core, AddWindow
  PROVE  Core'
<1>1. /\ blob' = blob /\ N' = N /\ N \in Nat /\ 0 < N
      /\ stage = "lines" /\ stage' \in {"lines", "windowed"}
      /\ todo = {} /\ todo' = {} /\ pieces = {} /\ pieces' = {}
      /\ line \in 0..N /\ line < N
  BY DEF Core, TypeOK, StageInv, AddWindow, NextWindow, N, WellFormed
<1> DEFINE end == IF line + WindowLines < Lines THEN line + WindowLines ELSE Lines
           S == LineWindow(Offset(line), Offset(end))
<1>2. /\ WindowLines \in Nat /\ OverlapLines \in Nat /\ OverlapLines < WindowLines
      /\ Lines \in Nat /\ Lines <= N
  BY <1>1, LinesIn, ChunkerAssumption DEF ChunkerAssumption
<1>3. end \in Nat /\ line \in Nat
  BY <1>1, <1>2
<1>4. /\ chunks' = chunks \cup S
      /\ line' = IF end = Lines THEN line ELSE line + StepLines
      /\ stage' = IF end = Lines THEN "windowed" ELSE "lines"
  BY DEF AddWindow, NextWindow
<1>5. Offset(line) \in 0..N /\ Offset(end) \in 0..N
  <2> HIDE DEF end
  <2> QED BY <1>1, <1>3, OffsetIn
<1>6. line' \in 0..N /\ (stage' = "lines" => line' < N)
  BY <1>1, <1>2, <1>4 DEF StepLines
<1> HIDE DEF end
<1>7. \A p \in S : /\ p \in PieceRecords(N) /\ p.from < p.to /\ Measured(p)
                  /\ p.to - p.from <= MaxBytes
  <2>1. Offset(line) \in Nat /\ Offset(end) \in Nat
    BY <1>5
  <2>2. \A p \in S : /\ p \in PieceRecords(Offset(end)) /\ p.from < p.to /\ Measured(p)
                    /\ p.to - p.from <= MaxBytes
    BY <2>1, LineWindowCut
  <2> QED
    BY <1>1, <1>5, <2>2 DEF PieceRecords
<1> HIDE DEF S
<1>8. TypeOK'
  BY <1>1, <1>4, <1>6, <1>7 DEF Core, TypeOK, Stages, WellFormed, PieceRecords
<1>9. ASSUME NEW p \in chunks' PROVE Measured(p)' /\ p.to - p.from <= MaxBytes
  BY <1>1, <1>4, <1>7 DEF Core, BudgetInv, Working, Measured, Ink
<1>10. BudgetInv'
  BY <1>1, <1>9 DEF BudgetInv, Working
<1>11. CutInv' /\ StageInv'
  BY <1>1 DEF CutInv, StageInv, Working
<1> QED
  BY <1>8, <1>10, <1>11 DEF Core

\* Two parts that meet, p the first of the pieces, glued to one another.
LEMMA GlueCuts ==
  ASSUME NEW n \in Nat, NEW P, Splits(P, 0, n), NEW c \in P, NEW p \in P,
         c.to = p.from, NEW g, g.from = c.from, g.to = p.to
  PROVE  Splits((P \ {c, p}) \cup {g}, 0, n)
<1> DEFINE Q == (P \ {c, p}) \cup {g}
<1>1. /\ c.from \in 0..n /\ c.to \in 0..n /\ c.from < c.to
      /\ p.from \in 0..n /\ p.to \in 0..n /\ p.from < p.to
  BY DEF Splits
<1>2. \A s \in Q : s.from \in 0..n /\ s.to \in 0..n /\ s.from < s.to
  BY <1>1 DEF Splits
<1>3. ASSUME NEW k \in 0..(n - 1) PROVE Covers(Q, k)
  <2>1. PICK x \in P : x.from <= k /\ k < x.to
    BY DEF Splits, Covers
  <2>2. CASE x \in Q
    BY <2>1, <2>2 DEF Covers
  <2>3. CASE x \in {c, p}
    <3>1. g.from <= k /\ k < g.to
      BY <1>1, <2>1, <2>3
    <3> QED
      BY <3>1 DEF Covers
  <2> QED
    BY <2>1, <2>2, <2>3
<1>4. ASSUME NEW x \in P \ {c, p} PROVE Disjoint(x, g) /\ Disjoint(g, x)
  <2>1. Disjoint(x, c) /\ Disjoint(x, p)
    BY DEF Splits
  <2>2. x.from \in 0..n /\ x.to \in 0..n /\ x.from < x.to
    BY DEF Splits
  <2> QED
    BY <1>1, <2>1, <2>2 DEF Disjoint
<1>5. ASSUME NEW x \in Q, NEW y \in Q, x # y PROVE Disjoint(x, y)
  BY <1>4, <1>5 DEF Splits
<1> QED
  BY <1>2, <1>3, <1>5 DEF Splits

\* What _merge meets: the piece is the first of the parts that are no chunks.
LEMMA MergeMeets ==
  ASSUME Core, stage = "merge", NEW p \in pieces, Leftmost(pieces, p)
  PROVE  /\ N \in Nat /\ todo = {} /\ Parts = pieces \cup chunks /\ Splits(Parts, 0, N)
         /\ p \notin chunks
         /\ \A c \in chunks : c \notin pieces
         /\ \A q \in pieces \ {p} : p.to <= q.from
         /\ \A x \in Parts : /\ x \in PieceRecords(N) /\ x.from < x.to
                             /\ Measured(x) /\ Small(x)
<1>1. /\ N \in Nat /\ todo = {} /\ Parts = pieces \cup chunks /\ Splits(Parts, 0, N)
  BY DEF Core, TypeOK, StageInv, CutInv, Working, Parts, N, WellFormed
<1>2. \A x \in Parts : /\ x \in PieceRecords(N) /\ x.from < x.to /\ Measured(x) /\ Small(x)
  BY <1>1 DEF Core, TypeOK, BudgetInv, Working, PieceRecords
<1>3. ASSUME NEW c \in chunks, c \in pieces PROVE FALSE
  <2>1. c.to <= c.from
    BY <1>3 DEF Core, CutInv
  <2>2. c.from \in 0..N /\ c.to \in 0..N /\ c.from < c.to
    BY <1>1, <1>2 DEF PieceRecords
  <2> QED
    BY <2>1, <2>2
<1>4. ASSUME NEW q \in pieces \ {p} PROVE p.to <= q.from
  <2>1. p.from <= q.from
    BY DEF Leftmost
  <2>2. Disjoint(p, q)
    BY <1>1 DEF Splits
  <2>3. /\ p.from \in 0..N /\ p.to \in 0..N /\ p.from < p.to
        /\ q.from \in 0..N /\ q.to \in 0..N /\ q.from < q.to
    BY <1>1, <1>2 DEF PieceRecords
  <2> QED
    BY <2>1, <2>2, <2>3 DEF Disjoint
<1> QED
  BY <1>1, <1>2, <1>3, <1>4

\* The chunk that results from gluing.
Together(c, p) == [c EXCEPT !.to = p.to, !.size = c.size + p.size]

LEMMA Glued ==
  ASSUME Core, stage = "merge", NEW p \in pieces, Leftmost(pieces, p),
         NEW c \in chunks, Glues(c, p)
  PROVE  /\ Together(c, p) \in PieceRecords(N)
         /\ Together(c, p).from = c.from /\ Together(c, p).to = p.to
         /\ Together(c, p).size = c.size + p.size /\ Together(c, p).tainted = FALSE
         /\ c.from < c.to /\ c.to = p.from /\ p.from < p.to
         /\ Measured(Together(c, p)) /\ Small(Together(c, p))
<1> DEFINE g == Together(c, p)
<1>1. /\ N \in Nat /\ c \in PieceRecords(N) /\ p \in PieceRecords(N)
      /\ c.from < c.to /\ p.from < p.to /\ Measured(c) /\ Measured(p)
  BY MergeMeets
<1>2. /\ c.to = p.from /\ c.size + p.size <= MaxChunk
      /\ c.tainted = FALSE /\ p.tainted = FALSE
  BY <1>1 DEF Glues, PieceRecords
<1>3. /\ g.from = c.from /\ g.to = p.to /\ g.size = c.size + p.size /\ g.tainted = FALSE
      /\ g \in PieceRecords(N)
  <2>1. c.size + p.size \in Nat /\ p.to \in 0..N
    BY <1>1 DEF PieceRecords
  <2>2. c \in [from : 0..N, to : 0..N, size : Nat, tainted : BOOLEAN]
    BY <1>1 DEF PieceRecords
  <2>3. g \in [from : 0..N, to : 0..N, size : Nat, tainted : BOOLEAN]
    BY <2>1, <2>2 DEF Together
  <2>4. g.from = c.from /\ g.to = p.to /\ g.size = c.size + p.size /\ g.tainted = c.tainted
    BY <2>2 DEF Together
  <2> QED
    BY <1>2, <2>3, <2>4 DEF PieceRecords
<1>4. Ink(c.from, p.to) = Ink(c.from, c.to) + Ink(c.to, p.to)
  <2>1. c.from \in Nat /\ c.to \in Nat /\ p.to \in Nat /\ c.from <= c.to /\ c.to <= p.to
    BY <1>1, <1>2 DEF PieceRecords
  <2> QED
    BY <2>1, InkAdds
<1>5. Measured(g)
  BY <1>1, <1>2, <1>3, <1>4 DEF Measured
<1> QED
  BY <1>1, <1>2, <1>3, <1>5 DEF Small

LEMMA CoreMerge ==
  ASSUME Core, Merge
  PROVE  Core'
<1>1. /\ blob' = blob /\ N' = N /\ 0 < N /\ line' = line
      /\ stage = "merge" /\ stage' = "merge" /\ todo' = todo
  BY DEF Core, StageInv, Merge, Goto, N
<1>2. PICK p \in pieces : Leftmost(pieces, p) /\ pieces' = pieces \ {p} /\ (Glue(p) \/ Begin(p))
  BY DEF Merge
<1>3. /\ N \in Nat /\ todo = {} /\ Parts = pieces \cup chunks /\ Splits(Parts, 0, N)
      /\ p \notin chunks
      /\ \A c \in chunks : c \notin pieces
      /\ \A q \in pieces \ {p} : p.to <= q.from
      /\ \A x \in Parts : /\ x \in PieceRecords(N) /\ x.from < x.to
                          /\ Measured(x) /\ Small(x)
  BY <1>1, <1>2, MergeMeets
<1>4. \A x, y : x \in chunks /\ y \in pieces' => x.to <= y.from
  BY <1>2 DEF Core, CutInv
<1>5. ASSUME NEW P, P = pieces' \cup chunks', Splits(P, 0, N),
             \A x \in P : /\ x \in PieceRecords(N) /\ x.from < x.to
                          /\ Measured(x) /\ Small(x),
             \A x \in chunks', y \in pieces' : x.to <= y.from
      PROVE  Core'
  <2>1. TypeOK'
    BY <1>1, <1>3, <1>5 DEF Core, TypeOK, WellFormed, PieceRecords
  <2>2. CutInv'
    BY <1>1, <1>3, <1>5 DEF CutInv, Parts
  <2>3. ASSUME NEW x \in P PROVE Measured(x)' /\ Small(x)
    BY <1>1, <1>5 DEF Measured, Ink
  <2>4. BudgetInv'
    BY <1>1, <1>5, <2>3 DEF BudgetInv, Working, Small
  <2>5. StageInv'
    BY <1>1, <1>3 DEF Core, StageInv
  <2> QED
    BY <2>1, <2>2, <2>4, <2>5 DEF Core
<1>6. CASE Begin(p)
  <2>1. chunks' = chunks \cup {p}
    BY <1>6 DEF Begin
  <2>2. pieces' \cup chunks' = Parts
    BY <1>2, <1>3, <2>1
  <2>3. \A x \in chunks', y \in pieces' : x.to <= y.from
    BY <1>2, <1>3, <1>4, <2>1
  <2> QED
    BY <1>3, <1>5, <2>2, <2>3
<1>7. CASE Glue(p)
  <2>1. PICK c \in chunks : /\ Glues(c, p)
                            /\ chunks' = (chunks \ {c}) \cup
                                 {[c EXCEPT !.to = p.to, !.size = c.size + p.size]}
    BY <1>7 DEF Glue
  <2> DEFINE g == Together(c, p)
  <2>2. chunks' = (chunks \ {c}) \cup {g}
    BY <2>1 DEF Together
  <2>3. /\ g \in PieceRecords(N) /\ g.from = c.from /\ g.to = p.to
        /\ c.from < c.to /\ c.to = p.from /\ p.from < p.to
        /\ Measured(g) /\ Small(g)
    BY <1>1, <1>2, <2>1, Glued
  <2> HIDE DEF g
  <2>4. pieces' \cup chunks' = (Parts \ {c, p}) \cup {g}
    BY <1>2, <1>3, <2>2
  <2>5. Splits((Parts \ {c, p}) \cup {g}, 0, N)
    BY <1>3, <2>3, GlueCuts
  <2>6. \A x \in chunks', y \in pieces' : x.to <= y.from
    BY <1>2, <1>3, <1>4, <2>2, <2>3
  <2>7. g.from < g.to
    BY <1>3, <2>3 DEF PieceRecords
  <2> QED
    BY <1>3, <1>5, <2>3, <2>4, <2>5, <2>6, <2>7
<1> QED
  BY <1>2, <1>6, <1>7

LEMMA CoreStep == Core /\ [Next]_vars => Core'
<1> SUFFICES ASSUME Core, [Next]_vars PROVE Core'
  OBVIOUS
<1>1. CASE UNCHANGED vars
  <2>1. /\ blob' = blob /\ stage' = stage /\ todo' = todo /\ pieces' = pieces
        /\ chunks' = chunks /\ line' = line
    BY <1>1 DEF vars
  <2>2. TypeOK' /\ StageInv'
    BY <2>1 DEF Core, TypeOK, WellFormed, StageInv, N
  <2>3. CutInv'
    BY <2>1 DEF Core, CutInv, Working, Parts, Holds, N
  <2>4. BudgetInv'
    BY <2>1 DEF Core, BudgetInv, Working, Measured, Small, Ink
  <2> QED
    BY <2>2, <2>3, <2>4 DEF Core
<1>2. CASE Next
  BY <1>2, CoreDiscard, CoreClean, CoreSalvage, CoreSplit, CoreEnd, CoreMerge, CoreAddWindow
     DEF Next
<1> QED
  BY <1>1, <1>2

-----------------------------------------------------------------------------
(* Provenance *)

LEMMA ProvenanceSplit ==
  ASSUME Core, ProvenanceInv, Split, TopLevel' = TopLevel
  PROVE  ProvenanceInv'
<1>1. /\ blob' = blob /\ N \in Nat /\ 0 < N /\ WellFormed(blob)
      /\ stage = "split" /\ chunks' = chunks
  BY DEF Core, TypeOK, StageInv, Split, Goto, N, WellFormed
<1>2. PICK t \in todo : Whole(t) \/ Hard(t) \/ Descend(t) \/ Window(t)
  BY DEF Split
<1>3. PICK S :
        /\ Splits(S, t.from, t.to)
        /\ \/ /\ todo' = todo \ {t} /\ pieces' = pieces \cup S
              /\ Cut(S, t.from, t.to, t.tainted)
           \/ /\ todo' = (todo \ {t}) \cup S /\ pieces' = pieces
              /\ \A s \in S : s \in TaskRecords /\ Holds(s) /\ s.tainted = t.tainted
  BY <1>2, SplitCuts DEF Core
<1>4. Parts' \subseteq Parts \cup S /\ t \in Parts
  BY <1>1, <1>3 DEF Parts
<1>5. \A s \in S : s.tainted = t.tainted /\ s.from \in t.from..t.to /\ s.to \in t.from..t.to
  BY <1>3 DEF Cut, Splits
<1>6. \A c \in Parts, e \in TopLevel : ~Disjoint(c, e) => c.tainted = blob.bad[e.node]
  BY <1>1 DEF ProvenanceInv, Working
<1>7. ASSUME NEW s \in S, NEW e \in TopLevel, ~Disjoint(s, e)
      PROVE  s.tainted = blob.bad[e.node]
  <2>1. e.from \in 0..N /\ e.to \in 0..N /\ t.from \in 0..N /\ t.to \in 0..N
    <3>1. e.from \in 0..N /\ e.to \in 0..N
      BY <1>1, TopLevelCuts
    <3> QED
      BY <3>1 DEF Core, TypeOK
  <2>2. ~Disjoint(t, e)
    BY <1>5, <1>7, <2>1 DEF Disjoint
  <2> QED
    BY <1>4, <1>5, <1>6, <2>2
<1> QED
  BY <1>1, <1>4, <1>6, <1>7 DEF ProvenanceInv

LEMMA ProvenanceMerge ==
  ASSUME Core, ProvenanceInv, Merge, TopLevel' = TopLevel
  PROVE  ProvenanceInv'
<1>1. /\ blob' = blob /\ N \in Nat /\ 0 < N /\ WellFormed(blob)
      /\ stage = "merge" /\ todo' = todo
  BY DEF Core, TypeOK, StageInv, Merge, Goto, N, WellFormed
<1>2. PICK p \in pieces : Leftmost(pieces, p) /\ pieces' = pieces \ {p} /\ (Glue(p) \/ Begin(p))
  BY DEF Merge
<1>3. \A c \in Parts, e \in TopLevel : ~Disjoint(c, e) => c.tainted = blob.bad[e.node]
  BY <1>1 DEF ProvenanceInv, Working
<1>4. CASE Begin(p)
  <2>1. Parts' \subseteq Parts
    BY <1>1, <1>2, <1>4 DEF Parts, Begin
  <2> QED
    BY <1>1, <1>3, <2>1 DEF ProvenanceInv
<1>5. CASE Glue(p)
  <2>1. PICK c \in chunks : Glues(c, p) /\ chunks' = (chunks \ {c}) \cup {Together(c, p)}
    BY <1>5 DEF Glue, Together
  <2> DEFINE g == Together(c, p)
  <2>2. /\ g.from = c.from /\ g.to = p.to /\ g.tainted = FALSE
        /\ g \in PieceRecords(N) /\ c.to = p.from
    BY <1>1, <1>2, <2>1, Glued
  <2> HIDE DEF g
  <2>3. c \in PieceRecords(N) /\ p \in PieceRecords(N)
    BY DEF Core, TypeOK, PieceRecords
  <2>4. c.tainted = FALSE /\ p.tainted = FALSE
    BY <2>1, <2>3 DEF Glues, PieceRecords
  <2>5. ASSUME NEW e \in TopLevel, ~Disjoint(g, e)
        PROVE  g.tainted = blob.bad[e.node]
    <3>1. e.from \in 0..N /\ e.to \in 0..N /\ e.from < e.to
      BY <1>1, TopLevelCuts DEF Splits
    <3>2. ~Disjoint(c, e) \/ ~Disjoint(p, e)
      BY <2>2, <2>3, <2>5, <3>1 DEF Disjoint, PieceRecords
    <3>3. c \in Parts /\ p \in Parts
      BY DEF Parts
    <3> QED
      BY <1>3, <2>2, <2>4, <3>2, <3>3
  <2>6. Parts' \subseteq Parts \cup {g}
    BY <1>1, <1>2, <2>1 DEF Parts, g
  <2> QED
    BY <1>1, <1>3, <2>5, <2>6 DEF ProvenanceInv
<1> QED
  BY <1>2, <1>4, <1>5

LEMMA ProvenanceStep == Core /\ ProvenanceInv /\ [Next]_vars => ProvenanceInv'
<1> SUFFICES ASSUME Core, ProvenanceInv, [Next]_vars PROVE ProvenanceInv'
  OBVIOUS
<1>1. blob' = blob /\ TopLevel' = TopLevel
  <2>1. blob' = blob
    BY DEF Next, vars, Empty, NoTree, Clean, Salvage, Hopeless, Raise, Split, EndSplit,
           Merge, EndMerge, AddWindow
  <2> QED
    BY <2>1 DEF TopLevel, Extents, N
<1>2. CASE Empty \/ NoTree \/ Hopeless \/ Raise
  <2>1. Parts' = {}
    BY <1>2 DEF Core, StageInv, Empty, NoTree, Hopeless, Raise, Goto, Parts
  <2> QED
    BY <2>1 DEF ProvenanceInv
<1>3. CASE Clean
  <2>1. \A c \in Parts' : c.tainted = FALSE
    BY <1>3 DEF Core, StageInv, Clean, Goto, Parts, Task
  <2>2. 0 < N /\ ~blob.bad[blob.root] /\ WellFormed(blob)
    BY <1>3 DEF Core, TypeOK, Clean, N, WellFormed
  <2>3. \A e \in TopLevel : blob.bad[e.node] = FALSE
    <3>1. SUFFICES ASSUME NEW e \in TopLevel PROVE blob.bad[e.node] = FALSE
      OBVIOUS
    <3>2. e.node \in blob.nodes /\ ~blob.bad[e.node]
      BY <2>2, TopLevelCuts
    <3> QED
      BY <2>2, <3>2 DEF WellFormed
  <2> QED
    BY <1>1, <2>1, <2>3 DEF ProvenanceInv
<1>4. CASE Salvage
  <2>1. Parts' = {Task(e, 0, blob.bad[e.node]) : e \in TopLevel}
    BY <1>4 DEF Core, StageInv, Salvage, Goto, Parts
  <2>2. 0 < N /\ WellFormed(blob)
    BY <1>4 DEF Core, TypeOK, Salvage, N, WellFormed
  <2>3. ASSUME NEW c \in Parts', NEW e \in TopLevel, ~Disjoint(c, e)
        PROVE  c.tainted = blob.bad[e.node]
    <3>1. PICK f \in TopLevel : c = Task(f, 0, blob.bad[f.node])
      BY <2>1
    <3>2. c.from = f.from /\ c.to = f.to /\ c.tainted = blob.bad[f.node]
      BY <3>1 DEF Task
    <3>3. ~Disjoint(f, e)
      BY <2>3, <3>2 DEF Disjoint
    <3>4. f = e
      BY <2>2, <3>3, TopLevelCuts DEF Splits
    <3> QED
      BY <3>2, <3>4
  <2> QED
    BY <1>1, <2>3 DEF ProvenanceInv
<1>5. CASE EndSplit \/ EndMerge
  <2>1. Parts' = Parts /\ Working
    BY <1>5 DEF EndSplit, EndMerge, Goto, Parts, Working
  <2> QED
    BY <1>1, <2>1 DEF ProvenanceInv
<1>6. CASE AddWindow
  <2>1. ~Working'
    BY <1>6 DEF AddWindow, NextWindow, Working
  <2> QED
    BY <2>1 DEF ProvenanceInv
<1>7. CASE UNCHANGED vars
  BY <1>1, <1>7 DEF vars, ProvenanceInv, Working, Parts
<1> QED
  BY <1>1, <1>2, <1>3, <1>4, <1>5, <1>6, <1>7, ProvenanceSplit, ProvenanceMerge DEF Next

-----------------------------------------------------------------------------
(* Merging as much as fits *)

LEMMA MaximalMerge ==
  ASSUME Core, MaximalInv, Merge
  PROVE  MaximalInv'
<1>1. stage = "merge" /\ MaxChunk \in Nat
  BY ChunkerAssumption DEF ChunkerAssumption, Merge, Goto
<1>2. PICK p \in pieces : Leftmost(pieces, p) /\ pieces' = pieces \ {p} /\ (Glue(p) \/ Begin(p))
  BY DEF Merge
<1>3. \A x \in chunks \cup {p} : x \in PieceRecords(N) /\ x.from < x.to /\ N \in Nat
  BY DEF Core, TypeOK, PieceRecords, WellFormed, N
<1>4. \A x \in chunks : x.to <= p.from
  BY DEF Core, CutInv
<1>5. \A c, d \in chunks :
        c.to = d.from /\ ~c.tainted /\ ~d.tainted => c.size + d.size > MaxChunk
  BY <1>1 DEF MaximalInv, Working
\* No chunk begins where a chunk ends that is as far right as p.
<1>6. ASSUME NEW d \in chunks PROVE p.to # d.from
  BY <1>3, <1>4 DEF PieceRecords
<1>7. CASE Begin(p)
  <2>1. chunks' = chunks \cup {p} /\ \A c \in chunks : ~Glues(c, p)
    BY <1>7 DEF Begin
  <2>2. ASSUME NEW c \in chunks', NEW d \in chunks', c.to = d.from, ~c.tainted, ~d.tainted
        PROVE  c.size + d.size > MaxChunk
    <3>1. CASE c \in chunks /\ d \in chunks
      BY <1>5, <2>2, <3>1
    <3>2. CASE c \in chunks /\ d = p
      <4>1. c.size + p.size \in Nat
        BY <1>3, <3>2 DEF PieceRecords
      <4> QED
        BY <1>1, <2>1, <2>2, <3>2, <4>1 DEF Glues
    <3>3. CASE c = p
      BY <1>3, <1>6, <2>1, <2>2, <3>3 DEF PieceRecords
    <3> QED
      BY <2>1, <3>1, <3>2, <3>3
  <2> QED
    BY <2>2 DEF MaximalInv
<1>8. CASE Glue(p)
  <2>1. PICK b \in chunks : Glues(b, p) /\ chunks' = (chunks \ {b}) \cup {Together(b, p)}
    BY <1>8 DEF Glue, Together
  <2> DEFINE g == Together(b, p)
  <2>2. /\ g.from = b.from /\ g.to = p.to /\ g.size = b.size + p.size
        /\ g.from < g.to /\ g \in PieceRecords(N)
    <3>1. /\ g.from = b.from /\ g.to = p.to /\ g.size = b.size + p.size
          /\ g \in PieceRecords(N) /\ b.from < b.to /\ b.to = p.from /\ p.from < p.to
      BY <1>1, <1>2, <2>1, Glued
    <3> HIDE DEF g
    <3> QED
      BY <1>3, <3>1 DEF PieceRecords
  <2>3. ~b.tainted /\ b.size \in Nat /\ p.size \in Nat
    BY <1>3, <2>1 DEF Glues, PieceRecords
  <2>4. chunks' = (chunks \ {b}) \cup {g}
    BY <2>1
  <2> HIDE DEF g
  <2>5. ASSUME NEW c \in chunks', NEW d \in chunks', c.to = d.from, ~c.tainted, ~d.tainted
        PROVE  c.size + d.size > MaxChunk
    <3>1. CASE c \in chunks /\ d \in chunks
      BY <1>5, <2>5, <3>1
    <3>2. CASE c \in chunks /\ d = g
      <4>1. c.size + b.size > MaxChunk
        BY <1>5, <2>2, <2>3, <2>5, <3>2
      <4>2. c.size \in Nat
        BY <1>3, <3>2 DEF PieceRecords
      <4> QED
        BY <1>1, <2>2, <2>3, <3>2, <4>1, <4>2
    <3>3. CASE c = g
      <4>1. d \in chunks \/ d = g
        BY <2>4
      <4> QED
        BY <1>3, <1>6, <2>2, <2>5, <3>3, <4>1 DEF PieceRecords
    <3> QED
      BY <2>4, <3>1, <3>2, <3>3
  <2> QED
    BY <2>5 DEF MaximalInv
<1> QED
  BY <1>2, <1>7, <1>8

LEMMA MaximalStep == Core /\ MaximalInv /\ [Next]_vars => MaximalInv'
<1> SUFFICES ASSUME Core, MaximalInv, [Next]_vars PROVE MaximalInv'
  OBVIOUS
<1>1. CASE Empty \/ NoTree \/ Clean \/ Salvage \/ Hopeless \/ Raise \/ Split
  <2>1. chunks' = {}
    BY <1>1 DEF Core, StageInv, Empty, NoTree, Clean, Salvage, Hopeless, Raise, Split, Goto
  <2> QED
    BY <2>1 DEF MaximalInv
<1>2. CASE EndSplit \/ EndMerge \/ UNCHANGED vars
  <2>1. chunks' = chunks /\ (Working' => Working)
    BY <1>2 DEF EndSplit, EndMerge, vars, Goto, Working
  <2> QED
    BY <2>1 DEF MaximalInv
<1>3. CASE AddWindow
  <2>1. ~Working'
    BY <1>3 DEF AddWindow, NextWindow, Working
  <2> QED
    BY <2>1 DEF MaximalInv
<1> QED
  BY <1>1, <1>2, <1>3, MaximalMerge DEF Next

-----------------------------------------------------------------------------
(* Declarations that fit stay whole *)

Contains(c, e) == c.from <= e.from /\ e.to <= c.to

\* The task that _split begins with on a clean tree.
AtRoot(t) ==
  /\ t.node = blob.root /\ t.from = 0 /\ t.to = N /\ t.depth = 0
  /\ ~blob.bad[blob.root]

Keepable(e) == Ink(e.from, e.to) <= MaxChunk /\ ~blob.bad[e.node] /\ TopDepth <= MaxDepth

\* A declaration that fits is in one part, or is itself about to be split, or
\* the whole tree is.
Kept(e) ==
  \/ \E c \in pieces \cup chunks : Contains(c, e)
  \/ \E t \in todo : ~t.tainted /\ ((t.from = e.from /\ t.to = e.to) \/ AtRoot(t))

DeclarationInv == Working => \A e \in TopLevel : Keepable(e) => Kept(e)

\* A blob without bytes has no declarations.
LEMMA NoBytes ==
  ASSUME WellFormed(blob), N = 0
  PROVE  TopLevel = {}
<1>1. blob.root \in blob.nodes
  BY DEF WellFormed
<1> DEFINE kids == blob.kids[blob.root]
           First(i) == IF i = 1 THEN 0 ELSE blob.start[kids[i]]
           Last(i) == IF i = Len(kids) THEN N ELSE blob.start[kids[i + 1]]
<1>2. Len(kids) \in Nat
  BY <1>1, Children
<1>3. ASSUME NEW i \in 1..Len(kids) PROVE First(i) = 0 /\ Last(i) = 0
  <2>1. \A j \in 1..Len(kids) : blob.start[kids[j]] \in 0..N
    BY <1>1, Children
  <2>2. blob.start[kids[i]] = 0
    BY <2>1
  <2>3. i # Len(kids) => blob.start[kids[i + 1]] = 0
    BY <1>2, <2>1
  <2> QED
    BY <2>2, <2>3
<1>4. TopLevel = {[node |-> kids[i], from |-> First(i), to |-> Last(i)] :
                    i \in {j \in 1..Len(kids) : First(j) < Last(j)}}
  BY Zenon DEF TopLevel, Extents
<1> HIDE DEF First, Last
<1>5. {j \in 1..Len(kids) : First(j) < Last(j)} = {}
  BY <1>3
<1> QED
  BY <1>4, <1>5

LEMMA DeclarationSplit ==
  ASSUME Core, DeclarationInv, Split, NEW e \in TopLevel, Keepable(e)
  PROVE  \/ \E c \in pieces' \cup chunks' : Contains(c, e)
         \/ \E t \in todo' : ~t.tainted /\ ((t.from = e.from /\ t.to = e.to) \/ AtRoot(t))
<1>1. /\ N \in Nat /\ 0 < N /\ WellFormed(blob) /\ stage = "split" /\ chunks' = chunks
  BY DEF Core, TypeOK, StageInv, Split, Goto, N, WellFormed
<1>2. Kept(e)
  BY <1>1 DEF DeclarationInv, Working
<1>3. PICK t \in todo : Whole(t) \/ Hard(t) \/ Descend(t) \/ Window(t)
  BY DEF Split
<1>4. todo \ {t} \subseteq todo' /\ pieces \subseteq pieces'
  BY <1>3 DEF Whole, Hard, Descend, Window
<1>5. CASE \E c \in pieces \cup chunks : Contains(c, e)
  BY <1>1, <1>4, <1>5
<1>6. ASSUME NEW s \in todo, ~s.tainted, ((s.from = e.from /\ s.to = e.to) \/ AtRoot(s))
      PROVE  \/ \E c \in pieces' \cup chunks' : Contains(c, e)
             \/ \E x \in todo' : ~x.tainted /\ ((x.from = e.from /\ x.to = e.to) \/ AtRoot(x))
  <2>1. CASE s # t
    BY <1>4, <1>6, <2>1
  <2>2. CASE s = t
    <3>1. e.from \in 0..N /\ e.to \in 0..N
      BY <1>1, TopLevelCuts
    <3>2. CASE Whole(t)
      <4>1. Piece(t.from, t.to, FALSE) \in pieces'
        BY <3>2 DEF Whole
      <4>2. Contains(Piece(t.from, t.to, FALSE), e)
        BY <1>6, <2>2, <3>1, <1>1 DEF Contains, Piece, AtRoot
      <4> QED
        BY <4>1, <4>2
    <3>3. CASE Descend(t) /\ AtRoot(t)
      <4>1. Task(e, 1, FALSE) \in todo'
        <5>1. e \in Extents(t.node, t.from, t.to) /\ t.depth + 1 = 1
          BY <3>3 DEF AtRoot, TopLevel
        <5> QED
          BY <3>3, <5>1 DEF Descend
      <4> QED
        BY <4>1 DEF Task
    <3>4. CASE Hard(t) /\ AtRoot(t)
      <4>1. blob.kids[blob.root] # <<>>
        <5>1. SUFFICES ASSUME blob.kids[blob.root] = <<>> PROVE FALSE
          OBVIOUS
        <5>2. Len(blob.kids[blob.root]) = 0
          BY <5>1
        <5>3. \E i \in 1..Len(blob.kids[blob.root]) : TRUE
          BY DEF TopLevel, Extents
        <5> QED
          BY <5>2, <5>3
      <4>2. MaxDepth \in Nat /\ MaxDepth >= 1
        BY <3>4, ChunkerAssumption DEF ChunkerAssumption, Keepable, TopDepth, AtRoot
      <4> QED
        BY <3>4, <4>1, <4>2 DEF Hard, Atomic, AtRoot
    <3>5. CASE ~Whole(t) /\ t.from = e.from /\ t.to = e.to
      BY <1>3, <1>6, <2>2, <3>5 DEF Whole, Hard, Descend, Window, Fits, Keepable
    <3>6. CASE Window(t)
      BY <1>6, <2>2, <3>6 DEF Window
    <3> QED
      BY <1>3, <1>6, <2>2, <3>2, <3>3, <3>4, <3>5, <3>6
  <2> QED
    BY <2>1, <2>2
<1> QED
  BY <1>2, <1>5, <1>6 DEF Kept

LEMMA DeclarationMerge ==
  ASSUME Core, DeclarationInv, Merge, NEW e \in TopLevel, Keepable(e)
  PROVE  \E c \in pieces' \cup chunks' : Contains(c, e)
<1>1. /\ N \in Nat /\ 0 < N /\ WellFormed(blob) /\ stage = "merge" /\ todo = {}
  BY DEF Core, TypeOK, StageInv, Merge, Goto, N, WellFormed
<1>2. PICK x \in pieces \cup chunks : Contains(x, e)
  BY <1>1 DEF DeclarationInv, Working, Kept
<1>3. PICK p \in pieces : Leftmost(pieces, p) /\ pieces' = pieces \ {p} /\ (Glue(p) \/ Begin(p))
  BY DEF Merge
<1>4. CASE Begin(p)
  <2>1. x \in pieces' \cup chunks'
    BY <1>3, <1>4 DEF Begin
  <2> QED
    BY <1>2, <2>1
<1>5. CASE Glue(p)
  <2>1. PICK c \in chunks : Glues(c, p) /\ chunks' = (chunks \ {c}) \cup {Together(c, p)}
    BY <1>5 DEF Glue, Together
  <2> DEFINE g == Together(c, p)
  <2>2. g.from = c.from /\ g.to = p.to /\ c.from < c.to /\ c.to = p.from /\ p.from < p.to
    BY <1>1, <1>3, <2>1, Glued
  <2>3. g \in chunks'
    BY <2>1
  <2> HIDE DEF g
  <2>4. CASE x \notin {c, p}
    <3>1. x \in pieces' \cup chunks'
      BY <1>3, <2>1, <2>4
    <3> QED
      BY <1>2, <3>1
  <2>5. CASE x \in {c, p}
    <3>1. /\ c.from \in 0..N /\ c.to \in 0..N /\ p.from \in 0..N /\ p.to \in 0..N
      BY DEF Core, TypeOK
    <3>2. e.from \in 0..N /\ e.to \in 0..N
      BY <1>1, TopLevelCuts
    <3>3. Contains(g, e)
      BY <1>2, <2>2, <2>5, <3>1, <3>2 DEF Contains
    <3> QED
      BY <2>3, <3>3
  <2> QED
    BY <2>4, <2>5
<1> QED
  BY <1>3, <1>4, <1>5

LEMMA DeclarationStep == Core /\ DeclarationInv /\ [Next]_vars => DeclarationInv'
<1> SUFFICES ASSUME Core, DeclarationInv, [Next]_vars PROVE DeclarationInv'
  OBVIOUS
<1>1. blob' = blob /\ TopLevel' = TopLevel /\ WellFormed(blob)
  <2>1. blob' = blob
    BY DEF Next, vars, Empty, NoTree, Clean, Salvage, Hopeless, Raise, Split, EndSplit,
           Merge, EndMerge, AddWindow
  <2> QED
    BY <2>1 DEF TopLevel, Extents, N, Core, TypeOK
<1>2. \A e : Keepable(e)' = Keepable(e)
  BY <1>1 DEF Keepable, Ink, TopDepth
<1>3. \A t : AtRoot(t)' = AtRoot(t)
  BY <1>1 DEF AtRoot, N
<1>4. SUFFICES ASSUME Working', NEW e \in TopLevel, Keepable(e) PROVE Kept(e)'
  BY <1>1, <1>2 DEF DeclarationInv
<1>5. CASE Empty
  BY <1>1, <1>5, NoBytes DEF Empty
<1>6. CASE Clean
  <2> DEFINE t == Task([node |-> blob.root, from |-> 0, to |-> N], 0, FALSE)
  <2>1. t \in todo' /\ ~t.tainted /\ AtRoot(t)
    BY <1>6 DEF Clean, Task, AtRoot
  <2> QED
    BY <1>3, <2>1 DEF Kept
<1>7. CASE Salvage
  <2> DEFINE t == Task(e, 0, blob.bad[e.node])
  <2>1. t \in todo' /\ t.from = e.from /\ t.to = e.to /\ ~t.tainted
    BY <1>4, <1>7 DEF Salvage, Task, Keepable
  <2> QED
    BY <2>1 DEF Kept
<1>8. CASE Split
  BY <1>3, <1>4, <1>8, DeclarationSplit DEF Kept
<1>9. CASE Merge
  BY <1>4, <1>9, DeclarationMerge DEF Kept
<1>10. CASE EndSplit \/ EndMerge \/ UNCHANGED vars
  <2>1. todo' = todo /\ pieces' = pieces /\ chunks' = chunks /\ Working
    BY <1>4, <1>10 DEF EndSplit, EndMerge, vars, Goto, Working
  <2>2. Kept(e)
    BY <1>4, <2>1 DEF DeclarationInv
  <2> QED
    BY <1>3, <2>1, <2>2 DEF Kept
<1>11. CASE NoTree \/ Hopeless \/ Raise \/ AddWindow
  BY <1>4, <1>11 DEF Working, NoTree, Hopeless, Raise, AddWindow, NextWindow, Goto
<1> QED
  BY <1>5, <1>6, <1>7, <1>8, <1>9, <1>10, <1>11 DEF Next

-----------------------------------------------------------------------------
(* Lines and windows *)

Before(s) == {t \in LineStarts(0, N) : t < s}

\* One line more begins before s than before the last line start before it.
LEMMA PreviousLine ==
  ASSUME N \in Nat, 0 < N, NEW s \in 0..N, Before(s) # {}
  PROVE  \E u \in Before(s) : /\ Cardinality(Before(u)) \in Nat
                              /\ Cardinality(Before(s)) = Cardinality(Before(u)) + 1
<1>1. Before(s) \subseteq 0..N /\ \A x : IsFiniteSet(Before(x))
  <2>1. \A t \in LineStarts(0, N) : t \in Nat /\ t < N
    BY LineStartsIn DEF Begins
  <2>2. \A x : Before(x) \subseteq LineStarts(0, N)
    BY DEF Before
  <2>3. IsFiniteSet(LineStarts(0, N))
    BY LinesIn
  <2>4. \A x : IsFiniteSet(Before(x))
    BY <2>2, <2>3, FS_Subset
  <2>5. Before(s) \subseteq 0..N
    BY <2>1, <2>2
  <2> QED BY <2>4, <2>5
<1> DEFINE u == Greatest(Before(s))
<1>2. u \in Before(s) /\ \A t \in Before(s) : t <= u
  <2> HIDE DEF u
  <2> QED BY <1>1, GreatestIn DEF u
<1> HIDE DEF u
<1>3. u \in Nat /\ u < s /\ u \in LineStarts(0, N)
  BY <1>1, <1>2 DEF Before
<1>4. Before(s) = Before(u) \cup {u} /\ u \notin Before(u)
  <2>1. \A t \in LineStarts(0, N) : t \in Nat
    BY LineStartsIn DEF Begins
  <2>2. \A t \in LineStarts(0, N) : t < s => t <= u
    BY <1>2 DEF Before
  <2>3. s \in Nat
    OBVIOUS
  <2>4. \A t \in LineStarts(0, N) : t < s <=> t < u \/ t = u
    BY <1>3, <2>1, <2>2, <2>3
  <2> DEFINE L == LineStarts(0, N)
  <2>5. Before(s) = {t \in L : t < s} /\ Before(u) = {t \in L : t < u} /\ u \in L
    BY <1>3 DEF Before
  <2> HIDE DEF L
  <2>6. \A t \in L : t < s <=> t < u \/ t = u
    BY <2>4 DEF L
  <2>7. u \notin Before(u)
    BY <1>3 DEF Before
  <2>8. {t \in L : t < s} = {t \in L : t < u} \cup {u}
    BY <2>5, <2>6
  <2> QED BY <2>5, <2>7, <2>8
<1>5. Cardinality(Before(s)) = Cardinality(Before(u)) + 1 /\ Cardinality(Before(u)) \in Nat
  BY <1>1, <1>4, FS_AddElement, FS_CardinalityType
<1> QED
  BY <1>2, <1>5

\* The lines before an offset are as many as its line's number, or all.
LEMMA OffsetRank ==
  ASSUME N \in Nat, 0 < N, NEW i \in Nat
  PROVE  /\ Offset(i) \in LineStarts(0, N) \cup {N}
         /\ i >= Lines => Offset(i) = N
         /\ i < Lines => /\ Cardinality(Before(Offset(i))) >= i
                         /\ \A s \in LineStarts(0, N) \cup {N} :
                              Cardinality(Before(s)) >= i => Offset(i) <= s
         /\ Before(N) = LineStarts(0, N) /\ Cardinality(Before(N)) = Lines
<1> DEFINE all == LineStarts(0, N) \cup {N}
           S == {s \in all : Cardinality(Before(s)) >= i}
<1>1. \A s \in LineStarts(0, N) : s \in Nat /\ s < N
  BY LineStartsIn DEF Begins
<1>2. Before(N) = LineStarts(0, N)
  BY <1>1 DEF Before
<1>3. Cardinality(Before(N)) = Lines /\ Lines \in Nat
  BY <1>2, LinesIn DEF Lines
<1>4. CASE i >= Lines
  BY <1>2, <1>3, <1>4 DEF Offset
<1>5. CASE i < Lines
  <2>1. N \in S /\ S \subseteq Nat
    BY <1>1, <1>3, <1>5
  <2>2. Smallest(S) \in S /\ \A s \in S : Smallest(S) <= s
    <3> HIDE DEF S
    <3> QED BY <2>1, SmallestIn
  <2>3. Offset(i) = Smallest(S)
    <3>1. ~ (i >= Lines)
      BY <1>3, <1>5
    <3> QED BY <3>1, Zenon DEF Offset, Before
  <2> HIDE DEF S
  <2>4. Offset(i) \in S /\ \A s \in S : Offset(i) <= s
    BY <2>2, <2>3
  <2> QED BY <1>2, <1>3, <1>5, <2>4 DEF S
<1> QED
  BY <1>3, <1>4, <1>5

\* Later lines begin later, all before the end of the blob.
LEMMA OffsetsIncrease ==
  ASSUME N \in Nat, 0 < N, NEW i \in Nat, NEW j \in Nat
  PROVE  /\ Offset(i) \in 0..N /\ Offset(j) \in 0..N
         /\ i < j /\ i < Lines => Offset(i) < Offset(j)
         /\ i <= j => Offset(i) <= Offset(j)
         /\ Offset(0) = 0 /\ 0 < Lines
<1>1. Offset(i) \in 0..N /\ Offset(j) \in 0..N /\ Lines \in Nat
  BY OffsetIn, LinesIn
<1>2. ASSUME i < j, i < Lines PROVE Offset(i) < Offset(j)
  <2> DEFINE s == Offset(j)
  <2>1. s \in LineStarts(0, N) \cup {N} /\ s \in 0..N
    BY <1>1, OffsetRank
  <2>2. Cardinality(Before(s)) >= i + 1 /\ Cardinality(Before(s)) \in Nat
    <3>1. CASE j < Lines
      <4>1. Cardinality(Before(s)) >= j
        BY <3>1, OffsetRank
      <4>2. Cardinality(Before(s)) \in Nat
        <5>1. Before(s) \subseteq LineStarts(0, N)
          BY DEF Before
        <5> QED BY <5>1, LinesIn, FS_Subset, FS_CardinalityType
      <4> HIDE DEF s
      <4> QED BY <1>2, <4>1, <4>2
    <3>2. CASE ~ (j < Lines)
      <4>1. s = N
        BY <1>1, <3>2, OffsetRank
      <4> QED BY <1>1, <1>2, <4>1, OffsetRank
    <3> QED BY <3>1, <3>2
  <2>3. Before(s) # {}
    BY <2>2, FS_EmptySet
  <2> HIDE DEF s
  <2>4. PICK u \in Before(s) : /\ Cardinality(Before(u)) \in Nat
                               /\ Cardinality(Before(s)) = Cardinality(Before(u)) + 1
    BY <2>1, <2>3, PreviousLine
  <2>5. u \in LineStarts(0, N) /\ u < s /\ u \in Nat
    BY <2>4, LineStartsIn DEF Before, Begins
  <2>6. Cardinality(Before(u)) >= i
    BY <2>2, <2>4
  <2>7. Offset(i) <= u
    BY <1>2, <2>5, <2>6, OffsetRank
  <2>8. Offset(i) < s
    BY <1>1, <2>1, <2>5, <2>7
  <2> QED BY <2>8 DEF s
<1>3. i <= j => Offset(i) <= Offset(j)
  <2>1. CASE i < j /\ i < Lines
    BY <1>1, <1>2, <2>1
  <2>2. CASE i = j
    BY <1>1, <2>2
  <2>3. CASE i < j /\ ~ (i < Lines)
    BY <1>1, <2>3, OffsetRank
  <2> QED BY <1>1, <2>1, <2>2, <2>3
<1>4. Offset(0) = 0 /\ 0 < Lines
  <2>1. 0 \in LineStarts(0, N)
    BY LineStartsIn DEF Begins
  <2>2. 0 < Lines
    <3>1. Cardinality(LineStarts(0, N)) # 0
      BY <2>1, LinesIn, FS_EmptySet
    <3> QED BY <1>1, <3>1 DEF Lines
  <2>3. Cardinality(Before(0)) >= 0
    <3>1. Before(0) = {}
      BY LineStartsIn DEF Before, Begins
    <3> QED BY <3>1, FS_EmptySet
  <2>4. Offset(0) <= 0
    BY <2>1, <2>2, <2>3, OffsetRank
  <2>5. Offset(0) \in 0..N
    BY OffsetIn
  <2> QED BY <2>2, <2>4, <2>5
<1> QED
  BY <1>1, <1>2, <1>3, <1>4

\* A window is one piece unless it exceeds the limit; its pieces cover it.
LEMMA LineWindowCovers ==
  ASSUME NEW a \in Nat, NEW b \in Nat, a < b
  PROVE  /\ \A k \in a..(b - 1) : Covers(LineWindow(a, b), k)
         /\ b - a <= MaxBytes => LineWindow(a, b) = {Piece(a, b, FALSE)}
<1> DEFINE C == Cuts({a}, MaxBytes, a, b)
<1>0. MaxBytes \in Nat \ {0}
  BY ChunkerAssumption DEF ChunkerAssumption
<1>1. \A k \in a..(b - 1) : Covers(LineWindow(a, b), k)
  <2>1. Begins({a}, a, b)
    BY DEF Begins
  <2>2. Splits(PiecesAt(C, b, FALSE), a, b)
    <3> HIDE DEF C
    <3> QED BY <1>0, <2>1, DensePieces DEF C
  <2> HIDE DEF C
  <2> QED BY <2>2 DEF Splits, LineWindow, C
<1>2. ASSUME b - a <= MaxBytes PROVE LineWindow(a, b) = {Piece(a, b, FALSE)}
  <2>1. ASSUME NEW c \in C PROVE c = a
    <3>1. c \in a..(b - 1)
      BY DEF Cuts
    <3>2. Greatest({s \in {a} : s <= c}) = a
      <4>1. {s \in {a} : s <= c} = {a}
        BY <3>1
      <4>2. {a} \subseteq 0..a
        OBVIOUS
      <4>3. Greatest({a}) \in {a}
        BY <4>2, GreatestIn
      <4> QED BY <4>1, <4>3
    <3>3. PICK k \in 0..(b - a) : c = a + k * MaxBytes
      BY <3>2 DEF Cuts
    <3>4. k = 0 \/ k * MaxBytes >= MaxBytes
      BY ONLY <1>0, k \in 0..(b - a), a \in Nat, b \in Nat
    <3>5. k * MaxBytes \in Nat /\ 0 * MaxBytes = 0
      BY ONLY <1>0, k \in 0..(b - a), a \in Nat, b \in Nat
    <3> QED BY <1>0, <1>2, <3>1, <3>3, <3>4, <3>5
  <2>2. a \in C
    <3>1. Begins({a}, a, b)
      BY DEF Begins
    <3> HIDE DEF C
    <3> QED BY <1>0, <3>1, CutsDense DEF C, Begins
  <2>3. C = {a}
    <3> HIDE DEF C
    <3> QED BY <2>1, <2>2
  <2> HIDE DEF C
  <2>4. LineWindow(a, b) = {Piece(c, Smallest({d \in {a} \cup {b} : d > c}), FALSE) : c \in {a}}
    BY <2>3, Zenon DEF LineWindow, PiecesAt, C
  <2>5. Smallest({d \in {a} \cup {b} : d > a}) = b
    <3>1. {d \in {a} \cup {b} : d > a} = {b}
      OBVIOUS
    <3>2. Smallest({b}) \in {b}
      BY SmallestIn
    <3> QED BY <3>1, <3>2
  <2> QED BY <2>4, <2>5
<1> QED
  BY <1>1, <1>2

-----------------------------------------------------------------------------
(* The windows *)

Contained(i, S) == \E c \in S : c.from <= Offset(i) /\ Offset(i + OverlapLines + 1) <= c.to

IsWindow(c, l) ==
  c = Piece(Offset(l), Offset(l + WindowLines), FALSE) /\ l + WindowLines < Lines

\* The windows so far cover the lines before the next one, and hold whole what
\* begins there; they are as many as line starts, and all end before the last line
\* but the last of them.
WindowInv ==
  /\ stage = "lines" =>
       /\ line < Lines
       /\ \A k \in 0..(Offset(line) - 1) : Covers(chunks, k)
       /\ Uncut => /\ \A c \in chunks : \E l \in 0..(line - 1) : IsWindow(c, l)
                   /\ \A i \in 0..(line - 1) : Contained(i, chunks)
  /\ stage = "windowed" =>
       /\ \A k \in 0..(N - 1) : Covers(chunks, k)
       /\ Uncut => /\ \A c \in chunks : \/ \E l \in 0..(line - 1) : IsWindow(c, l)
                                        \/ c = Piece(Offset(line), N, FALSE)
                   /\ \A i \in 0..(Lines - 1) : Contained(i, chunks)

LEMMA FallbackBegins ==
  ASSUME Core, NoTree \/ Hopeless \/ Raise
  PROVE  WindowInv'
<1>1. /\ N \in Nat /\ 0 < N /\ N' = N /\ stage' = "lines" /\ line' = 0 /\ chunks' = {}
  BY DEF Core, TypeOK, StageInv, NoTree, Hopeless, Raise, Goto, N, WellFormed
<1>2. Offset(0) = 0 /\ 0 < Lines
  BY <1>1, OffsetsIncrease
<1>3. blob' = blob
  BY DEF NoTree, Hopeless, Raise
<1>4. Offset(line)' = 0 /\ Lines' = Lines
  BY <1>1, <1>2, <1>3 DEF Offset, Lines, LineStarts, N
<1>5. 0..(0 - 1) = {}
  OBVIOUS
<1> QED
  BY <1>1, <1>2, <1>4, <1>5 DEF WindowInv

LEMMA WindowAdded ==
  ASSUME Core, WindowInv, AddWindow
  PROVE  WindowInv'
<1> DEFINE end == IF line + WindowLines < Lines THEN line + WindowLines ELSE Lines
           a == Offset(line)
           b == Offset(end)
           S == LineWindow(a, b)
<1>1. /\ blob' = blob /\ N' = N /\ N \in Nat /\ 0 < N
      /\ stage = "lines" /\ line \in Nat
  BY DEF Core, TypeOK, StageInv, AddWindow, NextWindow, N, WellFormed
<1>2. /\ WindowLines \in Nat /\ OverlapLines \in Nat /\ OverlapLines < WindowLines
      /\ Lines \in Nat
  BY <1>1, LinesIn, ChunkerAssumption DEF ChunkerAssumption
<1>3. /\ line < Lines
      /\ \A k \in 0..(a - 1) : Covers(chunks, k)
      /\ Uncut => /\ \A c \in chunks : \E l \in 0..(line - 1) : IsWindow(c, l)
                  /\ \A i \in 0..(line - 1) : Contained(i, chunks)
  BY <1>1 DEF WindowInv
<1>4. /\ chunks' = chunks \cup S
      /\ line' = IF end = Lines THEN line ELSE line + StepLines
      /\ stage' = IF end = Lines THEN "windowed" ELSE "lines"
  BY DEF AddWindow, NextWindow
<1>5. end \in Nat /\ line < end /\ end <= Lines /\ b = Offset(line + WindowLines)
  <2>1. line + WindowLines >= Lines => Offset(line + WindowLines) = N /\ Offset(Lines) = N
    BY <1>1, <1>2, OffsetRank
  <2> QED BY <1>2, <1>1, <1>3, <2>1
<1>6. end = Lines => b = N
  BY <1>1, <1>2, OffsetRank
<1>7. end # Lines => end = line + WindowLines /\ end < Lines
  BY <1>1, <1>2
<1>8. a \in Nat /\ b \in Nat /\ a < b /\ b <= N
  <2> HIDE DEF end
  <2>1. Offset(line) \in 0..N /\ Offset(end) \in 0..N /\ Offset(line) < Offset(end)
    BY <1>1, <1>3, <1>5, OffsetsIncrease
  <2> QED BY <1>1, <2>1
<1> HIDE DEF end, a, b
<1>9. \A k \in 0..(b - 1) : Covers(chunks', k)
  <2>1. \A k \in a..(b - 1) : Covers(S, k)
    BY <1>8, LineWindowCovers
  <2> HIDE DEF S
  <2>2. ASSUME NEW k \in 0..(b - 1) PROVE Covers(chunks', k)
    <3>1. CASE k < a
      BY <1>3, <1>4, <1>8, <3>1 DEF Covers
    <3>2. CASE ~ (k < a)
      BY <1>4, <1>8, <2>1, <3>2 DEF Covers
    <3> QED BY <3>1, <3>2
  <2> QED BY <2>2
<1>10. ASSUME Uncut
       PROVE  /\ S = {Piece(a, b, FALSE)}
              /\ \A i \in line..(end - 1) : i + OverlapLines + 1 <= line + WindowLines \/ end = Lines
                   => Contained(i, chunks')
  <2>1. b - a <= MaxBytes
    BY <1>1, <1>2, <1>3, <1>5, <1>10 DEF Uncut, a
  <2>2. S = {Piece(a, b, FALSE)}
    BY <1>8, <2>1, LineWindowCovers
  <2>3. ASSUME NEW i \in line..(end - 1), i + OverlapLines + 1 <= line + WindowLines \/ end = Lines
        PROVE  Contained(i, chunks')
    <3>1. i \in Nat /\ line <= i /\ i + OverlapLines + 1 \in Nat /\ line + WindowLines \in Nat
      BY <1>1, <1>2, <1>5
    <3>2. a <= Offset(i)
      BY <1>1, <3>1, OffsetsIncrease DEF a
    <3>3. Offset(i + OverlapLines + 1) <= b
      <4>1. CASE i + OverlapLines + 1 <= line + WindowLines
        BY <1>1, <1>5, <3>1, <4>1, OffsetsIncrease
      <4>2. CASE end = Lines
        <5>1. Offset(i + OverlapLines + 1) \in 0..N
          BY <1>1, <3>1, OffsetIn
        <5> QED BY <1>1, <1>6, <4>2, <5>1
      <4> QED BY <2>3, <4>1, <4>2
    <3>4. Piece(a, b, FALSE) \in chunks'
      BY <1>4, <2>2
    <3>5. Piece(a, b, FALSE).from = a /\ Piece(a, b, FALSE).to = b
      BY DEF Piece
    <3> QED BY <3>2, <3>3, <3>4, <3>5 DEF Contained
  <2> QED BY <2>2, <2>3
<1> HIDE DEF S
<1>11. \A i : Contained(i, chunks) => Contained(i, chunks')
  BY <1>4 DEF Contained
<1>12. /\ Uncut' = Uncut /\ Lines' = Lines
       /\ \A l : Offset(l)' = Offset(l)
       /\ \A l, c : IsWindow(c, l)' = IsWindow(c, l)
       /\ \A i : Contained(i, chunks)' = Contained(i, chunks')
       /\ Offset(line)' = Offset(line')
       /\ Piece(Offset(line), N, FALSE)' = Piece(Offset(line'), N, FALSE)
  BY <1>1 DEF Uncut, Lines, Offset, LineStarts, IsWindow, Contained, Piece, Ink, N
<1>13. CASE end = Lines
  <2>1. stage' = "windowed" /\ line' = line
    BY <1>4, <1>13
  <2>2. \A k \in 0..(N - 1) : Covers(chunks', k)
    BY <1>6, <1>9, <1>13
  <2>3. ASSUME Uncut
        PROVE  /\ \A c \in chunks' : \/ \E l \in 0..(line - 1) : IsWindow(c, l)
                                     \/ c = Piece(Offset(line), N, FALSE)
               /\ \A i \in 0..(Lines - 1) : Contained(i, chunks')
    <3>1. ASSUME NEW i \in 0..(Lines - 1) PROVE Contained(i, chunks')
      <4>1. CASE i < line
        BY <1>1, <1>3, <1>11, <2>3, <4>1
      <4>2. CASE ~ (i < line)
        BY <1>1, <1>2, <1>10, <1>13, <2>3, <4>2
      <4> QED BY <4>1, <4>2
    <3>2. ASSUME NEW c \in chunks'
          PROVE  (\E l \in 0..(line - 1) : IsWindow(c, l)) \/ c = Piece(Offset(line), N, FALSE)
      BY <1>3, <1>4, <1>6, <1>10, <1>13, <2>3 DEF a
    <3> QED BY <3>1, <3>2
  <2> QED BY <1>1, <1>12, <2>1, <2>2, <2>3 DEF WindowInv
<1>14. CASE end # Lines
  <2>1. stage' = "lines" /\ line' = line + StepLines /\ StepLines \in Nat /\ StepLines <= WindowLines
    BY <1>2, <1>4, <1>14 DEF StepLines
  <2>2. line' < Lines /\ line' \in Nat /\ line <= line' /\ line' <= end
    BY <1>1, <1>2, <1>7, <1>14, <2>1
  <2>3. Offset(line') <= b /\ Offset(line') \in 0..N
    BY <1>1, <1>5, <2>2, OffsetsIncrease DEF b
  <2>4. \A k \in 0..(Offset(line') - 1) : Covers(chunks', k)
    BY <1>1, <1>8, <1>9, <2>3
  <2>5. ASSUME Uncut
        PROVE  /\ \A c \in chunks' : \E l \in 0..(line' - 1) : IsWindow(c, l)
               /\ \A i \in 0..(line' - 1) : Contained(i, chunks')
    <3>1. ASSUME NEW i \in 0..(line' - 1) PROVE Contained(i, chunks')
      <4>1. CASE i < line
        BY <1>1, <1>3, <1>11, <2>5, <4>1
      <4>2. CASE ~ (i < line)
        <5>1. i \in line..(end - 1) /\ i + OverlapLines + 1 <= line + WindowLines
          BY <1>1, <1>2, <1>5, <2>1, <2>2, <4>2 DEF StepLines
        <5> QED BY <1>10, <2>5, <5>1
      <4> QED BY <4>1, <4>2
    <3>2. ASSUME NEW c \in chunks' PROVE \E l \in 0..(line' - 1) : IsWindow(c, l)
      <4>1. CASE c \in chunks
        <5>1. PICK l \in 0..(line - 1) : IsWindow(c, l)
          BY <1>3, <2>5, <4>1
        <5>2. l \in 0..(line' - 1)
          <6> DEFINE m == line'
          <6>1. line \in Nat /\ m \in Nat /\ line <= m
            BY <1>1, <2>2
          <6> HIDE DEF m
          <6>2. l \in 0..(m - 1)
            BY <6>1
          <6> QED BY <6>2 DEF m
        <5> QED BY <5>1, <5>2
      <4>2. CASE c \notin chunks
        <5>1. c = Piece(a, b, FALSE)
          BY <1>4, <1>10, <2>5, <4>2
        <5>2. IsWindow(c, line)
          BY <1>5, <1>7, <1>14, <5>1 DEF IsWindow, a
        <5>3. line \in 0..(line' - 1)
          BY <1>1, <1>2, <2>1, <2>2 DEF StepLines
        <5> QED BY <5>2, <5>3
      <4> QED BY <4>1, <4>2
    <3> QED BY <3>1, <3>2
  <2> QED BY <1>1, <1>12, <2>1, <2>2, <2>4, <2>5 DEF WindowInv
<1> QED
  BY <1>13, <1>14

LEMMA WindowStep == Core /\ WindowInv /\ [Next]_vars => WindowInv'
<1> SUFFICES ASSUME Core, WindowInv, [Next]_vars PROVE WindowInv'
  OBVIOUS
<1>1. CASE Empty \/ Clean \/ Salvage \/ Split \/ EndSplit \/ Merge \/ EndMerge
  <2>1. stage' \notin {"lines", "windowed"}
    BY <1>1 DEF Empty, Clean, Salvage, Split, EndSplit, Merge, EndMerge, Goto
  <2> QED BY <2>1 DEF WindowInv
<1>2. CASE UNCHANGED vars
  <2>1. blob' = blob /\ stage' = stage /\ chunks' = chunks /\ line' = line
    BY <1>2 DEF vars
  <2>2. /\ N' = N /\ Lines' = Lines /\ Uncut' = Uncut /\ Offset(line)' = Offset(line)
        /\ \A l, c : IsWindow(c, l)' = IsWindow(c, l)
        /\ \A i : Contained(i, chunks)' = Contained(i, chunks)
        /\ Piece(Offset(line), N, FALSE)' = Piece(Offset(line), N, FALSE)
    BY <2>1 DEF Uncut, Lines, Offset, LineStarts, IsWindow, Contained, Piece, Ink, N
  <2>3. \A k : Covers(chunks, k)' = Covers(chunks, k)
    BY <2>1 DEF Covers
  <2> QED BY <2>1, <2>2, <2>3 DEF WindowInv
<1> QED
  BY <1>1, <1>2, FallbackBegins, WindowAdded DEF Next

\* Of two uncut windows neither is within the other.
LEMMA WindowsApart ==
  ASSUME Core, WindowInv, stage = "windowed", Uncut,
         NEW c \in chunks, NEW d \in chunks, c.from <= d.from, d.to <= c.to
  PROVE  c = d
<1> DEFINE Ends(l) == IF l = line THEN N ELSE Offset(l + WindowLines)
           Is(x, l) == /\ l \in 0..line /\ x = Piece(Offset(l), Ends(l), FALSE)
                       /\ l < line => l + WindowLines < Lines
<1>1. N \in Nat /\ line \in Nat /\ WindowLines \in Nat /\ Lines \in Nat
  <2>1. N \in Nat /\ line \in Nat /\ WindowLines \in Nat
    BY ChunkerAssumption DEF Core, TypeOK, WellFormed, N
  <2>2. 0 < N
    <3>1. c \in [from : 0..N, to : 0..N, size : Nat, tainted : BOOLEAN] /\ c.from < c.to
      BY DEF Core, TypeOK
    <3> QED BY <2>1, <3>1
  <2> QED BY <2>1, <2>2, LinesIn
<1>2. 0 < N
  <2>1. c \in [from : 0..N, to : 0..N, size : Nat, tainted : BOOLEAN] /\ c.from < c.to
    BY DEF Core, TypeOK
  <2> QED BY <1>1, <2>1
<1>3. ASSUME NEW x \in chunks PROVE \E l : Is(x, l)
  <2>1. (\E l \in 0..(line - 1) : IsWindow(x, l)) \/ x = Piece(Offset(line), N, FALSE)
    BY DEF WindowInv
  <2>2. CASE \E l \in 0..(line - 1) : IsWindow(x, l)
    <3>1. PICK l \in 0..(line - 1) : IsWindow(x, l)
      BY <2>2
    <3>2. l \in 0..line /\ l # line /\ l + WindowLines < Lines
      BY <1>1, <3>1 DEF IsWindow
    <3>3. Ends(l) = Offset(l + WindowLines)
      BY <3>2
    <3>4. x = Piece(Offset(l), Ends(l), FALSE)
      BY <3>1, <3>3 DEF IsWindow
    <3> HIDE DEF Ends
    <3> QED BY <3>2, <3>4
  <2>3. CASE x = Piece(Offset(line), N, FALSE)
    <3>1. Ends(line) = N
      OBVIOUS
    <3>2. line \in 0..line /\ ~ (line < line)
      BY <1>1
    <3> HIDE DEF Ends
    <3> QED BY <2>3, <3>1, <3>2
  <2> QED BY <2>1, <2>2, <2>3
<1>4. ASSUME NEW l \in 0..line, NEW m \in 0..line, l < m, l + WindowLines < Lines,
             m < line => m + WindowLines < Lines
      PROVE  /\ Offset(l) < Offset(m) /\ Ends(l) < Ends(m)
             /\ Offset(l) \in Int /\ Offset(m) \in Int /\ Ends(l) \in Int /\ Ends(m) \in Int
  <2>1. l \in Nat /\ m \in Nat /\ l + WindowLines \in Nat /\ m + WindowLines \in Nat
        /\ l < Lines /\ l + WindowLines < m + WindowLines
    BY <1>1, <1>4
  <2>2. Offset(l) < Offset(m) /\ Offset(l) \in 0..N /\ Offset(m) \in 0..N
    BY <1>1, <1>2, <1>4, <2>1, OffsetsIncrease
  <2>3. /\ Offset(l + WindowLines) < Offset(m + WindowLines)
        /\ Offset(l + WindowLines) \in 0..N /\ Offset(m + WindowLines) \in 0..N
    BY <1>1, <1>2, <1>4, <2>1, OffsetsIncrease
  <2>4. Offset(l + WindowLines) < N
    BY <1>1, <2>3
  <2>5. Ends(l) = Offset(l + WindowLines)
    BY <1>1, <1>4, <2>1
  <2>6. Ends(m) \in {N, Offset(m + WindowLines)}
    OBVIOUS
  <2> HIDE DEF Ends
  <2> QED BY <1>1, <2>2, <2>3, <2>4, <2>5, <2>6
<1>5. PICK l : Is(c, l)
  BY <1>3
<1>6. PICK m : Is(d, m)
  BY <1>3
<1> HIDE DEF Ends
<1>7. /\ l \in 0..line /\ m \in 0..line
      /\ l < line => l + WindowLines < Lines
      /\ m < line => m + WindowLines < Lines
      /\ c = Piece(Offset(l), Ends(l), FALSE) /\ d = Piece(Offset(m), Ends(m), FALSE)
  BY <1>5, <1>6
<1>8. /\ c.from = Offset(l) /\ c.to = Ends(l) /\ d.from = Offset(m) /\ d.to = Ends(m)
  BY <1>7 DEF Piece
<1>9. ~ (l < m)
  <2>1. SUFFICES ASSUME l < m PROVE FALSE
    OBVIOUS
  <2>2. l < line
    BY <1>1, <1>7, <2>1
  <2>3. Ends(l) < Ends(m) /\ Ends(l) \in Int /\ Ends(m) \in Int
    BY <1>4, <1>7, <2>1, <2>2
  <2> QED BY <1>8, <2>3
<1>10. ~ (m < l)
  <2>1. SUFFICES ASSUME m < l PROVE FALSE
    OBVIOUS
  <2>2. m < line
    BY <1>1, <1>7, <2>1
  <2>3. Offset(m) < Offset(l) /\ Offset(m) \in Int /\ Offset(l) \in Int
    BY <1>4, <1>7, <2>1, <2>2
  <2> QED BY <1>8, <2>3
<1>11. l = m
  BY <1>1, <1>7, <1>9, <1>10
<1> QED
  BY <1>7, <1>11

-----------------------------------------------------------------------------
(* The theorems *)

\* Everything reachable satisfies the invariant.
THEOREM ChunkerInvariant == Spec => [](Core /\ ProvenanceInv /\ MaximalInv /\ DeclarationInv)
<1>1. Init => Core /\ ProvenanceInv /\ MaximalInv /\ DeclarationInv
  BY CoreInit DEF Init, ProvenanceInv, MaximalInv, DeclarationInv, Working
<1>2. (Core /\ ProvenanceInv /\ MaximalInv /\ DeclarationInv) /\ [Next]_vars
        => (Core /\ ProvenanceInv /\ MaximalInv /\ DeclarationInv)'
  BY CoreStep, ProvenanceStep, MaximalStep, DeclarationStep
<1> QED
  BY <1>1, <1>2, PTL DEF Spec

\* The variables of the chunker keep their types; no piece is ever empty.
THEOREM ChunkerTypeCorrect == Spec => []TypeOK
<1>1. Core => TypeOK
  BY DEF Core
<1> QED
  BY <1>1, ChunkerInvariant, PTL

\* At every step of split and merge, on a clean or a salvaged tree, each byte
\* of the blob is in exactly one part: chunks rejoin to the file.
THEOREM ChunkerPartition == Spec => []Partition
<1>1. Core => Partition
  BY DEF Core, CutInv, Partition, Parts, Working, Splits
<1> QED
  BY <1>1, ChunkerInvariant, PTL

\* No chunk exceeds the embedder's limits, and the sizes that _merge adds up
\* are those of the chunks.
THEOREM ChunkerWithinBudget == Spec => []WithinBudget
<1>1. Core => WithinBudget
  BY DEF Core, BudgetInv, WithinBudget, Working, Measured, Small
<1> QED
  BY <1>1, ChunkerInvariant, PTL

\* Chunks of parsed and of unparsed declarations never mix.
THEOREM ChunkerProvenance == Spec => []Provenance
<1>1. ProvenanceInv => Provenance
  BY DEF ProvenanceInv, Provenance, Working, Parts
<1> QED
  BY <1>1, ChunkerInvariant, PTL

\* _merge leaves no two neighbours that would have fitted into one chunk.
THEOREM ChunkerMaximal == Spec => []Maximal
<1>1. MaximalInv => Maximal
  BY DEF MaximalInv, Maximal, Working
<1> QED
  BY <1>1, ChunkerInvariant, PTL

\* A declaration that fits into a chunk ends up in one chunk.
THEOREM ChunkerDeclarationsWhole == Spec => []DeclarationsWhole
<1>1. Core /\ DeclarationInv => DeclarationsWhole
  BY DEF Core, StageInv, DeclarationInv, DeclarationsWhole, Working, Keepable, Kept, Contains
<1> QED
  BY <1>1, ChunkerInvariant, PTL

\* However often the fallback's windows overlap, they lose no byte; uncut, they
\* are not within one another, and a run of OverlapLines + 1 lines is whole in
\* one of them, for any blob and any window and overlap.
THEOREM ChunkerWindowsOverlap == Spec => []WindowsOverlap
<1>1. Init => WindowInv
  BY DEF Init, WindowInv
<1>2. Core /\ WindowInv => WindowsOverlap
  <2> SUFFICES ASSUME Core, WindowInv, stage = "windowed"
               PROVE  /\ \A k \in 0..(N - 1) : Covers(chunks, k)
                      /\ Uncut => /\ \A c, d \in chunks : c.from <= d.from /\ d.to <= c.to => c = d
                                  /\ \A i \in 0..(Lines - 1) :
                                       \E c \in chunks : /\ c.from <= Offset(i)
                                                         /\ Offset(i + OverlapLines + 1) <= c.to
    BY DEF WindowsOverlap
  <2>1. \A k \in 0..(N - 1) : Covers(chunks, k)
    BY DEF WindowInv
  <2>2. Uncut => \A i \in 0..(Lines - 1) : Contained(i, chunks)
    BY DEF WindowInv
  <2>3. ASSUME Uncut, NEW c \in chunks, NEW d \in chunks, c.from <= d.from, d.to <= c.to
        PROVE  c = d
    BY <2>3, WindowsApart
  <2> QED BY <2>1, <2>2, <2>3 DEF Contained
<1> QED
  BY <1>1, <1>2, WindowStep, ChunkerInvariant, PTL DEF Spec
=============================================================================
