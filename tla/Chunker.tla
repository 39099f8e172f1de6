------------------------------- MODULE Chunker -------------------------------
(***************************************************************************)
(* Cutting a blob into chunks: chunk_blob (chunker/dispatch.py), the       *)
(* split-then-merge over the syntax tree with its salvage of files that do *)
(* not parse (chunker/cast.py), and the overlapping line windows they fall *)
(* back on (chunker/fallback.py).                                          *)
(*                                                                         *)
(* The recursion of _split is a worklist, leftmost first, and each pass of *)
(* a loop an action.  An extent is a range of byte offsets, from inclusive *)
(* and to exclusive.  Lists of pieces are sets: their order is that of the *)
(* offsets.  Breadcrumbs are left out, but for the taint they depend on.   *)
(***************************************************************************)
EXTENDS Integers, FiniteSets, Sequences

CONSTANTS
  Blobs,          \* what may be chunked: bytes, and what tree-sitter returns
  MaxChunk,       \* MAX_CHUNK_NONWS
  MaxDepth,       \* MAX_SPLIT_DEPTH
  MaxBytes,       \* MAX_CHUNK_BYTES
  WindowLines, OverlapLines

\* tree-sitter's promise: children lie within their parent and do not overlap;
\* an erroneous node has erroneous ancestors.
WellFormed(b) ==
  /\ b.length \in Nat
  /\ b.bytes \in [0..(b.length - 1) -> {"ink", "blank", "eol"}]
  /\ b.root \in b.nodes
  /\ b.kids \in [b.nodes -> Seq(b.nodes)]
  /\ b.start \in [b.nodes -> 0..b.length]    \* start_byte, end_byte
  /\ b.fin \in [b.nodes -> 0..b.length]
  /\ b.bad \in [b.nodes -> BOOLEAN]          \* has_error
  /\ b.defines \in [b.nodes -> BOOLEAN]      \* its type is a definition's
  /\ \A n \in b.nodes :
       /\ b.start[n] <= b.fin[n]
       /\ \A i \in 1..Len(b.kids[n]) :
            LET k == b.kids[n][i]
            IN  /\ b.start[n] <= b.start[k] /\ b.fin[k] <= b.fin[n]
                /\ b.bad[k] => b.bad[n]
                /\ \A j \in 1..(i - 1) : b.fin[b.kids[n][j]] <= b.start[k]

ASSUME ChunkerAssumption ==
  /\ \A b \in Blobs : WellFormed(b)
  /\ MaxChunk \in Nat \ {0} /\ MaxBytes \in Nat \ {0} /\ MaxDepth \in Nat
  /\ OverlapLines \in Nat /\ WindowLines \in Nat /\ OverlapLines < WindowLines

VARIABLES
  blob,       \* the input
  stage,      \* where chunk_blob is
  todo,       \* extents of nodes still to be split
  pieces,     \* what _split and _salvage have produced and _merge not consumed
  chunks,     \* what _merge, or chunk_lines, has produced
  line        \* start_line of the next window

vars == <<blob, stage, todo, pieces, chunks, line>>

Stages == {"parse", "split", "merge", "lines", "chunked", "windowed"}

-----------------------------------------------------------------------------
(* Bytes and lines *)

Greatest(S) == CHOOSE x \in S : \A y \in S : y <= x
Smallest(S) == CHOOSE x \in S : \A y \in S : x <= y

N == blob.length

\* _nonws
Ink(from, to) == Cardinality({k \in from..(to - 1) : blob.bytes[k] = "ink"})

\* Line starts; the first line is the rest of the one `from` is in.
LineStarts(from, to) ==
  {from} \cup {k + 1 : k \in {k \in from..(to - 2) : blob.bytes[k] = "eol"}}

\* Cut at the starts, and every `width` bytes after each of them.
Cuts(starts, width, from, to) ==
  {c \in from..(to - 1) :
     \E k \in 0..(to - from) : c = Greatest({s \in starts : s <= c}) + k * width}

Piece(from, to, tainted) ==
  [from |-> from, to |-> to, size |-> Ink(from, to), tainted |-> tainted]

\* The pieces of [from, to) between consecutive cuts.
PiecesAt(cuts, to, tainted) ==
  {Piece(c, Smallest({d \in cuts \cup {to} : d > c}), tainted) : c \in cuts}

\* _hard_split: at line starts, and within lines every MaxChunk bytes.
HardSplit(from, to) ==
  PiecesAt(Cuts(LineStarts(from, to), MaxChunk, from, to), to, FALSE)

\* Every WindowLines-th line start.
WindowStarts(from, to) ==
  LET lines == LineStarts(from, to)
  IN  {s \in lines : Cardinality({t \in lines : t < s}) % WindowLines = 0}

\* _line_window_pieces
Windows(from, to) ==
  PiecesAt(Cuts(WindowStarts(from, to), MaxBytes, from, to), to, TRUE)

-----------------------------------------------------------------------------
(* Trees *)

\* Mutant: the first child begins where it begins.
ExtentsOwnStart(node, from, to) ==
  LET kids == blob.kids[node]
      First(i) == blob.start[kids[i]]
      Last(i) == IF i = Len(kids) THEN to ELSE blob.start[kids[i + 1]]
  IN  {[node |-> kids[i], from |-> First(i), to |-> Last(i)] :
         i \in {j \in 1..Len(kids) : First(j) < Last(j)}}

\* Mutant: empty extents are kept.
ExtentsEmpty(node, from, to) ==
  LET kids == blob.kids[node]
      First(i) == IF i = 1 THEN from ELSE blob.start[kids[i]]
      Last(i) == IF i = Len(kids) THEN to ELSE blob.start[kids[i + 1]]
  IN  {[node |-> kids[i], from |-> First(i), to |-> Last(i)] : i \in 1..Len(kids)}

\* _child_extents, and the same rule in _split: a child's extent runs to the
\* start of the next; the first inherits what precedes it, the last what
\* follows.
Extents(node, from, to) ==
  LET kids == blob.kids[node]
      First(i) == IF i = 1 THEN from ELSE blob.start[kids[i]]
      Last(i) == IF i = Len(kids) THEN to ELSE blob.start[kids[i + 1]]
  IN  {[node |-> kids[i], from |-> First(i), to |-> Last(i)] :
         i \in {j \in 1..Len(kids) : First(j) < Last(j)}}

Task(e, depth, tainted) ==
  [node |-> e.node, from |-> e.from, to |-> e.to, depth |-> depth, tainted |-> tainted]

TopLevel == Extents(blob.root, 0, N)

\* MAX_TAINTED_DECL_FRACTION is one half; a clean definition must be left.
Salvageable ==
  /\ 2 * Cardinality({e \in TopLevel : blob.bad[e.node]}) <= Cardinality(TopLevel)
  /\ \E e \in TopLevel : ~blob.bad[e.node] /\ blob.defines[e.node]

-----------------------------------------------------------------------------

TypeOK ==
  /\ WellFormed(blob)
  /\ stage \in Stages
  /\ \A t \in todo :
       /\ t \in [node : blob.nodes, from : 0..N, to : 0..N, depth : 0..MaxDepth,
                 tainted : BOOLEAN]
       /\ t.from < t.to
  /\ \A c \in pieces \cup chunks :
       /\ c \in [from : 0..N, to : 0..N, size : Nat, tainted : BOOLEAN]
       /\ c.from < c.to
  /\ line \in 0..N /\ (stage = "lines" => line < N)

Init ==
  /\ blob \in Blobs
  /\ stage = "parse"
  /\ todo = {}
  /\ pieces = {}
  /\ chunks = {}
  /\ line = 0

Goto(from, to) ==
  /\ stage = from
  /\ stage' = to

-----------------------------------------------------------------------------
(* chunk_ast() *)

\* An empty blob has no chunks, whatever its language.
Empty ==
  /\ Goto("parse", "chunked")
  /\ N = 0
  /\ UNCHANGED <<blob, todo, pieces, chunks, line>>

\* No grammar for the language, or the parser raises.
NoTree ==
  /\ Goto("parse", "lines")
  /\ N > 0
  /\ UNCHANGED <<blob, todo, pieces, chunks, line>>

Clean ==
  /\ Goto("parse", "split")
  /\ N > 0
  /\ ~blob.bad[blob.root]
  /\ todo' = {Task([node |-> blob.root, from |-> 0, to |-> N], 0, FALSE)}
  /\ UNCHANGED <<blob, pieces, chunks, line>>

\* _salvage: clean declarations are split, tainted ones windowed.
Salvage ==
  /\ Goto("parse", "split")
  /\ N > 0
  /\ blob.bad[blob.root]
  /\ Salvageable
  /\ todo' = {Task(e, 0, blob.bad[e.node]) : e \in TopLevel}
  /\ UNCHANGED <<blob, pieces, chunks, line>>

\* Too little of the structure is left.
Hopeless ==
  /\ Goto("parse", "lines")
  /\ N > 0
  /\ blob.bad[blob.root]
  /\ ~Salvageable
  /\ UNCHANGED <<blob, todo, pieces, chunks, line>>

\* An exception while splitting or merging: all of it is discarded.
Raise ==
  /\ stage \in {"split", "merge"}
  /\ stage' = "lines"
  /\ todo' = {}
  /\ pieces' = {}
  /\ chunks' = {}
  /\ UNCHANGED <<blob, line>>

-----------------------------------------------------------------------------
(* _split(), one call after the other *)

Leftmost(S, x) == x \in S /\ \A y \in S : x.from <= y.from

\* Mutant: a full node is taken for an oversized one.
FitsStrictly(t) == Ink(t.from, t.to) < MaxChunk

Fits(t) == Ink(t.from, t.to) <= MaxChunk

Whole(t) ==
  /\ ~t.tainted /\ Fits(t)
  /\ todo' = todo \ {t}
  /\ pieces' = pieces \cup {Piece(t.from, t.to, FALSE)}

Atomic(t) == blob.kids[t.node] = <<>> \/ t.depth >= MaxDepth

Hard(t) ==
  /\ ~t.tainted /\ ~Fits(t)
  /\ Atomic(t)
  /\ todo' = todo \ {t}
  /\ pieces' = pieces \cup HardSplit(t.from, t.to)

Descend(t) ==
  /\ ~t.tainted /\ ~Fits(t)
  /\ ~Atomic(t)
  /\ todo' = (todo \ {t}) \cup
             {Task(e, t.depth + 1, FALSE) : e \in Extents(t.node, t.from, t.to)}
  /\ UNCHANGED pieces

\* A declaration with errors: line windows.
Window(t) ==
  /\ t.tainted
  /\ todo' = todo \ {t}
  /\ pieces' = pieces \cup Windows(t.from, t.to)

Split ==
  /\ Goto("split", "split")
  /\ \E t \in todo : Leftmost(todo, t) /\ (Whole(t) \/ Hard(t) \/ Descend(t) \/ Window(t))
  /\ UNCHANGED <<blob, chunks, line>>

EndSplit ==
  /\ Goto("split", "merge")
  /\ todo = {}
  /\ UNCHANGED <<blob, todo, pieces, chunks, line>>

-----------------------------------------------------------------------------
(* _merge() *)

\* Mutants: the sizes are compared one by one, or taint is not looked at, or
\* the limit is not used up.
GluesEach(c, p) ==
  /\ c.to = p.from /\ c.size <= MaxChunk /\ p.size <= MaxChunk
  /\ ~c.tainted /\ ~p.tainted
GluesTainted(c, p) == c.to = p.from /\ c.size + p.size <= MaxChunk
GluesBelow(c, p) ==
  /\ c.to = p.from /\ c.size + p.size < MaxChunk
  /\ ~c.tainted /\ ~p.tainted

\* May piece p be glued to chunk c?
Glues(c, p) ==
  /\ c.to = p.from
  /\ c.size + p.size <= MaxChunk
  /\ ~c.tainted /\ ~p.tainted

\* The last chunk grows.
Glue(p) ==
  \E c \in chunks :
    /\ Glues(c, p)
    /\ chunks' = (chunks \ {c}) \cup
                 {[c EXCEPT !.to = p.to, !.size = c.size + p.size]}

\* A new one begins.
Begin(p) ==
  /\ \A c \in chunks : ~Glues(c, p)
  /\ chunks' = chunks \cup {p}

Merge ==
  /\ Goto("merge", "merge")
  /\ \E p \in pieces : /\ Leftmost(pieces, p)
                       /\ pieces' = pieces \ {p}
                       /\ Glue(p) \/ Begin(p)
  /\ UNCHANGED <<blob, todo, line>>

EndMerge ==
  /\ Goto("merge", "chunked")
  /\ pieces = {}
  /\ UNCHANGED <<blob, todo, pieces, chunks, line>>

-----------------------------------------------------------------------------
(* chunk_lines() *)

Lines == Cardinality(LineStarts(0, N))

\* offsets[i]: the line start with i others before it; beyond the last line, the
\* length of the blob.
Offset(i) ==
  IF i >= Lines THEN N
  ELSE Smallest({s \in LineStarts(0, N) \cup {N} :
                   Cardinality({t \in LineStarts(0, N) : t < s}) >= i})

\* Mutant: no overlap.
StepWindow == WindowLines
StepLines == WindowLines - OverlapLines

LineWindow(from, to) ==
  PiecesAt(Cuts({from}, MaxBytes, from, to), to, FALSE)

NextWindow ==
  LET end == IF line + WindowLines < Lines THEN line + WindowLines ELSE Lines
  IN  /\ chunks' = chunks \cup LineWindow(Offset(line), Offset(end))
      /\ line' = IF end = Lines THEN line ELSE line + StepLines
      /\ stage' = IF end = Lines THEN "windowed" ELSE "lines"

AddWindow ==
  /\ stage = "lines"
  /\ NextWindow
  /\ UNCHANGED <<blob, todo, pieces>>

-----------------------------------------------------------------------------

Next ==
  \/ Empty \/ NoTree \/ Clean \/ Salvage \/ Hopeless \/ Raise
  \/ Split \/ EndSplit \/ Merge \/ EndMerge \/ AddWindow

Spec == Init /\ [][Next]_vars

-----------------------------------------------------------------------------
(* Properties *)

Covers(S, k) == \E c \in S : c.from <= k /\ k < c.to
Disjoint(c, d) == c.to <= d.from \/ d.to <= c.from

\* "Reassembling all chunks reproduces the blob byte-exactly" (cast.py), for a
\* salvaged file, too; and at every step before: what is split, merged or still
\* to be split covers each byte once.
Partition ==
  stage \in {"split", "merge", "chunked"} =>
    LET parts == todo \cup pieces \cup chunks
    IN  /\ \A k \in 0..(N - 1) : Covers(parts, k)
        /\ \A c, d \in parts : c # d => Disjoint(c, d)

\* No chunk is too large for the embedder: MaxChunk characters, or MaxBytes
\* bytes of a window; and the sizes that are only ever added up are right.
WithinBudget ==
  \A c \in chunks :
    /\ c.size = Ink(c.from, c.to)
    /\ stage \in {"merge", "chunked"} /\ ~c.tainted => c.size <= MaxChunk
    /\ stage \in {"lines", "windowed"} \/ c.tainted => c.to - c.from <= MaxBytes

\* No chunk is half trustworthy (the comment in _merge): it is tainted or not
\* exactly as the declaration is that each of its bytes belongs to.
Provenance ==
  stage = "chunked" =>
    \A c \in chunks, e \in TopLevel :
      ~Disjoint(c, e) => c.tainted = blob.bad[e.node]

\* The merge is maximal: no two neighbours would have fitted into one chunk.
Maximal ==
  stage = "chunked" =>
    \A c, d \in chunks :
      c.to = d.from /\ ~c.tainted /\ ~d.tainted => c.size + d.size > MaxChunk

\* The depth at which _split meets the declarations.
TopDepth == IF blob.bad[blob.root] THEN 0 ELSE 1

\* What the chunker is for: a declaration that fits into a chunk is in one
\* chunk, with its trailing comments and blank lines.
DeclarationsWhole ==
  stage = "chunked" =>
    \A e \in TopLevel :
      Ink(e.from, e.to) <= MaxChunk /\ ~blob.bad[e.node] /\ TopDepth <= MaxDepth =>
        \E c \in chunks : c.from <= e.from /\ e.to <= c.to

\* No window is cut for its size.
Uncut == \A i \in 0..(Lines - 1) : Offset(i + WindowLines) - Offset(i) <= MaxBytes

\* The fallback loses no byte; and where windows are not cut for their size it
\* stores none twice (a chunk within another), and whatever spans
\* OverlapLines + 1 lines is whole in some chunk.
WindowsOverlap ==
  stage = "windowed" =>
    /\ \A k \in 0..(N - 1) : Covers(chunks, k)
    /\ Uncut => /\ \A c, d \in chunks : c.from <= d.from /\ d.to <= c.to => c = d
                /\ \A i \in 0..(Lines - 1) :
                     \E c \in chunks : c.from <= Offset(i) /\ Offset(i + OverlapLines + 1) <= c.to

=============================================================================
