-------------------------- MODULE EmbedPassProofs ---------------------------
(***************************************************************************)
(* What the embedding passes guarantee about the vectors, for any number   *)
(* of processes, chunks, tags and models, with and without sqlite-vec.     *)
(***************************************************************************)
EXTENDS EmbedPass, WellFoundedInduction, TLAPS

\* A nonempty set of numbered chunks has a first element.
LEMMA LeastIn ==
  ASSUME NEW S, S \subseteq Chunks, S # {}
  PROVE  Least(S) \in S
<1>0. S \subseteq Nat
  BY EmbedPassAssumption
<1>1. PICK x \in S : \A y \in S : ~ (<<y, x>> \in OpToRel(<, Nat))
  <2> HIDE DEF OpToRel
  <2> QED BY <1>0, WFMin, NatLessThanWellFounded
<1>2. ASSUME NEW y \in S PROVE x <= y
  <2>1. SUFFICES ASSUME y < x PROVE FALSE
    BY <1>0
  <2>2. <<y, x>> \in OpToRel(<, Nat)
    BY <2>1, <1>0, Zenon DEF OpToRel
  <2> QED
    BY <2>2, <1>1
<1> QED
  BY <1>2 DEF Least

-----------------------------------------------------------------------------
(* Types *)

\* A pass that is about to store a vector has a chunk to store it for.
Busy == \A p \in Procs : stage[p] \in {"ensure", "create", "pin", "put"} => batch[p] # {}

TypeInv == TypeOK /\ Busy

LEMMA DimTypes ==
  ASSUME TypeOK, NEW p \in Procs, stage[p] # "idle"
  PROVE  tag[p] \in Tags /\ Model[tag[p]] \in Models /\ DimOf(p) \in Dims
  BY DEF TypeOK, Models, Dims, DimOf

LEMMA ReturnTypes ==
  ASSUME TypeInv, NEW p \in Procs, Return(p)
  PROVE  /\ stage' \in [Procs -> Stages]
         /\ tag' \in [Procs -> Tags \cup {NoTag}]
         /\ kind' \in [Procs -> [hook : BOOLEAN, vec : BOOLEAN]]
         /\ todo' \in [Procs -> SUBSET Chunks]
         /\ batch' \in [Procs -> SUBSET Chunks]
         /\ asked' \in [Procs -> Tags \cup {NoTag}]
         /\ \A q \in Procs : stage'[q] # "idle" => tag'[q] \in Tags
         /\ Busy'
  BY DEF TypeInv, TypeOK, Busy, Return, NoKind, Stages

LEMMA GotoTypes ==
  ASSUME TypeInv, NEW p \in Procs, NEW from \in Stages \ {"idle"}, NEW to \in Stages \ {"idle"},
         Goto(p, from, to), UNCHANGED locals, asked' \in [Procs -> Tags \cup {NoTag}],
         to \in {"ensure", "create", "pin", "put"} => from \in {"ensure", "create", "pin", "put"}
  PROVE  /\ stage' \in [Procs -> Stages]
         /\ tag' \in [Procs -> Tags \cup {NoTag}]
         /\ kind' \in [Procs -> [hook : BOOLEAN, vec : BOOLEAN]]
         /\ todo' \in [Procs -> SUBSET Chunks]
         /\ batch' \in [Procs -> SUBSET Chunks]
         /\ asked' \in [Procs -> Tags \cup {NoTag}]
         /\ \A q \in Procs : stage'[q] # "idle" => tag'[q] \in Tags
         /\ Busy'
  BY DEF TypeInv, TypeOK, Busy, Goto, locals

\* p goes on within embed_chunks() with other misses.
LEMMA NextTypes ==
  ASSUME TypeInv, NEW p \in Procs, stage[p] # "idle",
         NEW next \in {"ensure", "batch"}, NEW rest \in SUBSET Chunks, NEW left \in SUBSET Chunks,
         next = "ensure" => left # {},
         stage' = [stage EXCEPT ![p] = next], todo' = [todo EXCEPT ![p] = rest],
         batch' = [batch EXCEPT ![p] = left], UNCHANGED <<tag, kind, asked>>
  PROVE  /\ stage' \in [Procs -> Stages]
         /\ tag' \in [Procs -> Tags \cup {NoTag}]
         /\ kind' \in [Procs -> [hook : BOOLEAN, vec : BOOLEAN]]
         /\ todo' \in [Procs -> SUBSET Chunks]
         /\ batch' \in [Procs -> SUBSET Chunks]
         /\ asked' \in [Procs -> Tags \cup {NoTag}]
         /\ \A q \in Procs : stage'[q] # "idle" => tag'[q] \in Tags
         /\ Busy'
<1>1. /\ stage' \in [Procs -> Stages] /\ todo' \in [Procs -> SUBSET Chunks]
      /\ batch' \in [Procs -> SUBSET Chunks] /\ asked' \in [Procs -> Tags \cup {NoTag}]
  BY DEF TypeInv, TypeOK, Stages
<1>2. \A q \in Procs : stage'[q] # "idle" => tag'[q] \in Tags
  BY DEF TypeInv, TypeOK
<1>3. Busy'
  BY DEF TypeInv, TypeOK, Busy
<1> QED
  BY <1>1, <1>2, <1>3 DEF TypeInv, TypeOK

LEMMA TypeStep == TypeInv /\ [Next]_vars => TypeInv'
<1> SUFFICES ASSUME TypeInv, [Next]_vars PROVE TypeInv'
  OBVIOUS
<1> USE EmbedPassAssumption
<1>1. ASSUME NEW chunks \in SUBSET Chunks, SyncOnly(chunks) PROVE TypeInv'
  BY <1>1 DEF SyncOnly, tables, locals, TypeInv, TypeOK, Busy
<1>2. ASSUME NEW p \in Procs, NEW t \in Tags, NEW k \in Kinds, NEW chunks \in SUBSET Chunks,
             Sync(p, t, k, chunks)
      PROVE  TypeInv'
  BY <1>2 DEF Sync, tables, TypeInv, TypeOK, Busy, Stages
<1>3. ASSUME NEW p \in Procs, Defer(p) \/ WipeFails(p) \/ NothingMissing(p) \/ NoModel(p)
                              \/ WrongDim(p) \/ PutFails(p) \/ Fail(p)
      PROVE  TypeInv'
  <2>1. Return(p) /\ UNCHANGED <<active, tables, cached, overlapped, plain, passes>>
        /\ excused' \in BOOLEAN /\ failures' \in 0..MaxFailures
    <3>1. CASE Fail(p)
      BY <3>1 DEF Fail, TypeInv, TypeOK
    <3>2. CASE Defer(p) \/ WipeFails(p) \/ NoModel(p)
      BY <3>2 DEF Defer, WipeFails, NoModel, counts, TypeInv, TypeOK
    <3>3. CASE NothingMissing(p) \/ WrongDim(p)
      BY <3>3 DEF NothingMissing, WrongDim, counts, TypeInv, TypeOK
    <3>4. CASE PutFails(p)
      BY <3>4 DEF PutFails, counts, TypeInv, TypeOK
    <3> QED BY <1>3, <3>1, <3>2, <3>3, <3>4
  <2> QED
    BY <2>1, ReturnTypes DEF TypeInv, TypeOK, tables
<1>4. ASSUME NEW p \in Procs, Proceed(p) \/ Compat(p) \/ Ensure(p) PROVE TypeInv'
  <2>1. /\ UNCHANGED <<active, tables, cached, locals, counts, excused, overlapped, plain>>
        /\ asked' \in [Procs -> Tags \cup {NoTag}]
        /\ \E from, to \in Stages \ {"idle"} :
             /\ Goto(p, from, to)
             /\ to \in {"ensure", "create", "pin", "put"} => from \in {"ensure", "create", "pin", "put"}
    <3>1. CASE Proceed(p)
      BY <3>1 DEF Proceed, Stages, TypeInv, TypeOK
    <3>2. CASE Compat(p)
      BY <3>2 DEF Compat, Stages, TypeInv, TypeOK
    <3>3. CASE Ensure(p)
      BY <3>3 DEF Ensure, Stages, TypeInv, TypeOK
    <3> QED BY <1>4, <3>1, <3>2, <3>3
  <2> QED
    BY <2>1, GotoTypes DEF TypeInv, TypeOK, tables, counts, locals
<1>5. ASSUME NEW p \in Procs, Wipe(p) \/ SetTag(p) PROVE TypeInv'
  <2>1. stage[p] # "idle"
    BY <1>5 DEF Wipe, SetTag, Goto
  <2>2. Goto(p, "wipe", "settag") \/ Goto(p, "settag", "select")
    BY <1>5 DEF Wipe, SetTag
  <2> QED
    BY <1>5, <2>1, <2>2, GotoTypes, DimTypes
    DEF Wipe, SetTag, TypeInv, TypeOK, NoVectors, counts, locals, Stages
<1>6. ASSUME NEW p \in Procs, CreateTable(p) \/ PinDim(p) PROVE TypeInv'
  <2>1. stage[p] # "idle"
    BY <1>6 DEF CreateTable, PinDim, Goto
  <2>2. CASE CreateTable(p)
    BY <2>1, <2>2, GotoTypes, DimTypes DEF CreateTable, TypeInv, TypeOK, counts, locals, Stages
  <2>3. CASE PinDim(p)
    BY <2>1, <2>3, GotoTypes, DimTypes DEF PinDim, TypeInv, TypeOK, counts, locals, Stages
  <2> QED
    BY <1>6, <2>2, <2>3
<1>7. ASSUME NEW p \in Procs, Select(p) PROVE TypeInv'
  BY <1>7 DEF Select, Goto, Missing, tables, counts, TypeInv, TypeOK, Busy, Stages
<1>8. ASSUME NEW p \in Procs, Encode(p) PROVE TypeInv'
  <2> DEFINE slice == Slice(todo[p])
             misses == {c \in slice : vectors[c] = NoVector}
             rest == todo[p] \ slice
  <2>0. /\ stage[p] = "batch"
        /\ UNCHANGED <<active, tables, counts, excused, overlapped, plain>>
        /\ cached' = IF misses = {} THEN cached ELSE cached \cup {Model[tag[p]]}
        /\ IF misses = {} /\ rest = {} THEN Return(p)
           ELSE /\ stage' = [stage EXCEPT ![p] = NextStage(rest, misses)]
                /\ todo' = [todo EXCEPT ![p] = rest]
                /\ batch' = [batch EXCEPT ![p] = misses]
                /\ UNCHANGED <<tag, kind, asked>>
    BY <1>8 DEF Encode
  <2>1. misses \subseteq Chunks /\ rest \subseteq Chunks
    BY DEF Slice, TypeInv, TypeOK
  <2>2. cached' \subseteq Models
    BY <2>0, DimTypes DEF TypeInv, TypeOK
  <2>3. CASE Return(p)
    BY <2>0, <2>2, <2>3, ReturnTypes DEF TypeInv, TypeOK, tables, counts
  <2>4. CASE ~(misses = {} /\ rest = {})
    <3> HIDE DEF misses, rest
    <3>1. /\ NextStage(rest, misses) \in {"ensure", "batch"}
          /\ NextStage(rest, misses) = "ensure" => misses # {}
      BY <2>4 DEF NextStage
    <3>2. /\ stage' = [stage EXCEPT ![p] = NextStage(rest, misses)]
          /\ todo' = [todo EXCEPT ![p] = rest] /\ batch' = [batch EXCEPT ![p] = misses]
          /\ UNCHANGED <<tag, kind, asked>>
      BY <2>0, <2>4
    <3> QED
      BY <2>0, <2>1, <2>2, <3>1, <3>2, NextTypes DEF TypeInv, TypeOK, tables, counts
  <2> QED
    BY <2>0, <2>3, <2>4
<1>9. ASSUME NEW p \in Procs, Put(p) PROVE TypeInv'
  <2> DEFINE c == Least(batch[p])
             left == batch[p] \ {c}
             next == NextStage(todo[p], left)
  <2>0. /\ stage[p] = "put" /\ CanInsert(p)
        /\ vectors' = [vectors EXCEPT ![c] = tag[p]]
        /\ vecRows' = IF kind[p].vec THEN [vecRows EXCEPT ![c] = tag[p]] ELSE vecRows
        /\ plain' = IF kind[p].vec THEN plain \ {c} ELSE plain \cup {c}
        /\ IF next = "idle" THEN Return(p)
           ELSE /\ stage' = [stage EXCEPT ![p] = next]
                /\ batch' = [batch EXCEPT ![p] = left]
                /\ UNCHANGED <<tag, kind, todo, asked>>
        /\ UNCHANGED <<active, embedTag, vecTable, vecDim, cached, counts, excused, overlapped>>
    BY <1>9 DEF Put
  <2>1. c \in Chunks /\ left \subseteq Chunks /\ tag[p] \in Tags
    <3>1. batch[p] # {} /\ batch[p] \subseteq Chunks
      BY <2>0 DEF TypeInv, TypeOK, Busy
    <3> QED
      BY <2>0, <3>1, LeastIn DEF TypeInv, TypeOK
  <2>2. /\ next \in {"ensure", "batch", "idle"}
        /\ next = "ensure" => left # {}
    BY DEF NextStage
  <2> HIDE DEF c, left, next
  <2>3. /\ vectors' \in [Chunks -> Tags \cup {NoVector}]
        /\ vecRows' \in [Chunks -> Tags \cup {NoVector}]
        /\ plain' \subseteq Chunks
    BY <2>0, <2>1 DEF TypeInv, TypeOK
  <2>4. CASE next = "idle"
    BY <2>0, <2>3, <2>4, ReturnTypes DEF TypeInv, TypeOK, counts
  <2>5. CASE next # "idle"
    <3>1. /\ stage' = [stage EXCEPT ![p] = next] /\ batch' = [batch EXCEPT ![p] = left]
          /\ UNCHANGED <<tag, kind, asked>> /\ todo' = [todo EXCEPT ![p] = todo[p]]
      BY <2>0, <2>5 DEF TypeInv, TypeOK
    <3>2. todo[p] \in SUBSET Chunks
      BY DEF TypeInv, TypeOK
    <3> QED
      BY <2>0, <2>1, <2>2, <2>3, <2>5, <3>1, <3>2, NextTypes, ZenonT(30) DEF TypeInv, TypeOK, counts
  <2> QED
    BY <2>4, <2>5
<1>10. CASE UNCHANGED vars
  BY <1>10 DEF vars, tables, locals, counts, TypeInv, TypeOK, Busy
<1> QED
  BY <1>1, <1>2, <1>3, <1>4, <1>5, <1>6, <1>7, <1>8, <1>9, <1>10 DEF Next, Step

LEMMA TypeInvariant == Spec => []TypeInv
<1>1. Init => TypeInv
  <2> SUFFICES ASSUME Init PROVE TypeInv
    OBVIOUS
  <2>1. NoKind \in [hook : BOOLEAN, vec : BOOLEAN]
    BY DEF NoKind
  <2>2. 0 \in 0..MaxPasses /\ 0 \in 0..MaxFailures
    BY EmbedPassAssumption
  <2>3. NoVectors \in [Chunks -> Tags \cup {NoVector}]
    BY DEF NoVectors
  <2>4. \A p \in Procs : stage[p] = "idle"
    BY DEF Init
  <2>5. Busy
    BY <2>4 DEF Busy
  <2> HIDE DEF NoKind, NoVectors
  <2> QED
    BY <2>1, <2>2, <2>3, <2>4, <2>5 DEF Init, TypeInv, TypeOK, Stages
<1> QED
  BY <1>1, TypeStep, PTL DEF Spec

\* The variables of the embedding pass keep their types.
THEOREM EmbedPassTypeCorrect == Spec => []TypeOK
<1>1. TypeInv => TypeOK
  BY DEF TypeInv
<1> QED
  BY <1>1, TypeInvariant, PTL

-----------------------------------------------------------------------------
(* One vector space *)

\* The stages after the index is known to carry the pass's own tag.
Working == {"select", "batch", "ensure", "create", "pin", "put"}

\* As long as passes with different tags have not overlapped, those that run
\* agree,
SameTag == \A p, q \in Procs : stage[p] # "idle" /\ stage[q] # "idle" => tag[p] = tag[q]

\* each is where the tables allow it to be: about to set its tag, it finds
\* nothing computed under another; past that, the tag is set; and a hook does
\* not get as far as a wipe,
Placed(p) ==
  /\ stage[p] = "settag" => /\ \A c \in Chunks : vectors[c] \in {NoVector, tag[p]}
                            /\ vecTable \in {NoDim, DimOf(p)}
                            /\ vecDim \in {NoDim, DimOf(p)}
  /\ stage[p] \in Working => embedTag = tag[p]
  /\ stage[p] = "compat" /\ kind[p].hook => ~Pending(p)
  /\ stage[p] = "wipe" => ~kind[p].hook

\* and the tables are those of one tag.
OneTag ==
  /\ \A c \in Chunks : vectors[c] \in {NoVector, embedTag}
  /\ vecTable # NoDim => embedTag \in Tags /\ vecTable = Dim[Model[embedTag]]
  /\ vecDim # NoDim => embedTag \in Tags /\ vecDim = Dim[Model[embedTag]]

Coherent == SameTag /\ (\A p \in Procs : Placed(p)) /\ OneTag

\* Whatever overlaps, the two tables are written together.
RowsMatch == \A c \in Chunks \ plain : vecRows[c] = vectors[c]

\* The rows of the KNN table are in a table.
RowsHoused == vecRows # NoVectors => vecTable # NoDim

SpaceInv == RowsMatch /\ RowsHoused /\ (~overlapped => Coherent)

\* A step of p that leaves the tables alone.
LEMMA Frame ==
  ASSUME TypeInv, Coherent, NEW p \in Procs, UNCHANGED tables,
         \A q \in Procs \ {p} : stage'[q] = stage[q] /\ tag'[q] = tag[q] /\ kind'[q] = kind[q],
         stage'[p] = "idle" \/ (stage[p] # "idle" /\ tag'[p] = tag[p]),
         Placed(p)'
  PROVE  Coherent'
<1>1. SameTag'
  <2> SUFFICES ASSUME NEW q \in Procs, NEW r \in Procs, stage'[q] # "idle", stage'[r] # "idle"
               PROVE  tag'[q] = tag'[r]
    BY DEF SameTag
  <2>1. stage[q] # "idle" /\ stage[r] # "idle" /\ tag'[q] = tag[q] /\ tag'[r] = tag[r]
    OBVIOUS
  <2> QED
    BY <2>1 DEF Coherent, SameTag
<1>2. ASSUME NEW q \in Procs PROVE Placed(q)'
  <2>1. CASE q = p
    BY <2>1
  <2>2. CASE q # p
    <3>1. Placed(q) /\ stage'[q] = stage[q] /\ tag'[q] = tag[q] /\ kind'[q] = kind[q]
      BY <2>2 DEF Coherent
    <3>2. UNCHANGED <<vectors, vecTable, vecDim, embedTag>>
      BY DEF tables
    <3> QED
      BY <3>1, <3>2 DEF Placed, DimOf, Pending
  <2> QED
    BY <2>1, <2>2
<1>3. OneTag'
  BY DEF Coherent, OneTag, tables
<1> QED
  BY <1>1, <1>2, <1>3 DEF Coherent

\* What a pass that gives up or is done leaves behind.
LEMMA ReturnFrame ==
  ASSUME TypeInv, Coherent, NEW p \in Procs, UNCHANGED tables, Return(p)
  PROVE  Coherent'
<1>1. /\ stage'[p] = "idle"
      /\ \A q \in Procs \ {p} : stage'[q] = stage[q] /\ tag'[q] = tag[q] /\ kind'[q] = kind[q]
  BY DEF Return, TypeInv, TypeOK
<1>2. Placed(p)'
  BY <1>1 DEF Placed, Working
<1> QED
  BY <1>1, <1>2, Frame

\* A step of p that changes its stage only.
LEMMA GotoFrame ==
  ASSUME TypeInv, NEW p \in Procs, NEW from, NEW to, Goto(p, from, to), UNCHANGED locals
  PROVE  /\ stage[p] = from /\ stage'[p] = to
         /\ tag' = tag /\ kind' = kind
         /\ \A q \in Procs \ {p} : stage'[q] = stage[q]
  BY DEF Goto, TypeInv, TypeOK, locals

\* The tables of one tag, seen by a pass that works under it.
LEMMA UnderTag ==
  ASSUME TypeInv, Coherent, NEW p \in Procs, stage[p] \in Working
  PROVE  /\ embedTag = tag[p] /\ tag[p] \in Tags
         /\ \A c \in Chunks : vectors[c] \in {NoVector, tag[p]}
         /\ vecTable \in {NoDim, DimOf(p)} /\ vecDim \in {NoDim, DimOf(p)}
         /\ \A q \in Procs : stage[q] # "idle" => tag[q] = tag[p] /\ DimOf(q) = DimOf(p)
<1>1. embedTag = tag[p]
  BY DEF Coherent, Placed
<1>2. stage[p] # "idle"
  BY DEF Working
<1>3. tag[p] \in Tags
  BY <1>2 DEF TypeInv, TypeOK
<1>4. \A q \in Procs : stage[q] # "idle" => tag[q] = tag[p]
  BY <1>2 DEF Coherent, SameTag
<1> QED
  BY <1>1, <1>3, <1>4 DEF Coherent, OneTag, DimOf

\* A step of p that changes the tables under the tag they carry.
LEMMA TableFrame ==
  ASSUME TypeInv, Coherent, NEW p \in Procs, stage[p] \in Working,
         embedTag' = embedTag,
         \A c \in Chunks : vectors'[c] \in {vectors[c], tag[p]},
         vecTable' \in {vecTable, DimOf(p)}, vecDim' \in {vecDim, DimOf(p)},
         stage'[p] = "idle" \/ (stage'[p] \in Working /\ tag'[p] = tag[p]),
         \A q \in Procs \ {p} : stage'[q] = stage[q] /\ tag'[q] = tag[q] /\ kind'[q] = kind[q]
  PROVE  Coherent'
<1>1. stage[p] # "idle"
  BY DEF Working
<1>2. SameTag'
  <2> SUFFICES ASSUME NEW q \in Procs, NEW r \in Procs, stage'[q] # "idle", stage'[r] # "idle"
               PROVE  tag'[q] = tag'[r]
    BY DEF SameTag
  <2>1. stage[q] # "idle" /\ stage[r] # "idle" /\ tag'[q] = tag[q] /\ tag'[r] = tag[r]
    BY <1>1
  <2> QED
    BY <2>1 DEF Coherent, SameTag
<1>3. /\ \A c \in Chunks : vectors'[c] \in {NoVector, tag[p]}
      /\ vecTable' \in {NoDim, DimOf(p)} /\ vecDim' \in {NoDim, DimOf(p)}
  BY UnderTag
<1>4. ASSUME NEW q \in Procs PROVE Placed(q)'
  <2>1. CASE q = p
    BY <2>1, <1>1, UnderTag DEF Placed, Working
  <2>2. CASE q # p
    <3>1. Placed(q) /\ stage'[q] = stage[q] /\ tag'[q] = tag[q] /\ kind'[q] = kind[q]
      BY <2>2 DEF Coherent
    <3>2. ASSUME stage[q] = "settag" PROVE tag[q] = tag[p] /\ DimOf(q) = DimOf(p)
      BY <3>2, UnderTag
    <3>3. DimOf(q)' = DimOf(q)
      BY <3>1 DEF DimOf
    <3> QED
      BY <1>3, <3>1, <3>2, <3>3 DEF Placed, Pending
  <2> QED
    BY <2>1, <2>2
<1>5. OneTag'
  BY <1>3, UnderTag DEF OneTag, DimOf
<1> QED
  BY <1>2, <1>4, <1>5 DEF Coherent

\* While no passes with different tags overlap, every step keeps them coherent.
LEMMA CoherentStep ==
  ASSUME TypeInv, Coherent, [Next]_vars, ~overlapped'
  PROVE  Coherent'
<1> USE EmbedPassAssumption
<1>1. ASSUME NEW chunks \in SUBSET Chunks, SyncOnly(chunks) PROVE Coherent'
  BY <1>1 DEF SyncOnly, tables, locals, Coherent, SameTag, Placed, OneTag, DimOf, Pending
<1>2. ASSUME NEW p \in Procs, NEW t \in Tags, NEW k \in Kinds, NEW chunks \in SUBSET Chunks,
             Sync(p, t, k, chunks)
      PROVE  Coherent'
  <2>1. /\ \A q \in Procs : stage[q] # "idle" => tag[q] = t
        /\ stage[p] = "idle" /\ UNCHANGED tables
    BY <1>2 DEF Sync
  <2>2. /\ stage'[p] \in {"begin", "compat"} /\ tag'[p] = t /\ kind'[p] = k
        /\ k.hook => stage'[p] = "begin"
        /\ \A q \in Procs \ {p} : stage'[q] = stage[q] /\ tag'[q] = tag[q] /\ kind'[q] = kind[q]
    BY <1>2 DEF Sync, TypeInv, TypeOK
  <2>3. SameTag'
    <3>1. \A q \in Procs : stage'[q] # "idle" => tag'[q] = t
      BY <2>1, <2>2
    <3> QED
      BY <3>1 DEF SameTag
  <2>4. ASSUME NEW q \in Procs PROVE Placed(q)'
    <3>1. CASE q = p
      BY <3>1, <2>2 DEF Placed, Working
    <3>2. CASE q # p
      <4>1. Placed(q) /\ stage'[q] = stage[q] /\ tag'[q] = tag[q] /\ kind'[q] = kind[q]
        BY <2>2, <3>2 DEF Coherent
      <4> QED
        BY <4>1, <2>1 DEF tables, Placed, DimOf, Pending
    <3> QED
      BY <3>1, <3>2
  <2>5. OneTag'
    BY <2>1 DEF Coherent, OneTag, tables
  <2> QED
    BY <2>3, <2>4, <2>5 DEF Coherent
<1>3. ASSUME NEW p \in Procs, Defer(p) \/ WipeFails(p) \/ NothingMissing(p) \/ NoModel(p)
                              \/ WrongDim(p) \/ PutFails(p) \/ Fail(p)
      PROVE  Coherent'
  <2>1. Return(p) /\ UNCHANGED tables
    BY <1>3 DEF Defer, WipeFails, NothingMissing, NoModel, WrongDim, PutFails, Fail
  <2> QED
    BY <2>1, ReturnFrame
<1>4. ASSUME NEW p \in Procs, Proceed(p) PROVE Coherent'
  <2>1. /\ stage[p] = "begin" /\ stage'[p] = "compat" /\ tag' = tag /\ kind' = kind
        /\ \A q \in Procs \ {p} : stage'[q] = stage[q]
    BY <1>4, GotoFrame DEF Proceed
  <2>2. UNCHANGED tables /\ ~Pending(p)
    BY <1>4 DEF Proceed
  <2>3. Placed(p)'
    BY <2>1, <2>2 DEF Placed, Working, Pending, tables
  <2> QED
    BY <2>1, <2>2, <2>3, Frame
<1>5. ASSUME NEW p \in Procs, Compat(p) PROVE Coherent'
  <2> DEFINE to == IF Pending(p) THEN "wipe" ELSE IF embedTag = NoTag THEN "settag" ELSE "select"
  <2>1. /\ stage[p] = "compat" /\ stage'[p] = to /\ tag' = tag /\ kind' = kind
        /\ \A q \in Procs \ {p} : stage'[q] = stage[q]
    BY <1>5, GotoFrame DEF Compat
  <2>2. UNCHANGED tables
    BY <1>5 DEF Compat
  <2>3. Placed(p)'
    <3>1. CASE Pending(p)
      BY <3>1, <2>1, <2>2 DEF Placed, Working, tables, Coherent
    <3>2. CASE embedTag = NoTag
      <4>1. stage'[p] = "settag"
        BY <3>2, <2>1 DEF Pending
      <4>2. \A c \in Chunks : vectors[c] = NoVector
        BY <3>2 DEF Coherent, OneTag, TypeInv, TypeOK
      <4>3. vecTable = NoDim /\ vecDim = NoDim
        BY <3>2 DEF Coherent, OneTag
      <4> QED
        BY <4>1, <4>2, <4>3, <2>2 DEF Placed, Working, tables
    <3>3. CASE embedTag # NoTag /\ ~Pending(p)
      <4>1. stage'[p] = "select" /\ embedTag = tag[p]
        BY <3>3, <2>1 DEF Pending
      <4> QED
        BY <4>1, <2>1, <2>2 DEF Placed, Working, tables
    <3> QED
      BY <3>1, <3>2, <3>3
  <2> QED
    BY <2>1, <2>2, <2>3, Frame
<1>6. ASSUME NEW p \in Procs, Wipe(p) PROVE Coherent'
  <2>1. /\ stage[p] = "wipe" /\ stage'[p] = "settag" /\ tag' = tag /\ kind' = kind
        /\ \A q \in Procs \ {p} : stage'[q] = stage[q]
    BY <1>6, GotoFrame DEF Wipe
  <2>2. /\ \A c \in Chunks : vectors'[c] = NoVector
        /\ vecTable' = NoDim /\ vecDim' = NoDim /\ embedTag' = embedTag
    BY <1>6 DEF Wipe, NoVectors
  <2>3. SameTag'
    <3>1. \A q \in Procs : stage'[q] # "idle" => stage[q] # "idle"
      BY <2>1
    <3> QED
      BY <2>1, <3>1 DEF Coherent, SameTag
  <2>4. ASSUME NEW q \in Procs PROVE Placed(q)'
    <3>1. CASE q = p
      BY <3>1, <2>1, <2>2 DEF Placed, Working
    <3>2. CASE q # p
      <4>1. Placed(q) /\ stage'[q] = stage[q]
        BY <2>1, <3>2 DEF Coherent
      <4> QED
        BY <4>1, <2>1, <2>2 DEF Placed, Pending
    <3> QED
      BY <3>1, <3>2
  <2>5. OneTag'
    BY <2>2 DEF OneTag
  <2> QED
    BY <2>3, <2>4, <2>5 DEF Coherent
<1>7. ASSUME NEW p \in Procs, SetTag(p) PROVE Coherent'
  <2>1. /\ stage[p] = "settag" /\ stage'[p] = "select" /\ tag' = tag /\ kind' = kind
        /\ \A q \in Procs \ {p} : stage'[q] = stage[q]
    BY <1>7, GotoFrame DEF SetTag
  <2>2. /\ embedTag' = tag[p] /\ UNCHANGED <<vectors, vecTable, vecDim>>
    BY <1>7 DEF SetTag
  <2>3. /\ tag[p] \in Tags /\ \A c \in Chunks : vectors[c] \in {NoVector, tag[p]}
        /\ vecTable \in {NoDim, DimOf(p)} /\ vecDim \in {NoDim, DimOf(p)}
    BY <2>1 DEF Coherent, Placed, OneTag, TypeInv, TypeOK
  <2>4. \A q \in Procs : stage[q] # "idle" => tag[q] = tag[p]
    BY <2>1 DEF Coherent, SameTag
  <2>5. SameTag'
    <3>1. \A q \in Procs : stage'[q] # "idle" => stage[q] # "idle"
      BY <2>1
    <3> QED
      BY <2>1, <3>1 DEF Coherent, SameTag
  <2>6. ASSUME NEW q \in Procs PROVE Placed(q)'
    <3>1. CASE q = p
      BY <3>1, <2>1, <2>2 DEF Placed, Working
    <3>2. CASE q # p
      <4>1. Placed(q) /\ stage'[q] = stage[q] /\ DimOf(q)' = DimOf(q)
        BY <2>1, <3>2 DEF Coherent, DimOf
      <4>2. stage[q] # "idle" => embedTag' = tag[q]
        BY <2>2, <2>4
      <4>3. stage[q] \in Working => stage[q] # "idle"
        BY DEF Working
      <4> QED
        BY <4>1, <4>2, <4>3, <2>1, <2>2 DEF Placed, Pending
    <3> QED
      BY <3>1, <3>2
  <2>7. OneTag'
    BY <2>2, <2>3 DEF OneTag, DimOf
  <2> QED
    BY <2>5, <2>6, <2>7 DEF Coherent
<1>8. ASSUME NEW p \in Procs, Select(p) \/ Ensure(p) PROVE Coherent'
  <2>1. /\ stage[p] \in Working /\ stage'[p] \in Working /\ tag' = tag /\ kind' = kind
        /\ \A q \in Procs \ {p} : stage'[q] = stage[q]
    <3>1. CASE Select(p)
      BY <3>1 DEF Select, Goto, Working, TypeInv, TypeOK
    <3>2. CASE Ensure(p)
      BY <3>2, GotoFrame DEF Ensure, Working
    <3> QED
      BY <1>8, <3>1, <3>2
  <2>2. UNCHANGED tables
    BY <1>8 DEF Select, Ensure
  <2>3. Placed(p)'
    BY <2>1, <2>2, UnderTag DEF Placed, Working, tables
  <2>4. stage[p] # "idle"
    BY <2>1 DEF Working
  <2> QED
    BY <2>1, <2>2, <2>3, <2>4, Frame
<1>9. ASSUME NEW p \in Procs, Encode(p) PROVE Coherent'
  <2> DEFINE slice == Slice(todo[p])
             misses == {c \in slice : vectors[c] = NoVector}
             rest == todo[p] \ slice
  <2>1. /\ stage[p] = "batch" /\ UNCHANGED tables
        /\ Return(p) \/ /\ ~(misses = {} /\ rest = {})
                        /\ stage' = [stage EXCEPT ![p] = NextStage(rest, misses)]
                        /\ UNCHANGED <<tag, kind>>
    BY <1>9 DEF Encode
  <2> HIDE DEF misses, rest
  <2>2. CASE Return(p)
    BY <2>1, <2>2, ReturnFrame
  <2>3. CASE ~Return(p)
    <3>1. NextStage(rest, misses) \in Working
      BY <2>1, <2>3 DEF NextStage, Working
    <3>2. /\ stage[p] \in Working /\ stage'[p] \in Working /\ tag' = tag /\ kind' = kind
          /\ \A q \in Procs \ {p} : stage'[q] = stage[q]
      BY <2>1, <2>3, <3>1 DEF Working, TypeInv, TypeOK
    <3>3. Placed(p)'
      BY <2>1, <3>2, UnderTag DEF Placed, Working, tables
    <3>4. stage[p] # "idle"
      BY <2>1
    <3> QED
      BY <2>1, <3>2, <3>3, <3>4, Frame
  <2> QED
    BY <2>2, <2>3
<1>10. ASSUME NEW p \in Procs, CreateTable(p) \/ PinDim(p) PROVE Coherent'
  <2>1. /\ stage[p] \in {"create", "pin"} /\ stage'[p] \in {"pin", "put"}
        /\ tag' = tag /\ kind' = kind
        /\ \A q \in Procs \ {p} : stage'[q] = stage[q]
    <3>1. Goto(p, "create", "pin") \/ Goto(p, "pin", "put")
      BY <1>10 DEF CreateTable, PinDim
    <3>2. UNCHANGED locals
      BY <1>10 DEF CreateTable, PinDim
    <3> QED
      BY <3>1, <3>2, GotoFrame
  <2>2. /\ stage[p] \in Working /\ stage'[p] \in Working
    BY <2>1 DEF Working
  <2>3. /\ vecTable' \in {vecTable, DimOf(p)} /\ vecDim' \in {vecDim, DimOf(p)}
        /\ embedTag' = embedTag /\ vectors' = vectors
    BY <1>10 DEF CreateTable, PinDim
  <2> QED
    BY <2>1, <2>2, <2>3, TableFrame
<1>11. ASSUME NEW p \in Procs, Put(p) PROVE Coherent'
  <2> DEFINE c == Least(batch[p])
             left == batch[p] \ {c}
             next == NextStage(todo[p], left)
  <2>1. /\ stage[p] = "put"
        /\ vectors' = [vectors EXCEPT ![c] = tag[p]]
        /\ Return(p) \/ /\ next # "idle" /\ stage' = [stage EXCEPT ![p] = next]
                        /\ UNCHANGED <<tag, kind>>
        /\ UNCHANGED <<embedTag, vecTable, vecDim>>
    BY <1>11 DEF Put
  <2>2. next = "idle" \/ next \in Working
    BY DEF NextStage, Working
  <2> HIDE DEF c, left, next
  <2>3. /\ stage'[p] = "idle" \/ (stage'[p] \in Working /\ tag'[p] = tag[p])
        /\ \A q \in Procs \ {p} : stage'[q] = stage[q] /\ tag'[q] = tag[q] /\ kind'[q] = kind[q]
    BY <2>1, <2>2 DEF Return, TypeInv, TypeOK
  <2>4. \A d \in Chunks : vectors'[d] \in {vectors[d], tag[p]}
    BY <2>1 DEF TypeInv, TypeOK
  <2>5. stage[p] \in Working
    BY <2>1 DEF Working
  <2> QED
    BY <2>1, <2>3, <2>4, <2>5, TableFrame
<1>12. CASE UNCHANGED vars
  BY <1>12 DEF vars, tables, locals, Coherent, SameTag, Placed, OneTag, DimOf, Pending
<1> QED
  BY <1>1, <1>2, <1>3, <1>4, <1>5, <1>6, <1>7, <1>8, <1>9, <1>10, <1>11, <1>12 DEF Next, Step

\* Whatever passes overlap.
LEMMA RowsStep ==
  ASSUME TypeInv, RowsMatch, [Next]_vars
  PROVE  RowsMatch'
<1>1. CASE UNCHANGED <<vectors, vecRows, plain>>
  BY <1>1 DEF RowsMatch
<1>2. ASSUME NEW p \in Procs, Wipe(p) PROVE RowsMatch'
  BY <1>2 DEF Wipe, RowsMatch
<1>3. ASSUME NEW p \in Procs, Put(p) PROVE RowsMatch'
  <2> DEFINE c == Least(batch[p])
  <2>1. /\ vectors' = [vectors EXCEPT ![c] = tag[p]]
        /\ vecRows' = IF kind[p].vec THEN [vecRows EXCEPT ![c] = tag[p]] ELSE vecRows
        /\ plain' = IF kind[p].vec THEN plain \ {c} ELSE plain \cup {c}
    BY <1>3 DEF Put
  <2> HIDE DEF c
  <2> QED
    BY <2>1 DEF RowsMatch, TypeInv, TypeOK
<1> QED
  BY <1>1, <1>2, <1>3
  DEF Next, Step, SyncOnly, Sync, Fail, Defer, Proceed, Compat, WipeFails, SetTag, Select,
      NothingMissing, NoModel, Encode, Ensure, WrongDim, CreateTable, PinDim, PutFails, vars, tables

\* A row is inserted into a table that is there, and a table goes with its rows.
LEMMA HousedStep ==
  ASSUME TypeInv, RowsHoused, [Next]_vars
  PROVE  RowsHoused'
<1>1. CASE UNCHANGED <<vecRows, vecTable>>
  BY <1>1 DEF RowsHoused, NoVectors
<1>2. ASSUME NEW p \in Procs, Wipe(p) PROVE RowsHoused'
  BY <1>2 DEF Wipe, RowsHoused, NoVectors
<1>3. ASSUME NEW p \in Procs, CreateTable(p) PROVE RowsHoused'
  <2>1. DimOf(p) # NoDim
    BY <1>3, DimTypes, EmbedPassAssumption DEF CreateTable, Goto, TypeInv
  <2> QED
    BY <1>3, <2>1 DEF CreateTable, RowsHoused, NoVectors
<1>4. ASSUME NEW p \in Procs, Put(p) PROVE RowsHoused'
  <2>1. DimOf(p) # NoDim
    BY <1>4, DimTypes, EmbedPassAssumption DEF Put, TypeInv
  <2>2. /\ vecTable' = vecTable
        /\ kind[p].vec => vecTable = DimOf(p)
        /\ ~kind[p].vec => vecRows' = vecRows
    BY <1>4 DEF Put, CanInsert
  <2> QED
    BY <2>1, <2>2 DEF RowsHoused, NoVectors
<1> QED
  BY <1>1, <1>2, <1>3, <1>4
  DEF Next, Step, SyncOnly, Sync, Fail, Defer, Proceed, Compat, WipeFails, SetTag, Select,
      NothingMissing, NoModel, Encode, Ensure, WrongDim, PinDim, PutFails, vars, tables

\* Overlaps are remembered.
LEMMA OverlapStep ==
  ASSUME [Next]_vars, overlapped
  PROVE  overlapped'
  BY ZenonT(30) DEF Next, Step, SyncOnly, Sync, Fail, Defer, Proceed, Compat, Wipe, WipeFails, SetTag,
         Select, NothingMissing, NoModel, Encode, Ensure, WrongDim, CreateTable, PinDim, Put,
         PutFails, vars

LEMMA SpaceStep == TypeInv /\ SpaceInv /\ [Next]_vars => SpaceInv'
  BY CoherentStep, RowsStep, HousedStep, OverlapStep DEF SpaceInv

LEMMA SpaceInvariant == Spec => []SpaceInv
<1>1. Init => SpaceInv
  <2> SUFFICES ASSUME Init PROVE SpaceInv
    OBVIOUS
  <2>1. \A p \in Procs : stage[p] = "idle"
    BY DEF Init
  <2>2. SameTag /\ \A p \in Procs : Placed(p)
    BY <2>1 DEF SameTag, Placed, Working
  <2> QED
    BY <2>2 DEF Init, SpaceInv, RowsMatch, RowsHoused, Coherent, OneTag, NoVectors
<1> QED
  BY <1>1, TypeInvariant, SpaceStep, PTL DEF Spec

\* Every stored vector was computed under the tag the index carries, until
\* passes with different tags have overlapped (ensure_embedding_compat,
\* put_embedding): a crash between the wipe and the new tag included.
THEOREM EmbedPassOneSpace == Spec => []OneSpace
<1>1. SpaceInv => OneSpace
  BY DEF SpaceInv, Coherent, OneTag, OneSpace
<1> QED
  BY <1>1, SpaceInvariant, PTL

\* The KNN table holds what the embeddings table holds but for chunks embedded
\* without sqlite-vec, and its rows are in a table that exists, whatever passes
\* overlap and wherever they crash.  Its dimension is the pinned one if both are
\* there and passes with different tags have not overlapped: the table and the
\* pin are two transactions (_ensure_vec_table, put_embedding,
\* ensure_embedding_compat).
THEOREM EmbedPassVecTableFaithful == Spec => []VecTableFaithful
<1>1. SpaceInv => VecTableFaithful
  BY DEF SpaceInv, RowsMatch, RowsHoused, Coherent, OneTag, VecTableFaithful
<1> QED
  BY <1>1, SpaceInvariant, PTL

\* What a hook was told when it asked whether to defer: the index had no tag,
\* or the hook's own.
AskedInv ==
  \A p \in Procs : /\ asked[p] \in {NoTag, tag[p]}
                   /\ stage[p] \in {"idle", "begin"} => asked[p] = NoTag

LEMMA AskedStep ==
  ASSUME TypeInv, AskedInv, [Next]_vars
  PROVE  AskedInv'
<1>1. ASSUME NEW p \in Procs, Return(p) PROVE AskedInv'
  BY <1>1 DEF Return, AskedInv, TypeInv, TypeOK
<1>2. ASSUME NEW p \in Procs, stage[p] \notin {"idle", "begin"}, UNCHANGED <<tag, asked>>,
             NEW to \in Stages \ {"idle", "begin"}, stage' = [stage EXCEPT ![p] = to]
      PROVE  AskedInv'
  BY <1>2 DEF AskedInv, TypeInv, TypeOK
<1>3. ASSUME NEW chunks \in SUBSET Chunks, SyncOnly(chunks) PROVE AskedInv'
  BY <1>3 DEF SyncOnly, locals, AskedInv
<1>4. ASSUME NEW p \in Procs, NEW t \in Tags, NEW k \in Kinds, NEW chunks \in SUBSET Chunks,
             Sync(p, t, k, chunks)
      PROVE  AskedInv'
  <2>1. /\ stage[p] = "idle" /\ asked' = asked
        /\ \A q \in Procs \ {p} : stage'[q] = stage[q] /\ tag'[q] = tag[q]
    BY <1>4 DEF Sync, TypeInv, TypeOK
  <2> QED BY <2>1 DEF AskedInv
<1>5. ASSUME NEW p \in Procs, Defer(p) \/ WipeFails(p) \/ NothingMissing(p) \/ NoModel(p)
                              \/ WrongDim(p) \/ PutFails(p) \/ Fail(p)
      PROVE  AskedInv'
  BY <1>1, <1>5 DEF Defer, WipeFails, NothingMissing, NoModel, WrongDim, PutFails, Fail
<1>6. ASSUME NEW p \in Procs, Proceed(p) PROVE AskedInv'
  <2>1. /\ tag' = tag /\ embedTag \in {NoTag, tag[p]}
        /\ asked' = [asked EXCEPT ![p] = embedTag]
        /\ stage'[p] = "compat" /\ \A q \in Procs \ {p} : stage'[q] = stage[q]
    BY <1>6 DEF Proceed, Pending, Goto, locals, TypeInv, TypeOK
  <2> QED BY <2>1 DEF AskedInv, TypeInv, TypeOK
<1>7. ASSUME NEW p \in Procs, Compat(p) \/ Ensure(p) \/ Wipe(p) \/ SetTag(p) \/ Select(p)
                              \/ CreateTable(p) \/ PinDim(p)
      PROVE  AskedInv'
  <2>1. UNCHANGED <<tag, asked>>
    BY <1>7 DEF Compat, Ensure, Wipe, SetTag, Select, CreateTable, PinDim, locals
  <2>2. \E from, to \in Stages \ {"idle", "begin"} : Goto(p, from, to)
    <3>1. CASE Compat(p)
      BY <3>1 DEF Compat, Stages
    <3>2. CASE Ensure(p)
      BY <3>2 DEF Ensure, Stages
    <3>3. CASE Wipe(p) \/ SetTag(p) \/ Select(p) \/ CreateTable(p) \/ PinDim(p)
      BY <3>3 DEF Wipe, SetTag, Select, CreateTable, PinDim, Stages
    <3> QED BY <1>7, <3>1, <3>2, <3>3
  <2> QED BY <1>2, <2>1, <2>2 DEF Goto
<1>8. ASSUME NEW p \in Procs, Encode(p) PROVE AskedInv'
  <2> DEFINE slice == Slice(todo[p])
             misses == {c \in slice : vectors[c] = NoVector}
             rest == todo[p] \ slice
  <2>1. /\ stage[p] = "batch"
        /\ Return(p) \/ /\ ~(misses = {} /\ rest = {})
                        /\ stage' = [stage EXCEPT ![p] = NextStage(rest, misses)]
                        /\ UNCHANGED <<tag, asked>>
    BY <1>8 DEF Encode
  <2> HIDE DEF misses, rest
  <2>2. ~(misses = {} /\ rest = {}) => NextStage(rest, misses) \in Stages \ {"idle", "begin"}
    BY DEF NextStage, Stages
  <2> QED BY <1>1, <1>2, <2>1, <2>2
<1>9. ASSUME NEW p \in Procs, Put(p) PROVE AskedInv'
  <2> DEFINE left == batch[p] \ {Least(batch[p])}
             next == NextStage(todo[p], left)
  <2>1. /\ stage[p] = "put"
        /\ Return(p) \/ /\ next # "idle" /\ stage' = [stage EXCEPT ![p] = next]
                        /\ UNCHANGED <<tag, asked>>
    BY <1>9 DEF Put
  <2>2. next # "idle" => next \in Stages \ {"idle", "begin"}
    BY DEF NextStage, Stages
  <2> HIDE DEF next
  <2> QED BY <1>1, <1>2, <2>1, <2>2
<1>10. CASE UNCHANGED vars
  BY <1>10 DEF vars, locals, AskedInv
<1> QED
  BY <1>3, <1>4, <1>5, <1>6, <1>7, <1>8, <1>9, <1>10 DEF Next, Step

LEMMA AskedInvariant == Spec => []AskedInv
<1>1. Init => AskedInv
  BY DEF Init, AskedInv
<1> QED
  BY <1>1, TypeInvariant, AskedStep, PTL DEF Spec

\* A vector is lost to a wipe, or replaced by one of another tag; the wipe is a
\* foreground sync's, or that of a hook which asked before the tag it wipes for
\* was changed under it; and both that and the replacement take passes with
\* different tags that have overlapped (embed_index, ensure_embedding_compat).
THEOREM EmbedPassCacheIsPermanent == Spec => CacheIsPermanent
<1> DEFINE Lost(c, p) ==
             \/ /\ stage[p] = "wipe" /\ stage'[p] = "settag"
                /\ kind[p].hook => overlapped /\ asked[p] \in {NoTag, tag[p]}
                /\ vectors' = NoVectors
             \/ /\ stage[p] = "put"
                /\ overlapped
                /\ vectors' = [vectors EXCEPT ![c] = tag[p]]
           Keeps == \A c \in Chunks : vectors[c] # NoVector /\ vectors'[c] # vectors[c] =>
                      \E p \in Procs : Lost(c, p)
<1>1. TypeInv /\ SpaceInv /\ AskedInv /\ [Next]_vars => [Keeps]_vars
  <2> SUFFICES ASSUME TypeInv, SpaceInv, AskedInv, Next,
                      NEW c \in Chunks, vectors[c] # NoVector, vectors'[c] # vectors[c]
               PROVE  \E p \in Procs : Lost(c, p)
    OBVIOUS
  <2>1. PICK p \in Procs : Wipe(p) \/ Put(p)
    BY DEF Next, Step, SyncOnly, Sync, Fail, Defer, Proceed, Compat, WipeFails, SetTag, Select,
           NothingMissing, NoModel, Encode, Ensure, WrongDim, CreateTable, PinDim, PutFails, tables
  <2>2. CASE Wipe(p)
    <3>1. stage[p] = "wipe" /\ stage'[p] = "settag" /\ vectors' = NoVectors
      BY <2>2 DEF Wipe, Goto, TypeInv, TypeOK
    <3>2. ~overlapped => ~kind[p].hook
      BY <3>1 DEF SpaceInv, Coherent, Placed
    <3>3. asked[p] \in {NoTag, tag[p]}
      BY DEF AskedInv
    <3> QED
      BY <3>1, <3>2, <3>3
  <2>3. CASE Put(p)
    <3>1. stage[p] = "put" /\ vectors' = [vectors EXCEPT ![Least(batch[p])] = tag[p]]
      BY <2>3 DEF Put
    <3>2. c = Least(batch[p]) /\ vectors[c] # tag[p]
      BY <3>1 DEF TypeInv, TypeOK
    <3>3. overlapped
      <4> SUFFICES ASSUME ~overlapped PROVE FALSE
        OBVIOUS
      <4>1. Coherent /\ stage[p] \in Working
        BY <3>1 DEF SpaceInv, Working
      <4> QED
        BY <3>2, <4>1, UnderTag
    <3> QED
      BY <3>1, <3>2, <3>3
  <2> QED
    BY <2>1, <2>2, <2>3
<1> HIDE DEF Keeps
<1>2. Spec => [][Keeps]_vars
  BY <1>1, TypeInvariant, SpaceInvariant, AskedInvariant, PTL DEF Spec
<1> QED
  BY <1>2 DEF CacheIsPermanent, Keeps

-----------------------------------------------------------------------------
(* Every chunk gets its vector.  A pass that is done with its batch returns *)
(* without looking whether the tables are still those it knew; whoever has  *)
(* wiped them since looks for misses afterwards, and finds them all.        *)

\* p will look for the misses, or say that it does not.
Early(p) == stage[p] \in {"begin", "compat", "wipe", "settag", "select"}

\* p is about to insert into a table that another pass has dropped, with its
\* dimension.
Doomed(p) == stage[p] = "put" /\ kind[p].vec /\ vecTable = NoDim /\ vecDim = NoDim

\* p is on its way to c.
Bound(p, c) == ~Doomed(p) /\ c \in todo[p] \cup batch[p]

Covered ==
  ~overlapped /\ ~excused =>
    \/ \E p \in Procs : Early(p)
    \/ \A c \in Missing : \E p \in Procs : Bound(p, c)

\* Only what is left of the batch at hand is in it.
Handed ==
  \A p \in Procs : /\ stage[p] \notin {"ensure", "create", "pin", "put"} => batch[p] = {}
                   /\ stage[p] = "idle" => todo[p] = {}

WarmInv == Handed /\ Covered

LEMMA HandedStep ==
  ASSUME TypeInv, Handed, [Next]_vars
  PROVE  Handed'
<1>1. ASSUME NEW p \in Procs, Return(p) PROVE Handed'
  BY <1>1 DEF Return, Handed, TypeInv, TypeOK
<1>2. ASSUME NEW p \in Procs, NEW from, NEW to, Goto(p, from, to), UNCHANGED locals,
             from # "idle", to # "idle",
             from \in {"ensure", "create", "pin", "put"} => to \in {"ensure", "create", "pin", "put"}
      PROVE  Handed'
  BY <1>2 DEF Goto, locals, Handed, TypeInv, TypeOK
<1>3. ASSUME NEW chunks \in SUBSET Chunks, SyncOnly(chunks) PROVE Handed'
  BY <1>3 DEF SyncOnly, locals, Handed
<1>4. ASSUME NEW p \in Procs, NEW t \in Tags, NEW k \in Kinds, NEW chunks \in SUBSET Chunks,
             Sync(p, t, k, chunks)
      PROVE  Handed'
  BY <1>4 DEF Sync, Handed, TypeInv, TypeOK
<1>5. ASSUME NEW p \in Procs, Defer(p) \/ WipeFails(p) \/ NothingMissing(p) \/ NoModel(p)
                              \/ WrongDim(p) \/ PutFails(p) \/ Fail(p)
      PROVE  Handed'
  BY <1>1, <1>5 DEF Defer, WipeFails, NothingMissing, NoModel, WrongDim, PutFails, Fail
<1>6. ASSUME NEW p \in Procs, Proceed(p) \/ Compat(p) \/ Ensure(p) \/ Wipe(p) \/ SetTag(p)
                              \/ CreateTable(p) \/ PinDim(p)
      PROVE  Handed'
  <2>1. UNCHANGED locals
    BY <1>6 DEF Proceed, Compat, Ensure, Wipe, SetTag, CreateTable, PinDim
  <2>2. \/ Goto(p, "begin", "compat") \/ Goto(p, "compat", "wipe") \/ Goto(p, "compat", "settag")
        \/ Goto(p, "compat", "select") \/ Goto(p, "ensure", "create") \/ Goto(p, "ensure", "put")
        \/ Goto(p, "wipe", "settag") \/ Goto(p, "settag", "select")
        \/ Goto(p, "create", "pin") \/ Goto(p, "pin", "put")
    BY <1>6 DEF Proceed, Compat, Ensure, Wipe, SetTag, CreateTable, PinDim
  <2> QED BY <1>2, <2>1, <2>2
<1>7. ASSUME NEW p \in Procs, Select(p) PROVE Handed'
  BY <1>7 DEF Select, Goto, Handed, TypeInv, TypeOK
<1>8. ASSUME NEW p \in Procs, Encode(p) PROVE Handed'
  <2> DEFINE slice == Slice(todo[p])
             misses == {c \in slice : vectors[c] = NoVector}
             rest == todo[p] \ slice
  <2>1. IF misses = {} /\ rest = {} THEN Return(p)
        ELSE /\ stage' = [stage EXCEPT ![p] = NextStage(rest, misses)]
             /\ todo' = [todo EXCEPT ![p] = rest] /\ batch' = [batch EXCEPT ![p] = misses]
    BY <1>8 DEF Encode
  <2> HIDE DEF misses, rest
  <2>2. ~(misses = {} /\ rest = {}) => /\ NextStage(rest, misses) \in {"ensure", "batch"}
                                       /\ NextStage(rest, misses) = "batch" => misses = {}
    BY DEF NextStage
  <2> QED BY <1>1, <2>1, <2>2 DEF Handed, TypeInv, TypeOK
<1>9. ASSUME NEW p \in Procs, Put(p) PROVE Handed'
  <2> DEFINE left == batch[p] \ {Least(batch[p])}
             next == NextStage(todo[p], left)
  <2>1. IF next = "idle" THEN Return(p)
        ELSE /\ stage' = [stage EXCEPT ![p] = next]
             /\ batch' = [batch EXCEPT ![p] = left]
             /\ UNCHANGED <<tag, kind, todo>>
    BY <1>9 DEF Put
  <2>2. next \in {"ensure", "batch", "idle"} /\ (next = "batch" => left = {})
    BY DEF NextStage
  <2> HIDE DEF next, left
  <2> QED BY <1>1, <2>1, <2>2 DEF Handed, TypeInv, TypeOK
<1>10. CASE UNCHANGED vars
  BY <1>10 DEF vars, locals, Handed
<1> QED
  BY <1>3, <1>4, <1>5, <1>6, <1>7, <1>8, <1>9, <1>10 DEF Next, Step

OnTheWay ==
  \/ \E p \in Procs : Early(p)
  \/ \A c \in Missing : \E p \in Procs : Bound(p, c)

\* A step of p, past looking for misses, that leaves the others on their way.
LEMMA WayFrame ==
  ASSUME OnTheWay, NEW p \in Procs, ~Early(p),
         \A q \in Procs \ {p} : /\ stage'[q] = stage[q] /\ kind'[q] = kind[q]
                                /\ todo'[q] = todo[q] /\ batch'[q] = batch[q],
         vecTable' = NoDim => vecTable = NoDim, vecDim' = NoDim => vecDim = NoDim,
         Missing' \subseteq Missing,
         \A c \in Missing' : Bound(p, c) => Bound(p, c)'
  PROVE  OnTheWay'
<1>1. CASE \E q \in Procs : Early(q)
  <2>1. PICK q \in Procs : Early(q)
    BY <1>1
  <2>2. Early(q)'
    BY <2>1 DEF Early
  <2> QED BY <2>2 DEF OnTheWay
<1>2. CASE \A c \in Missing : \E q \in Procs : Bound(q, c)
  <2>1. ASSUME NEW c \in Missing' PROVE \E q \in Procs : Bound(q, c)'
    <3>1. PICK q \in Procs : Bound(q, c)
      BY <1>2
    <3>2. CASE q = p
      BY <3>1, <3>2
    <3>3. CASE q # p
      BY <3>1, <3>3 DEF Bound, Doomed
    <3> QED BY <3>2, <3>3
  <2> QED BY <2>1 DEF OnTheWay
<1> QED
  BY <1>1, <1>2 DEF OnTheWay

\* A pass that returns touches nobody else.
LEMMA ReturnAlone ==
  ASSUME TypeInv, NEW p \in Procs, Return(p)
  PROVE  \A q \in Procs \ {p} : /\ stage'[q] = stage[q] /\ kind'[q] = kind[q]
                                /\ todo'[q] = todo[q] /\ batch'[q] = batch[q]
  BY DEF Return, TypeInv, TypeOK


LEMMA EncodeCovers ==
  ASSUME TypeInv, Handed, OnTheWay, NEW p \in Procs, Encode(p)
  PROVE  OnTheWay'
<1> DEFINE slice == Slice(todo[p])
           misses == {c \in slice : vectors[c] = NoVector}
           rest == todo[p] \ slice
<1>1. /\ stage[p] = "batch"
      /\ IF misses = {} /\ rest = {} THEN Return(p)
         ELSE /\ stage' = [stage EXCEPT ![p] = NextStage(rest, misses)]
              /\ todo' = [todo EXCEPT ![p] = rest] /\ batch' = [batch EXCEPT ![p] = misses]
              /\ UNCHANGED <<tag, kind>>
      /\ UNCHANGED <<active, vectors, vecTable, vecDim>>
  BY DEF Encode, tables
<1>2. \A c \in Missing : vectors[c] = NoVector
  BY DEF Missing
<1>3. \A c \in todo[p] : vectors[c] = NoVector => c \in misses \/ c \in rest
  OBVIOUS
<1>4. batch[p] = {} /\ Missing' = Missing /\ ~Early(p)
  BY <1>1 DEF Handed, Early, Missing
<1> HIDE DEF misses, rest
<1>5. \A q \in Procs \ {p} : /\ stage'[q] = stage[q] /\ kind'[q] = kind[q]
                             /\ todo'[q] = todo[q] /\ batch'[q] = batch[q]
  BY <1>1, ReturnAlone DEF TypeInv, TypeOK
<1>6. ASSUME NEW c \in Missing', Bound(p, c) PROVE Bound(p, c)'
  <2>1. c \in todo[p] /\ vectors[c] = NoVector
    BY <1>2, <1>4, <1>6 DEF Bound
  <2>2. c \in misses \/ c \in rest
    BY <1>3, <2>1
  <2>3. NextStage(rest, misses) # "put"
    BY DEF NextStage
  <2> QED BY <1>1, <2>2, <2>3 DEF Bound, Doomed, TypeInv, TypeOK
<1> QED
  BY <1>1, <1>4, <1>5, <1>6, WayFrame

LEMMA PutCovers ==
  ASSUME TypeInv, Handed, OnTheWay, NEW p \in Procs, Put(p)
  PROVE  OnTheWay'
<1> DEFINE d == Least(batch[p])
           left == batch[p] \ {d}
           next == NextStage(todo[p], left)
<1>1. /\ stage[p] = "put"
      /\ vectors' = [vectors EXCEPT ![d] = tag[p]]
      /\ IF next = "idle" THEN Return(p)
         ELSE /\ stage' = [stage EXCEPT ![p] = next]
              /\ batch' = [batch EXCEPT ![p] = left]
              /\ UNCHANGED <<tag, kind, todo>>
      /\ UNCHANGED <<active, vecTable, vecDim>>
  BY DEF Put
<1>2. d \in Chunks /\ tag[p] \in Tags
  <2>1. batch[p] # {} /\ batch[p] \subseteq Chunks
    BY <1>1 DEF TypeInv, TypeOK, Busy
  <2> QED
    BY <1>1, <2>1, LeastIn DEF TypeInv, TypeOK
<1>3. next # "put" /\ (next = "idle" => left = {} /\ todo[p] = {})
  BY DEF NextStage
<1>4. \A c \in batch[p] : c = d \/ c \in left
  OBVIOUS
<1> HIDE DEF d, left, next
<1>5. Missing' \subseteq Missing /\ d \notin Missing'
  BY <1>1, <1>2, EmbedPassAssumption DEF Missing, TypeInv, TypeOK
<1>6. \A q \in Procs \ {p} : /\ stage'[q] = stage[q] /\ kind'[q] = kind[q]
                             /\ todo'[q] = todo[q] /\ batch'[q] = batch[q]
  BY <1>1, ReturnAlone DEF TypeInv, TypeOK
<1>7. ASSUME NEW c \in Missing', Bound(p, c) PROVE Bound(p, c)'
  <2>1. c \in todo[p] \/ c \in left
    BY <1>4, <1>5, <1>7 DEF Bound
  <2>2. next # "idle"
    BY <1>3, <2>1
  <2> QED BY <1>1, <1>3, <2>1, <2>2 DEF Bound, Doomed, TypeInv, TypeOK
<1>8. ~Early(p)
  BY <1>1 DEF Early
<1> QED
  BY <1>1, <1>5, <1>6, <1>7, <1>8, WayFrame

LEMMA CoveredStep ==
  ASSUME TypeInv, SpaceInv, WarmInv, [Next]_vars
  PROVE  Covered'
<1> SUFFICES ASSUME ~overlapped', ~excused' PROVE OnTheWay'
  BY DEF Covered, OnTheWay
<1>1. ~overlapped /\ Coherent /\ Handed
  BY OverlapStep DEF SpaceInv, WarmInv
<1>2. ~excused => OnTheWay
  BY <1>1 DEF WarmInv, Covered, OnTheWay
<1>3. ASSUME NEW chunks \in SUBSET Chunks, SyncOnly(chunks) PROVE FALSE
  BY <1>3 DEF SyncOnly
<1>4. ASSUME NEW p \in Procs, NEW t \in Tags, NEW k \in Kinds, NEW chunks \in SUBSET Chunks,
             Sync(p, t, k, chunks)
      PROVE  OnTheWay'
  <2>1. Early(p)'
    BY <1>4 DEF Sync, Early, TypeInv, TypeOK
  <2> QED BY <2>1 DEF OnTheWay
<1>5. ASSUME NEW p \in Procs, Defer(p) \/ WipeFails(p) \/ NoModel(p) \/ Fail(p) PROVE FALSE
  BY <1>5 DEF Defer, WipeFails, NoModel, Fail
<1>6. ASSUME NEW p \in Procs, Proceed(p) \/ Compat(p) \/ Wipe(p) \/ SetTag(p) PROVE OnTheWay'
  <2>1. \/ Goto(p, "begin", "compat") \/ Goto(p, "compat", "wipe") \/ Goto(p, "compat", "settag")
        \/ Goto(p, "compat", "select") \/ Goto(p, "wipe", "settag") \/ Goto(p, "settag", "select")
    BY <1>6 DEF Proceed, Compat, Wipe, SetTag
  <2>2. Early(p)'
    BY <2>1 DEF Goto, Early, TypeInv, TypeOK
  <2> QED BY <2>2 DEF OnTheWay
<1>7. ASSUME NEW p \in Procs, Select(p) PROVE OnTheWay'
  <2>1. stage'[p] = "batch" /\ todo'[p] = Missing /\ UNCHANGED <<active, vectors>>
    BY <1>7 DEF Select, Goto, tables, TypeInv, TypeOK
  <2>2. Missing' = Missing
    BY <2>1 DEF Missing
  <2>3. \A c \in Missing' : Bound(p, c)'
    BY <2>1, <2>2 DEF Bound, Doomed
  <2> QED BY <2>3 DEF OnTheWay
<1>8. ASSUME NEW p \in Procs, NothingMissing(p) PROVE OnTheWay'
  BY <1>8 DEF NothingMissing, tables, Missing, OnTheWay
<1>9. ASSUME NEW p \in Procs, Encode(p) PROVE OnTheWay'
  BY <1>1, <1>2, <1>9, EncodeCovers DEF Encode
<1>10. ASSUME NEW p \in Procs, Put(p) PROVE OnTheWay'
  BY <1>1, <1>2, <1>10, PutCovers DEF Put
<1>11. ASSUME NEW p \in Procs, WrongDim(p) PROVE FALSE
  <2>1. stage[p] \in Working /\ vecDim \notin {NoDim, DimOf(p)}
    BY <1>11 DEF WrongDim, Working
  <2> QED BY <1>1, <2>1, UnderTag DEF Coherent, OneTag
<1>12. ASSUME NEW p \in Procs, Ensure(p) PROVE OnTheWay'
  <2>1. /\ stage[p] = "ensure" /\ ~excused
        /\ UNCHANGED <<kind, todo, batch, active, vectors, vecTable, vecDim>>
        /\ stage' = [stage EXCEPT ![p] = IF kind[p].vec /\ vecDim = NoDim THEN "create" ELSE "put"]
    BY <1>12 DEF Ensure, Goto, locals, tables
  <2>2. ~Doomed(p)' /\ ~Early(p) /\ Missing' = Missing
    BY <2>1 DEF Doomed, Early, Missing, TypeInv, TypeOK
  <2>3. \A c \in Missing' : Bound(p, c) => Bound(p, c)'
    BY <2>1, <2>2 DEF Bound
  <2>4. \A q \in Procs \ {p} : stage'[q] = stage[q]
    BY <2>1 DEF TypeInv, TypeOK
  <2> QED BY <1>2, <2>1, <2>2, <2>3, <2>4, WayFrame
<1>13. ASSUME NEW p \in Procs, CreateTable(p) \/ PinDim(p) PROVE OnTheWay'
  <2>1. /\ ~excused /\ UNCHANGED <<kind, todo, batch, active, vectors>>
        /\ Goto(p, "create", "pin") \/ Goto(p, "pin", "put")
    BY <1>13 DEF CreateTable, PinDim, locals
  <2>2. DimOf(p) # NoDim
    BY <2>1, DimTypes, EmbedPassAssumption DEF Goto, TypeInv
  <2>3. vecTable' = NoDim => vecTable = NoDim
    BY <1>13, <2>2 DEF CreateTable, PinDim
  <2>4. vecDim' = NoDim => vecDim = NoDim /\ ~PinDim(p)
    BY <1>13, <2>2 DEF CreateTable, PinDim
  <2>5. ~Doomed(p)' /\ ~Early(p) /\ Missing' = Missing
    BY <1>13, <2>1, <2>4 DEF CreateTable, Goto, Doomed, Early, Missing, TypeInv, TypeOK
  <2>6. \A c \in Missing' : Bound(p, c) => Bound(p, c)'
    BY <2>1, <2>5 DEF Bound
  <2>7. \A q \in Procs \ {p} : stage'[q] = stage[q]
    BY <2>1 DEF Goto, TypeInv, TypeOK
  <2> QED BY <1>2, <2>1, <2>3, <2>4, <2>5, <2>6, <2>7, WayFrame
<1>14. ASSUME NEW p \in Procs, PutFails(p) PROVE OnTheWay'
  <2>1. /\ stage[p] = "put" /\ ~CanInsert(p) /\ Return(p)
        /\ ~excused /\ ~Unhoused /\ UNCHANGED <<active, vectors, vecTable, vecDim>>
    BY <1>14 DEF PutFails, tables
  <2>2. Doomed(p)
    <3>1. vecTable \in {NoDim, DimOf(p)}
      BY <1>1, <2>1, UnderTag DEF Working
    <3> QED BY <2>1, <3>1 DEF CanInsert, Doomed, Unhoused
  <2>3. ~Early(p) /\ Missing' = Missing
    BY <2>1 DEF Early, Missing
  <2> QED BY <1>2, <2>1, <2>2, <2>3, ReturnAlone, WayFrame DEF Bound
<1>15. CASE UNCHANGED vars
  <2>1. ~excused /\ UNCHANGED <<stage, kind, todo, batch, active, vectors, vecTable, vecDim>>
    BY <1>15 DEF vars, locals, tables
  <2> QED BY <1>2, <2>1 DEF OnTheWay, Early, Missing, Bound, Doomed
<1> QED
  BY <1>3, <1>4, <1>5, <1>6, <1>7, <1>8, <1>9, <1>10, <1>11, <1>12, <1>13, <1>14, <1>15 DEF Next, Step

\* When no pass runs, each active chunk has its vector, unless a pass was given up
\* since one last looked (a dimension pinned without its table included) or passes
\* with different tags have overlapped: for any number of processes that wipe,
\* drop and skip under each other.
THEOREM EmbedPassQuiescentWarm == Spec => []QuiescentWarm
<1>1. Init => WarmInv
  <2> SUFFICES ASSUME Init PROVE WarmInv
    OBVIOUS
  <2>1. Missing = {} /\ \A p \in Procs : todo[p] = {} /\ batch[p] = {}
    BY DEF Init, Missing
  <2> QED BY <2>1 DEF WarmInv, Handed, Covered
<1>2. TypeInv /\ SpaceInv /\ WarmInv /\ [Next]_vars => WarmInv'
  BY HandedStep, CoveredStep DEF WarmInv
<1>3. TypeInv /\ WarmInv => QuiescentWarm
  <2> SUFFICES ASSUME TypeInv, WarmInv, Quiet, ~excused, ~overlapped PROVE Missing = {}
    BY DEF QuiescentWarm
  <2>1. \A p \in Procs : stage[p] = "idle" /\ todo[p] = {} /\ batch[p] = {}
    BY DEF Quiet, WarmInv, Handed
  <2>2. \A p \in Procs : ~Early(p) /\ \A c \in Missing : ~Bound(p, c)
    BY <2>1 DEF Early, Bound
  <2> QED BY <2>2 DEF WarmInv, Covered
<1> QED
  BY <1>1, <1>2, <1>3, TypeInvariant, SpaceInvariant, PTL DEF Spec
=============================================================================
