----------------------------- MODULE EmbedPass ------------------------------
(***************************************************************************)
(* The embedding pass that follows a sync (retrieve/warm.py embed_index,   *)
(* embed/engine.py embed_chunks, the embedding tables of                   *)
(* store/sqlite_store.py).  It runs after the sync has released its lock,  *)
(* so the passes of several processes interleave, transaction by           *)
(* transaction.  They may differ in the tag (model and text version) they  *)
(* embed under, when one runs an upgraded or reconfigured sherpa, and in   *)
(* whether the sqlite-vec extension loads.                                 *)
(*                                                                         *)
(* A vector is represented by the tag it was computed under.  What a sync  *)
(* does to the active chunks is one step here; module IndexSync has the    *)
(* detail.                                                                 *)
(***************************************************************************)
EXTENDS Naturals, FiniteSets

CONSTANTS
  Procs,
  Chunks,           \* numbered in the order of active_chunks()
  Tags, NoTag,      \* embedding_tag(); no embed_tag in meta
  Model, Dim,       \* Model[t]: the model of a tag; Dim[m]: its dimension
  NoVector, NoDim,
  BatchSize,        \* embed_batch_size
  Kinds,            \* the [hook, vec] a process may run with
  MaxPasses,        \* bound on the passes started
  MaxFailures       \* bound on crashes and failed syncs

Models == {Model[t] : t \in Tags}
Dims == {Dim[m] : m \in Models}

ASSUME EmbedPassAssumption ==
  /\ Chunks \subseteq Nat
  /\ NoTag \notin Tags /\ NoVector \notin Tags
  /\ NoDim \notin Dims
  /\ BatchSize \in Nat \ {0}
  /\ Kinds \subseteq [hook : BOOLEAN, vec : BOOLEAN]
  /\ MaxPasses \in Nat /\ MaxFailures \in Nat

VARIABLES
  active,       \* the chunks of the active blobs
  embedTag,     \* meta['embed_tag']
  vectors,      \* the embeddings table
  vecRows,      \* the vec_chunks table
  vecTable,     \* the dimension vec_chunks was created with, or NoDim
  vecDim,       \* meta['vec_dim']
  cached,       \* the models in the download cache
  stage,        \* stage[p]: the next step of p's pass
  tag,          \* tag[p]: the tag p embeds under
  kind,         \* kind[p].hook: a quiet sync; kind[p].vec: sqlite-vec loads
  todo,         \* todo[p]: misses not yet handed to embed_chunks()
  batch,        \* batch[p]: misses of the batch at hand
  passes,       \* passes started so far
  failures,     \* crashes and failed syncs so far
  asked,        \* history: asked[p]: the index's tag when hook p asked
  excused,      \* history: a pass was given up since one last looked
  overlapped,   \* history: two passes with different tags ran at once
  plain         \* history: chunks embedded without sqlite-vec

tables == <<embedTag, vectors, vecRows, vecTable, vecDim>>
locals == <<tag, kind, todo, batch>>
counts == <<passes, failures>>
vars == <<active, tables, cached, stage, locals, counts, asked, excused, overlapped, plain>>

-----------------------------------------------------------------------------

Stages == {"idle", "begin", "compat", "wipe", "settag", "select", "batch",
           "ensure", "create", "pin", "put"}

NoVectors == [c \in Chunks |-> NoVector]
Least(S) == CHOOSE x \in S : \A y \in S : x <= y

Missing == {c \in active : vectors[c] = NoVector}

\* The next slice of the misses.
Slice(S) == {c \in S : Cardinality({d \in S : d <= c}) <= BatchSize}

DimOf(p) == Dim[Model[tag[p]]]

TypeOK ==
  /\ active \subseteq Chunks
  /\ embedTag \in Tags \cup {NoTag}
  /\ vectors \in [Chunks -> Tags \cup {NoVector}]
  /\ vecRows \in [Chunks -> Tags \cup {NoVector}]
  /\ vecTable \in Dims \cup {NoDim}
  /\ vecDim \in Dims \cup {NoDim}
  /\ cached \subseteq Models
  /\ stage \in [Procs -> Stages]
  /\ tag \in [Procs -> Tags \cup {NoTag}]
  /\ kind \in [Procs -> [hook : BOOLEAN, vec : BOOLEAN]]
  /\ todo \in [Procs -> SUBSET Chunks]
  /\ batch \in [Procs -> SUBSET Chunks]
  /\ passes \in 0..MaxPasses
  /\ failures \in 0..MaxFailures
  /\ asked \in [Procs -> Tags \cup {NoTag}]
  /\ excused \in BOOLEAN
  /\ overlapped \in BOOLEAN
  /\ plain \subseteq Chunks
  /\ \A p \in Procs : stage[p] # "idle" => tag[p] \in Tags

NoKind == [hook |-> FALSE, vec |-> FALSE]

Init ==
  /\ active = {}
  /\ embedTag = NoTag
  /\ vectors = NoVectors
  /\ vecRows = NoVectors
  /\ vecTable = NoDim
  /\ vecDim = NoDim
  /\ cached = {}
  /\ stage = [p \in Procs |-> "idle"]
  /\ tag = [p \in Procs |-> NoTag]
  /\ kind = [p \in Procs |-> NoKind]
  /\ todo = [p \in Procs |-> {}]
  /\ batch = [p \in Procs |-> {}]
  /\ passes = 0
  /\ failures = 0
  /\ asked = [p \in Procs |-> NoTag]
  /\ excused = FALSE
  /\ overlapped = FALSE
  /\ plain = {}

-----------------------------------------------------------------------------
(* The syncs *)

\* A sync sets the active chunks; the pass of its process is next.  Only hooks
\* ask whether to defer (embed_index, defer_invalidation).
Sync(p, t, k, chunks) ==
  /\ stage[p] = "idle"
  /\ passes < MaxPasses
  /\ passes' = passes + 1
  /\ active' = chunks
  /\ tag' = [tag EXCEPT ![p] = t]
  /\ kind' = [kind EXCEPT ![p] = k]
  /\ stage' = [stage EXCEPT ![p] = IF k.hook THEN "begin" ELSE "compat"]
  /\ overlapped' = (overlapped \/ \E q \in Procs : stage[q] # "idle" /\ tag[q] # t)
  /\ UNCHANGED <<tables, cached, todo, batch, failures, asked, excused, plain>>

\* A sync that fails half way, or --no-embed: no pass follows.
SyncOnly(chunks) ==
  /\ failures < MaxFailures
  /\ failures' = failures + 1
  /\ active' = chunks
  /\ excused' = TRUE
  /\ UNCHANGED <<tables, cached, stage, locals, passes, asked, overlapped, plain>>

-----------------------------------------------------------------------------
(* embed_index() *)

Goto(p, from, to) ==
  /\ stage[p] = from
  /\ stage' = [stage EXCEPT ![p] = to]

\* The pass ends, one way or another.
Return(p) ==
  /\ stage' = [stage EXCEPT ![p] = "idle"]
  /\ tag' = [tag EXCEPT ![p] = NoTag]
  /\ kind' = [kind EXCEPT ![p] = NoKind]
  /\ todo' = [todo EXCEPT ![p] = {}]
  /\ batch' = [batch EXCEPT ![p] = {}]
  /\ asked' = [asked EXCEPT ![p] = NoTag]

\* invalidation_pending(): the index is under another tag.
Pending(p) == embedTag # NoTag /\ embedTag # tag[p]

\* A hook never absorbs a full re-embed.
Defer(p) ==
  /\ stage[p] = "begin"
  /\ Pending(p)
  /\ Return(p)
  /\ excused' = TRUE
  /\ UNCHANGED <<active, tables, cached, counts, overlapped, plain>>

\* Mutant: the hook does not ask.
ProceedAlways(p) ==
  /\ Goto(p, "begin", "compat")
  /\ asked' = [asked EXCEPT ![p] = embedTag]
  /\ UNCHANGED <<active, tables, cached, locals, counts, excused, overlapped, plain>>

\* The tag is p's own, or there is none.
Proceed(p) ==
  /\ Goto(p, "begin", "compat")
  /\ ~Pending(p)
  /\ asked' = [asked EXCEPT ![p] = embedTag]
  /\ UNCHANGED <<active, tables, cached, locals, counts, excused, overlapped, plain>>

\* ensure_embedding_compat(): a changed tag means a wipe, a missing one means
\* there is nothing to wipe.
Compat(p) ==
  /\ Goto(p, "compat", IF Pending(p) THEN "wipe"
                       ELSE IF embedTag = NoTag THEN "settag" ELSE "select")
  /\ UNCHANGED <<active, tables, cached, locals, counts, asked, excused, overlapped, plain>>

\* DROP TABLE needs the extension once the table exists.
CanDrop(p) == kind[p].vec \/ vecTable = NoDim

\* Mutant: the wipe is left to the overwriting puts.
WipeNothing(p) ==
  /\ Goto(p, "wipe", "settag")
  /\ CanDrop(p)
  /\ UNCHANGED <<active, tables, cached, locals, counts, asked, excused, overlapped, plain>>

\* One transaction: both tables and vec_dim.
Wipe(p) ==
  /\ Goto(p, "wipe", "settag")
  /\ CanDrop(p)
  /\ vectors' = NoVectors
  /\ vecRows' = NoVectors
  /\ vecTable' = NoDim
  /\ vecDim' = NoDim
  /\ plain' = {}
  /\ UNCHANGED <<active, embedTag, cached, locals, counts, asked, excused, overlapped>>

\* "no such module: vec0": rolled back, the pass ends.
WipeFails(p) ==
  /\ stage[p] = "wipe"
  /\ ~CanDrop(p)
  /\ Return(p)
  /\ excused' = TRUE
  /\ UNCHANGED <<active, tables, cached, counts, overlapped, plain>>

\* Mutant: the model's name alone.
SetTagModel(p) ==
  /\ Goto(p, "settag", "select")
  /\ embedTag' = Model[tag[p]]
  /\ UNCHANGED <<active, vectors, vecRows, vecTable, vecDim, cached, locals,
                 counts, asked, excused, overlapped, plain>>

\* set_meta("embed_tag", tag), in a transaction of its own.
SetTag(p) ==
  /\ Goto(p, "settag", "select")
  /\ embedTag' = tag[p]
  /\ UNCHANGED <<active, vectors, vecRows, vecTable, vecDim, cached, locals,
                 counts, asked, excused, overlapped, plain>>

\* has_local_encoder(), asked by hooks only.
MayLoad(p) == kind[p].hook => Model[tag[p]] \in cached

\* The misses, of the chunks active now.
Select(p) ==
  /\ Goto(p, "select", "batch")
  /\ Missing # {}
  /\ MayLoad(p)
  /\ todo' = [todo EXCEPT ![p] = Missing]
  /\ excused' = FALSE
  /\ UNCHANGED <<active, tables, cached, tag, kind, batch, counts, asked, overlapped, plain>>

NothingMissing(p) ==
  /\ stage[p] = "select"
  /\ Missing = {}
  /\ Return(p)
  /\ excused' = FALSE
  /\ UNCHANGED <<active, tables, cached, counts, overlapped, plain>>

\* A hook never downloads a model.
NoModel(p) ==
  /\ stage[p] = "select"
  /\ Missing # {}
  /\ ~MayLoad(p)
  /\ Return(p)
  /\ excused' = TRUE
  /\ UNCHANGED <<active, tables, cached, counts, overlapped, plain>>

-----------------------------------------------------------------------------
(* embed_chunks() *)

\* Mutant: a batch without misses ends the pass.
NextStageEarly(rest, misses) == IF misses # {} THEN "ensure" ELSE "idle"

\* What comes next: the misses of the slice at hand, the slices left, or nothing.
NextStage(rest, misses) ==
  IF misses # {} THEN "ensure" ELSE IF rest # {} THEN "batch" ELSE "idle"

\* The cache is asked again for each chunk of the slice; the encoder is loaded,
\* and with it the model downloaded, if there is a miss.
Encode(p) ==
  LET slice  == Slice(todo[p])
      misses == {c \in slice : vectors[c] = NoVector}
      rest   == todo[p] \ slice
  IN  /\ stage[p] = "batch"
      /\ IF misses = {} /\ rest = {}
           THEN Return(p)
           ELSE /\ stage' = [stage EXCEPT ![p] = NextStage(rest, misses)]
                /\ todo' = [todo EXCEPT ![p] = rest]
                /\ batch' = [batch EXCEPT ![p] = misses]
                /\ UNCHANGED <<tag, kind, asked>>
      /\ cached' = IF misses = {} THEN cached ELSE cached \cup {Model[tag[p]]}
      /\ UNCHANGED <<active, tables, counts, excused, overlapped, plain>>

\* _ensure_vec_table(): what meta says of the dimension.
Ensure(p) ==
  /\ Goto(p, "ensure", IF kind[p].vec /\ vecDim = NoDim THEN "create" ELSE "put")
  /\ kind[p].vec => vecDim \in {NoDim, DimOf(p)}
  /\ UNCHANGED <<active, tables, cached, locals, counts, asked, excused, overlapped, plain>>

\* "embedding dim != index dim": ValueError, the pass ends.
WrongDim(p) ==
  /\ stage[p] = "ensure"
  /\ kind[p].vec
  /\ vecDim \notin {NoDim, DimOf(p)}
  /\ Return(p)
  /\ UNCHANGED <<active, tables, cached, counts, excused, overlapped, plain>>

\* CREATE VIRTUAL TABLE IF NOT EXISTS: sqlite3 opens no transaction for DDL,
\* so that this statement commits by itself.
CreateTable(p) ==
  /\ Goto(p, "create", "pin")
  /\ vecTable' = IF vecTable = NoDim THEN DimOf(p) ELSE vecTable
  /\ UNCHANGED <<active, embedTag, vectors, vecRows, vecDim, cached, locals, counts,
                 asked, excused, overlapped, plain>>

\* INSERT OR REPLACE of vec_dim: the transaction that follows.
PinDim(p) ==
  /\ Goto(p, "pin", "put")
  /\ vecDim' = DimOf(p)
  /\ UNCHANGED <<active, embedTag, vectors, vecRows, vecTable, cached, locals, counts,
                 asked, excused, overlapped, plain>>

\* Inserting needs the table, of the right dimension.
CanInsert(p) == kind[p].vec => vecTable = DimOf(p)

\* Mutant: the vec0 row is left to a later pass.
PutVectorOnly(p) ==
  LET c    == Least(batch[p])
      left == batch[p] \ {c}
  IN  /\ stage[p] = "put"
      /\ CanInsert(p)
      /\ vectors' = [vectors EXCEPT ![c] = tag[p]]
      /\ plain' = IF kind[p].vec THEN plain \ {c} ELSE plain \cup {c}
      /\ IF NextStage(todo[p], left) = "idle"
           THEN Return(p)
           ELSE /\ stage' = [stage EXCEPT ![p] = NextStage(todo[p], left)]
                /\ batch' = [batch EXCEPT ![p] = left]
                /\ UNCHANGED <<tag, kind, todo, asked>>
      /\ UNCHANGED <<active, embedTag, vecRows, vecTable, vecDim, cached, counts,
                     excused, overlapped>>

\* put_embedding(): one transaction for both tables.
Put(p) ==
  LET c    == Least(batch[p])
      left == batch[p] \ {c}
  IN  /\ stage[p] = "put"
      /\ CanInsert(p)
      /\ vectors' = [vectors EXCEPT ![c] = tag[p]]
      /\ vecRows' = IF kind[p].vec THEN [vecRows EXCEPT ![c] = tag[p]] ELSE vecRows
      /\ plain' = IF kind[p].vec THEN plain \ {c} ELSE plain \cup {c}
      /\ IF NextStage(todo[p], left) = "idle"
           THEN Return(p)
           ELSE /\ stage' = [stage EXCEPT ![p] = NextStage(todo[p], left)]
                /\ batch' = [batch EXCEPT ![p] = left]
                /\ UNCHANGED <<tag, kind, todo, asked>>
      /\ UNCHANGED <<active, embedTag, vecTable, vecDim, cached, counts,
                     excused, overlapped>>

\* The dimension is pinned and the table is not there: every pass takes it to
\* exist, and fails.
Unhoused == vecDim # NoDim /\ vecTable = NoDim

\* Another pass has wiped the table since: rolled back, the pass ends.
PutFails(p) ==
  /\ stage[p] = "put"
  /\ ~CanInsert(p)
  /\ Return(p)
  /\ excused' = (excused \/ Unhoused)
  /\ UNCHANGED <<active, tables, cached, counts, overlapped, plain>>

-----------------------------------------------------------------------------

\* The process is killed, the database stays busy, a download fails.
Fail(p) ==
  /\ stage[p] # "idle"
  /\ failures < MaxFailures
  /\ failures' = failures + 1
  /\ Return(p)
  /\ excused' = TRUE
  /\ UNCHANGED <<active, tables, cached, passes, overlapped, plain>>

Step(p) ==
  \/ Defer(p) \/ Proceed(p) \/ Compat(p) \/ Wipe(p) \/ WipeFails(p) \/ SetTag(p)
  \/ Select(p) \/ NothingMissing(p) \/ NoModel(p) \/ Encode(p) \/ Ensure(p)
  \/ WrongDim(p) \/ CreateTable(p) \/ PinDim(p) \/ Put(p) \/ PutFails(p)

Next ==
  \/ \E chunks \in SUBSET Chunks : SyncOnly(chunks)
  \/ \E p \in Procs :
       \/ \E t \in Tags, k \in Kinds, chunks \in SUBSET Chunks : Sync(p, t, k, chunks)
       \/ Step(p) \/ Fail(p)

Spec == Init /\ [][Next]_vars

-----------------------------------------------------------------------------
(* Properties *)

Quiet == \A p \in Procs : stage[p] = "idle"

\* "One index never mixes vector spaces" (warm.py), as far as the code keeps
\* it: as long as no two passes with different tags have overlapped, every
\* stored vector was computed under the tag the index carries, also when a
\* crash falls between the wipe and the new tag.
OneSpace ==
  ~overlapped => \A c \in Chunks : vectors[c] \in {NoVector, embedTag}

\* The KNN table holds what the embeddings table does (DECISIONS D8): a row is
\* in both or, when sqlite-vec was not there to write it, only in the latter;
\* rows are in a table that exists; and, passes with different tags apart, the
\* table and the dimension pinned in meta, when both are there, agree.  (Either
\* may be missing: a crash, or another pass's wipe, can fall between the two.)
VecTableFaithful ==
  /\ \A c \in Chunks \ plain : vecRows[c] = vectors[c]
  /\ vecRows # NoVectors => vecTable # NoDim
  /\ ~overlapped /\ NoDim \notin {vecTable, vecDim} => vecTable = vecDim

\* Semantic search is complete when nothing runs: unless a pass was given up
\* since one last looked (a failure, a hook that defers or has no model, a
\* dimension pinned without its table), each active chunk has its vector.
\* Several passes may have wiped the tables and dropped them under each other,
\* and skipped each other's chunks.
QuiescentWarm == Quiet /\ ~excused /\ ~overlapped => Missing = {}

\* The cache is permanent, and hooks do not absorb a full re-embed: a vector is
\* lost to a wipe, which is the doing of a foreground sync, or of a hook that
\* asked when no other tag was on the index (another pass has put it there
\* since), or it is replaced by one of another tag.  (A wipe may cost vectors
\* of the very tag it makes room for: of two passes that both saw the old tag
\* the second wipes what the first has embedded.)
CacheIsPermanent ==
  [][ \A c \in Chunks : vectors[c] # NoVector /\ vectors'[c] # vectors[c] =>
        \E p \in Procs :
          \/ /\ stage[p] = "wipe" /\ stage'[p] = "settag"
             /\ kind[p].hook => overlapped /\ asked[p] \in {NoTag, tag[p]}
             /\ vectors' = NoVectors
          \/ /\ stage[p] = "put"
             /\ overlapped
             /\ vectors' = [vectors EXCEPT ![c] = tag[p]] ]_vars

-----------------------------------------------------------------------------
(* What the documentation says and the code does not keep *)

\* warm.py: "Hook-triggered quiet syncs must never absorb that silently": a
\* hook never comes to wipe vectors.  It asks first and looks again later, and
\* another pass may change the tag in between.
HooksNeverAbsorb ==
  \A p \in Procs : kind[p].hook /\ stage[p] = "wipe" => vectors = NoVectors

\* DECISIONS D8: the table is created "and the dim pinned"; warm.py: a wipe
\* clears both.  A wipe between the two leaves the pin without the table, for
\* good, and every later put_embedding() fails.
PinnedHasTable == Quiet /\ ~overlapped => ~Unhoused

\* DECISIONS D8: the brute-force scan over the embeddings table gives
\* "identical results".  Vectors written without the extension are in that
\* table only, and nothing brings them into vec_chunks later.
KnnSeesAll == vecDim # NoDim => vecRows = vectors

\* warm.py: stale vectors are wiped "when the tag changes [...] so one index
\* never mixes vector spaces".
NeverMixes ==
  \A c, d \in Chunks : vectors[c] # NoVector /\ vectors[d] # NoVector
                         => vectors[c] = vectors[d]

=============================================================================
