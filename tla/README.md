# codesherpa in TLA+

codesherpa keeps a structural index of a git repository in one SQLite file,
`.sherpa/index.db`. Four git hooks (post-commit, post-checkout, post-merge,
post-rewrite) run `sherpa sync`; commands that move HEAD without any of them, such
as `git reset --hard`, leave the index as it is. The sync chunks the blobs it has not seen, marks the blobs of HEAD's tree
active, replaces the file map and the symbol graph, and then embeds the chunks
that lack a vector. MCP servers, one long-lived process per client, answer
queries from the same file. The claim the product stands on is that this
incremental index is *identical to a from-scratch rebuild*.

Everything in it that is hard to test comes from several processes sharing
files: hooks, manual syncs, embedding passes and servers interleave at the
granularity of SQLite transactions and file system calls, and any of them may
be killed. That is what most of these modules are about; the rest are the
algorithms whose results everything else is judged by: chunking, symbol
extraction and resolution, ranking and packing.

    tlc -workers 2 -config IndexSync.cfg MCIndexSync.tla      # a run
    tlapm IndexSyncProofs.tla                                  # a proof

## 1. Inventory

| component | state | operations | interacts through |
|---|---|---|---|
| lockfile (`gitlayer/lock.py`) | `index.db.lock`, its mtime | acquire, break if stale, release | file system |
| sync (`gitlayer/sync.py`, `repo.py`, `ignore.py`) | locals of one run | read HEAD, lock, diff tree against blobs, add, (de)activate, map, graph, meta | the lockfile, git, the store |
| store (`store/sqlite_store.py`, `schema.sql`) | tables `blobs`, `chunks`, `chunks_fts`, `files`, `symbols`, `edges`, `graph_facts`, `embeddings`, `vec_chunks`, `meta`, `usage` | one transaction per method | SQLite's WAL and its write lock |
| graph (`graph/index.py`) | `symbols`, `edges`, the facts cache and its tag | look up or extract the facts of each file, replace the tables | called by sync, under the lock |
| extraction (`graph/extract.py`, `graph/languages.py`) | none | captures to facts; facts of all files to symbols and edges | called by graph |
| embedding pass (`retrieve/warm.py`, `embed/engine.py`) | `embeddings`, `vec_chunks`, `embed_tag`, `vec_dim`, the model cache | wipe on a changed tag, embed what is missing | the store, **outside** the lock |
| server (`mcp_server/server.py`, `gain.py`) | one connection, `usage` | tools that read, record_call | the store |
| chunker (`chunker/*`) | none | blob to chunks | called by sync |
| retrieval (`retrieve/*`) | the blend weight, fixed at start | route, three channels, fuse, rerank, expand along edges, pack to a budget; definitions, callers, references, expand | reads the store, statement by statement |
| recent changes, views, bench, CLI | none | git subprocesses, formatting | |

What makes each of them correct, and what is hard about it:

* **lockfile**: no two syncs at once; a waiter never waits forever; a dead
  holder does not block the others for good. Hard: between the stat and the
  unlink of a stale lock everything may change, and release unlinks by name.
* **sync**: the state it leaves is the rebuilt one whatever it found; the last
  HEAD wins although HEAD moves while syncs queue; readers never lose a blob
  that both trees have; nothing ever indexed is forgotten. Hard: some ten
  transactions, a crash between any two of them, two reads of HEAD, and moves of
  HEAD that no hook reports.
* **embedding pass**: vectors of one space only; both tables agree; nothing is
  left out, and a vector once computed stays until a foreground sync wipes for
  another tag. Hard: passes interleave without a lock, under different tags, with
  and without sqlite-vec; a hook asks before it wipes, but the answer may be old.
* **server**: an answer is at least as recent as the question; every call is
  answered. Hard: the connection's implicit transactions.
* **chunker**: chunks rejoin to the file, fit the embedder, never mix parsed and
  unparsed code, and keep whole what fits. Hard: three routes through a file, one
  of which starts over, and an off-by-one at each end of each loop.
* **graph**: the tables are those of an extraction from nothing, whatever was
  cached by whichever version of the program, and no file is parsed twice. Hard:
  the cache, its tag and the tables change in different transactions.
* **extraction**: names resolve where the language says and never across language
  families. Hard: five orders of precedence, each with its own tie-break, over
  all files at once.
* **retrieval**: every result is of a file that was indexed, along an edge that
  was there; no channel silences another; the answer fits its budget and wastes
  none of it. Hard: dozens of statements on as many snapshots, over-fetching,
  windows that are filled exactly.

`PROJECT.json` lists the hazards at their lines and the properties on watch.

## 2. Modules

| module | models | specification |
|---|---|---|
| `FileLock` | `lock.py`; an action per file system call, time in ticks | processes, crashes, time |
| `FileLockProofs` | | theorems about `FileLock` |
| `PublishedIndex` | what a sync promises, without how | HEAD, the published index, the pinned commit |
| `IndexSync` | `sync.py` and the store methods it calls; an action per transaction | refines `PublishedIndex` |
| `IndexSyncProofs` | | theorems about `IndexSync` |
| `IndexSyncRefinement` | | `IndexSync` implements `PublishedIndex` |
| `EmbedPass` | `warm.py`, `engine.py`, the embedding tables | processes under different tags |
| `EmbedPassProofs` | | theorems about `EmbedPass` |
| `ServerSession` | a server's connection, calls and recordings | servers against syncs |
| `ServerSessionProofs` | | theorems about `ServerSession` |
| `Chunker` | `cast.py`, `fallback.py`, `dispatch.py`; an action per piece | a blob and its tree |
| `ChunkerProofs` | | theorems about `Chunker` |
| `Extraction` | pass 1 of `extract.py`, the import resolvers of `languages.py` | operators |
| `Resolution` | pass 2 of `extract.py` | operators over a project |
| `GraphIndex` | `index.py`: `sync_graph` and its cache; extends `Resolution` | syncs of two versions of the program, dying anywhere |
| `GraphIndexProofs` | | theorems about `GraphIndex` |
| `Ranking` | `fusion.py`, the arithmetic of `retriever.py`, `pack.py` and of the response | operators |
| `Search` | `retriever.py`, the queries it makes, the tools of `server.py`; extends `Ranking` | one call against syncs |
| `SearchProofs` | | theorems about `Search` and `Ranking` |
| `MCIndexSync`, `MCEmbedPass`, `MCChunker`, `MCGraphIndex`, `MCSearch` | | the instances TLC checks |

`FileLock` and `IndexSync` meet in an abstraction: `IndexSync` treats the lock
as exclusive, which `FileLockExclusive` proves of the protocol until a lock
outlives STALE_AFTER (600 s). A sync that takes longer than that, or the race
that run `lock_race` shows, is outside `IndexSync`. `IndexSync` in turn treats the
rows of the graph as a function of the file map, which `GraphIndexIsExtraction`
proves of `sync_graph` and its cache. `Search` sees of a sync its transactions
only, in the order `IndexSync` gives them.

### FileLock

`pc[p]` is the place in `acquire()`/`release()`; `lockfile` the creator of the
file on disk, which no guard reads, as the code does not either; `age` is the
file's age and `waited[p]` the time since the deadline was set, both saturating
where the code can no longer tell the difference. `Stat` and `Unlink` are the
two halves of `_break_if_stale`, `Release` unlinks by name whatever is there.
`Crash` stands for a kill and for an `acquire()` that fails after its create.
The history variable `wentStale` records whether a lock outlived STALE_AFTER
while its creator was still in the `with` block (`"live"`) or not (`"orphan"`).

### IndexSync

Each action is one transaction, one read of git or one lock operation:
`ReadHead` (sync.py:72), `Acquire`/`GiveUp`/`BreakStale`, `LoadIgnore`,
`ReadTree` (HEAD is resolved again), `ReadActive`, `AddBlob` and `AddChunks`
in a loop, `Deactivate`, `Reactivate`, `MapFiles`, `WipeGraph`, `AddSymbols`,
`AddEdges`, `SetMeta`, `Release`. `MoveHead` is a git command that runs one of the
four hooks, `MoveHeadSilently` one that runs none (`reset --hard`, `update-ref`,
`am`), `ManualSync` a sync by hand, `EditIgnore` the user's editor. `Crash` leaves the
lockfile, `Fail` (an exception in the `with` block) releases it.

A commit is its tree, a function from paths to blobs. Paths and blobs are
numbers, because the code sorts both. The built-in ignore rules and the size
limit depend on path and blob only and are part of the tree; `.sherpaignore`
can change at any time, without a hook, and is a variable. The chunks of a blob
are represented by the path they were computed for, which is all that differs
between two ways of reaching the same blob; graph rows by the file map they
were computed from (that they are a function of it is the extractor's business).
`.sherpa/index.db` is never deleted, hooks are installed, and `checkout
--orphan`, which brings an unborn HEAD back, is left out.

History variables: `golden` is the commit and the rules the index was last
completely built from, or `Torn` during and after a sync that did not finish;
`dropped` says that a sync was lost, `unhooked` that HEAD moved without a hook,
since some sync last resolved HEAD;
`orphans` are the blobs whose sync died before `add_chunks`.

`PublishedIndex` has three variables and five actions: HEAD moves, a sync pins
HEAD, tears the index, publishes the image of what it pinned, unpins. The
refinement maps the index to its four observable parts when `golden` is set and
to `Torn` otherwise.

### EmbedPass

A vector is the tag it was computed under, so that mixing is visible; each tag
has a model and each model a dimension. The stages follow `embed_index`: ask
whether to defer, compare the tag, wipe (one transaction), set the tag (another),
select the misses, and for each batch look again, encode, and put one chunk at
a time. `put_embedding` begins with `_ensure_vec_table`: a read of `vec_dim`
(`Ensure`), then `CREATE VIRTUAL TABLE`, which commits by itself because `sqlite3`
opens no transaction for DDL (`CreateTable`), then the INSERT of `vec_dim`
(`PinDim`), and last the transaction that writes both tables (`Put`). A process may
die between any two of these, and another may wipe there. A process may be a hook (defers an invalidation, never downloads) and may lack
sqlite-vec, in which case it writes no `vec_chunks` rows and cannot drop the
table. The sync before each pass sets the active chunks in one step. Selecting
the misses takes many SELECTs in the code and one step here: the cache is asked
again before each batch, so a chunk found missing too early costs nothing.

History variables: `overlapped` (two passes with different tags ran at once),
`excused` (a pass was given up, deferred or had no model since one last looked),
`plain` (chunks written without sqlite-vec), `asked` (the tag of the index when a
hook asked whether to defer). A dimension pinned after another pass has dropped its
table (`Unhoused`) makes every later insert fail, which `excused` counts as giving
up; `PinnedHasTable`, which the code does not keep, shows that it happens.

### ServerSession

SQLite is external, modelled by what WAL mode and Python's `sqlite3` do: a
SELECT outside a transaction sees the last commit; the first INSERT opens a
transaction; the first SELECT inside one fixes its snapshot; a transaction on
an old snapshot cannot write; a failed INSERT leaves the transaction open.
Commits are numbered; `saw[s]` is the commit a call read last, `asked[s]` the
last commit that had changed the index when it came in. The SELECTs that
`record_call` does itself are among the `Read`s.

### Chunker

`chunk_blob` as a machine that cuts one blob. The recursion of `_split` is the
worklist `todo`, taken leftmost first: `Whole`, `Hard` and `Descend` are the
three ways a call ends, `Window` is what `_salvage` does with a declaration that
has errors. `Merge` is one pass of the loop of `_merge`, `AddWindow` one of
`chunk_lines`. `Raise` is the exception that may end the tree route anywhere,
and starts the fallback from nothing.

An extent is a range of byte offsets. A byte is `ink`, `blank` or `eol`, which is
all that sizes and line starts depend on; lists of pieces are sets, their order
that of the offsets. tree-sitter is external: a tree is any that `WellFormed`
admits, with nested, ordered children, gaps between them, empty nodes, and
errors that show in every ancestor. Breadcrumbs and decoding are left out, but
`tainted`, which decides the breadcrumb, is there.

### Extraction and Resolution

A blob is its size and the captures that the tree-sitter queries of a language
find in it; parsing and the queries are external. `Facts` is `_extract_file`:
one definition per span by priority, methods from functions in classes,
constants, imports, one call per offset, references that are nothing else, the
types of local variables and of receivers. The slashes and dots of paths, of
imports' texts and of symbols matter to `module_name` and to the import resolvers:
each is the tuple of its parts between slashes, a part the tuple of its pieces
between dots, so that `types.d.ts`, `./h.proto`, `..` and the module `a.b` are what
they are. `ImportTarget` tries a submodule for every import that names
something, in every language, as the code does. `Resolve` is `_Resolver`: the same
file, then the imports, then the package, then the one definition of that name
in the language family; `Callee` lets the known type of a receiver decide alone;
`EdgesOf` and `SymbolRows` are what `_resolve_project` and `INSERT OR IGNORE`
make of it all. Signatures, docstrings and the order of rows are left out.

### GraphIndex

`sync_graph` as it meets the database: compare the tag, wipe the facts (one
transaction), set the tag (another), look up or extract the facts of each file
in path order, then three transactions for the fresh facts with the empty
tables, for the symbols and for the edges. `version` is the tag of the program
that syncs, so that an upgraded program may find what an older one left half
done. History variables: `done`, the sync whose tables these are, and `stored`,
the keys completed syncs have parsed since the cache was last emptied.

### Ranking and Search

`Search` is one call at a time on one connection, each SELECT an action, with
the transactions of a sync in between. `search_code` asks the router: the
definitions of each identifier-like token (`LookUpToken`), their order (`Route`),
each with its neighbours along the edges (`ReadEdges`, `ResolveNeighbor`,
`TakeNeighbor`). When the router finds nothing the three channels are read
(`SearchText`; `ReadVecDim` and then either `ScanVectors`, the brute-force scan, or
`FetchVectors` and `FilterVectors`, the two statements of the KNN query;
`SearchTerm`), pooled and reranked (`Rerank`), and the best
hits expanded. `PackNext` is the loop of `pack_results`, `Trim` that of
`search_code`. `NoTable` is the KNN query on a table that a wipe has dropped since
`ReadVecDim`: the call ends with an error. `ListDefinitions`, `ReadDefinitions` and `Expand` begin the
structural tools.

Full-text, vector and cross-encoder orders are inputs, any of a set of orders of
all chunks. How a query is split into tokens, words, search terms and paths is
an input too. Scores are integers on a `Scale` that is divisible by the ranks'
denominators (an assumption TLC evaluates), so that ties are ties. Sorting is
described by what it returns: each member at the place that the number of those
ahead of it gives it.

Three things are assumed. Every stored chunk has its vector, in both tables;
`EmbedPass` has the pass, and `KnnSeesAll`, which the code does not keep, says that none is
missing from one. Each SELECT sees the last commit, which is so while no recording has failed
(`ServerSessionFresh`) and not afterwards (run `session_stale`). The switches
`rerank_enabled`, `rerank_blend_vector` and `expansion_enabled` have their defaults: the
cross-encoder, its blend with the vector order, and expansion are on. History variables: `wasActive` and `wasEdge`, the blobs and edges the
index had at some moment of the call.

## 3. Runs

| run | checks | bounds |
|---|---|---|
| `lock` | `TypeOK`, `ExclusiveUntilStale`, `HolderOwnsFile`, `AcquireReturns`, `OrphanIsBroken` | 2 processes, 1 crash, timeout 2 ticks, stale after 3 |
| `sync` | `TypeOK`, `IndexIsRebuild`, `QuiescentFresh`, `SearchInBounds`, `ChunksPresent`, `NothingForgotten`, `ImplementsPublished` | 2 processes, 3 commits, 3 paths, 3 blobs, 1 failure |
| `sync_live` | `IndexFollowsHead` | 2 processes, 3 commits of one path, 1 failure |
| `embed` | `TypeOK`, `OneSpace`, `VecTableFaithful`, `QuiescentWarm`, `CacheIsPermanent` | 2 processes, 2 chunks, 2 tags of different dimension, 3 passes, 1 failure, batches of 1 |
| `chunk` | `TypeOK`, `Partition`, `WithinBudget`, `Provenance`, `Maximal`, `DeclarationsWhole`, `WindowsOverlap` | blobs of 0 and 4 bytes, trees of up to 3 declarations, one of them with 2 children; limits 2, depth 1, byte limit 3, windows of 2 lines with 1 overlapping; and one blob of 12 bytes in 3 lines, whose overlapping windows are all cut |
| `session` | `TypeOK`, `FreshWhileRecorded`, `CallReturns` | 2 servers, one recording, 4 calls, 3 sync transactions |
| `graph` | `TypeOK`, `CacheFaithful`, `GraphIsExtraction`, `EdgesClosed`, `NothingParsedTwice`, `FamiliesIndependent` | 15 paths in six languages, six projects made of them, 2 versions of the program; no bound on syncs and crashes |
| `search` | `TypeOK`, `ResultsJustified`, `ChannelsHeard`, `KnnExact`, `PackedWell`, `ResponseFits` | 3 blobs with 5 chunks, 2 trees, 7 queries, 2 orders, 3 sync transactions during a call; no bound on calls and syncs |

Why these are enough to meet the interesting cases. *lock*: a timeout below and
a crash beside STALE_AFTER give orphans that are broken and waiters that give
up first; two processes suffice for every race on one file. *sync*: one commit
has a blob at two paths, the other replaces one of them, adds a binary file and
has a path that `.sherpaignore` may name, so blobs are added, shared,
deactivated, brought back, skipped; the second process queues, is overtaken by
HEAD, or finds what a crash left. There is no bound on the number of syncs.
*embed*: two chunks in batches of one make two batches, three passes let a third
find what two have done to each other. *chunk*: all 16 ways to place newlines among
four bytes and four ways to place blanks, with children starting anywhere. Four
bytes against a limit of 2 make an extent that fits, one that is full and one
that has to be cut twice. Depth 1 is met below the declarations of a clean file
and below the children of one in a salvaged file, and a byte limit of 3 splits
windows but not all of them; in the blob of 12 bytes a slice of one window lies
within a slice of the next. *session*: `SyncCommit`s before, during
and after each call; the server that does not record stands for
`analytics = false`. *graph*: the projects are the cases resolution tells apart: a
sibling import and a package import of the same name, one blob at two paths and
in two languages, two receivers with one method, a vendored file, a directory's index, a stem with a
dot, imports that reach a file of another family or try a submodule there, a file of no
language; the second version captures less, so that a payload under the wrong
tag shows. *search*: one file never changes and the other has two versions; a
name is defined in both files, two chunks overlap, two have one breadcrumb; the
budgets leave something out, and one more vector than are wanted is fetched.
Three transactions per call put a whole replacement of the graph, or an
activation and what follows it, between any two statements. A sync dies only
while no call runs: to a call, a dead sync is one that does nothing more.
Nothing a sync writes is read when `vec_dim` is, nor while results are packed,
trimmed and returned, so syncs pause there.

The runs have deadlock checking where processes can always start again, and not
where the bounds on passes and calls end the behaviour.

Many of the properties are conditional, because the claim without the condition
is not true of the code. The condition, and the run, or the property that the code
does not keep (see below), that shows why it is needed:

| property | holds as long as | shown by |
|---|---|---|
| `ExclusiveUntilStale`, `HolderOwnsFile` | no lock has outlived STALE_AFTER | `lock_race` |
| `QuiescentFresh`, `IndexFollowsHead` | no sync was lost (LockTimeout, crash, failure), and HEAD was not moved without a hook, since a sync last looked | `EveryMoveSynced`, for the second |
| `ChunksPresent` | the blob's sync did not die between `add_blob` and `add_chunks` | `sync_lost_chunks` |
| `OneSpace` | passes with different tags have not overlapped | `embed_mix` |
| `VecTableFaithful` | row by row: the chunk was embedded with sqlite-vec (`plain`); dimensions: passes with different tags have not overlapped, and neither is missing | `KnnSeesAll`, `PinnedHasTable` |
| `QuiescentWarm` | no pass was given up since one last looked; passes with different tags have not overlapped | `PinnedHasTable`, for the first |
| `CacheIsPermanent` | always; it names the losses there are: the wipe of a foreground sync, that of a hook whose answer was old, a replacement by an overlapping pass of another tag | `HooksNeverAbsorb` |
| `FreshWhileRecorded` | no recording of that server has failed | `session_stale` |
| `KnnExact` | at most (OverFetch - 1) * VectorTop of the vectors fetched are of inactive blobs | by the over-fetch itself |
| `ChannelsHeard` | the heads of the three channels fit the cross-encoder's window | by the window itself |
| `FamiliesIndependent` | the file's imports neither find nor mean anything of another family | `NamesStayInFamily` |

### What the documents say and the code does not do

| run | property | what happens |
|---|---|---|
| `lock_race` | `RaceHasOneWinner` | two contenders find the lock stale; the second unlink removes the file the first has just created, and both hold the lock |
| `sync_lost_chunks` | `ChunksComplete` | a crash between `add_blob` and `add_chunks`: the blob is known, so no later sync chunks it |
| `embed_mix` | `NeverMixes` | a pass under the old tag goes on writing after another pass has wiped for the new one |
| `session_stale` | `NeverOutdated` | a recording fails on a busy database; the connection stays inside a transaction whose snapshot never advances |

The modules state six more such claims, each at its end under "What the
documentation says and the code does not keep". They have no run in the list; with
one of them as the INVARIANT of the
configuration in place of its properties, TLC finds the behaviour:

| property | in | claimed in | what happens |
|---|---|---|---|
| `EveryMoveSynced` | `IndexSync.cfg` | sync.py:34-35, README:28-29 | `git reset --hard` moves HEAD; none of the four hooks runs, no sync starts, and the index stays that of the old commit |
| `RecordedHead` | `IndexSync.cfg` | test_mcp_server.py:158, server.py:221 | HEAD moves while a sync waits for the lock: it indexes the new commit and records the old one as `last_sync_head` |
| `HooksNeverAbsorb` | `EmbedPass.cfg` | warm.py:143-144 | a hook finds no invalidation pending, another pass sets another tag, and the hook wipes |
| `PinnedHasTable` | `EmbedPass.cfg` | DECISIONS.md:59-60, warm.py:83-84 | a wipe between `CREATE VIRTUAL TABLE` and the INSERT of `vec_dim`: the dimension is pinned, the table gone, and every later insert fails |
| `KnnSeesAll` | `EmbedPass.cfg` | DECISIONS.md:61-63 | vectors written without sqlite-vec never come into the table that processes with it search |
| `NamesStayInFamily` | `GraphIndex.cfg` | extract.py:45-46 | a TypeScript name imported from `./h.proto` resolves to a message of that file |

Smaller differences were met while translating; the modules follow the code, and
no run is about them:

* `sync.py:126` chunks a blob under the first path it is seen at; when the file
  is renamed its chunks go on naming the old path.
* `index.py:116` speaks of one transaction; the replacement of the graph is three.
* `extract.py`: the docstring's order of resolution is not that of `resolve`,
  which tries imports before the package; a type-known call whose method is not
  found stays unresolved rather than falling back; `_best` chooses among
  definitions that tie although the resolver is said never to guess.
* `get_references` returns REFERENCES edges; uses that are calls or imports are
  CALLS and IMPORTS edges and are not in it.
* `pack.py` promises the maximum total usefulness; the greedy order by density
  does not reach it in general. `PackedWell` states what it does reach.
* `server.py:159`: the `truncated` note is added after the trimming and is not
  counted (`ResponseFits`).
* `retriever.py:71` chooses the blend weight when the server starts; an index
  that outgrows `SMALL_INDEX_ACTIVE_BLOBS` keeps it until a restart.

### Fairness

* `FileLock`: the clock ticks and a process that has called `acquire()` or holds
  the lock is scheduled (`sync()` terminates). Nobody has to start a sync;
  `OrphanIsBroken` assumes in its statement that attempts continue.
* `IndexSync`: a sync that has started goes on, as any process does. Nothing is
  assumed of git, the user or `BreakStale`: a sync that gives up is `dropped`, a
  move without a hook `unhooked`, and `IndexFollowsHead` says so.
* `ServerSession`: a call that has come in goes on and issues finitely many
  statements. Syncs have no fairness: one may hold SQLite's write lock forever,
  which is where `busy_timeout` and the swallowed error matter.
* `EmbedPass`, `Chunker`, `GraphIndex` and `Search` are checked for safety only.

## 4. Proofs

Every safety property of the passing runs is a theorem. They hold for every
repository (any sets of paths, blobs, commits, trees), any number of
processes and any bounds, under the assumptions on the constants that each module
names (`FileLockAssumption`, `IndexSyncAssumption`, ...):

* **`FileLockTypeCorrect`**, **`FileLockHolderOwnsFile`**,
  **`FileLockExclusive`**. `HolderOwnsFile` together with the types is inductive:
  exclusion alone is not, because release and the stale check unlink by name.
  While no lock has gone stale nobody stands before an `Unlink`, each holder's
  file is on disk, and so two holders would have created the same file.
* **`IndexSyncTypeCorrect`**. The types and: a sync between `add_blob` and
  `add_chunks` has a blob that its tree wants, without which `FirstPath` would
  choose from an empty set.
* **`IndexSyncIsRebuild`**. The argument is that at each stage the sync has
  finished a known part of the work. `LockInv`: whoever is past `Acquire` holds
  the lock, so there is one such process. `ActiveInv`: from `index` on, active
  blobs lie between `was` and `was \cup Desired`, after `Deactivate` within
  `Desired`, after `Reactivate` they equal it. `MapInv`: the file map, then the
  tables of the graph, are those of the tree. `StoreInv` says that the index is
  the golden one outside the writing stages, and `TornInv` ties `golden` to
  them, also across crashes.
* **`IndexSyncSearchInBounds`** from `ActiveInv`.
* **`IndexSyncQuiescentFresh`**. `FreshInv`: unless a sync was lost or HEAD moved
  without a hook, either the
  index is HEAD's, or some sync that has not resolved HEAD yet is under way, or
  the one that has will publish the present HEAD.
* **`IndexSyncChunksPresent`** from `ChunkInv`, **`IndexSyncNothingForgotten`**
  as an action property.
* **`IndexSyncImplementsPublished`**: the refinement. `LockInv` makes the sync that
  has pinned a commit unique (`PinOf`), so that the `CHOOSE` of the mapping is no
  choice, and `IndexIsRebuild` says that an index that is not torn is the image of
  `golden` (`IndexIsImage`). `ReadTree` then maps to `Pin`, the first write
  (`ReadActive`) to `Tear`, `SetMeta` to `Publish`, a release, a crash or a failure
  of the sync that holds a pin to `Unpin`, HEAD's moves to `MoveHead`, and all else
  is a stutter.

* **`ChunkerPartition`**, for every blob, every tree that `WellFormed` admits and
  all limits. The parts (`todo`, `pieces` and `chunks` together) cut the blob at
  every step (`CutInv`), because each call of `_split` replaces an extent by a cut
  of it (`SplitCuts`, from `PiecesAtCuts` for cuts at given places and
  `ExtentsSplit` for cuts at children), and `_merge` joins two that meet. It needs
  two more facts: an extent contains its node, or its children could begin before
  it, and chunks lie before the pieces still to be merged, or a piece might come
  to overlap with a chunk that grew.
* **`ChunkerWithinBudget`** needs that sizes add up (`InkAdds`) and that no two
  cuts are further apart than the width (`CutsDense`). **`ChunkerProvenance`**,
  **`ChunkerMaximal`** and **`ChunkerDeclarationsWhole`** each rest on an invariant
  of their own beside the core one; the last says that a declaration that fits is
  in one part, or is about to be looked at as a whole.
  **`ChunkerTypeCorrect`** includes that no piece is empty.

* **`EmbedPassTypeCorrect`** includes that a pass about to store a vector has a
  chunk to store it for. **`EmbedPassOneSpace`**, **`EmbedPassVecTableFaithful`**
  and **`EmbedPassCacheIsPermanent`** follow from `SpaceInv`. While passes with
  different tags have not overlapped, those that run agree on their tag
  (`SameTag`), and each is where the tables allow it to be (`Placed`): about to
  set its tag, it finds nothing computed under another one, because it has wiped
  or there was no tag; past that, the tag is set; and a hook is never at the wipe,
  since what it was told when it asked is still so.
  `OneTag` says that the tables are those of one tag. Without `Placed` the
  invariant breaks at `SetTag`. That both tables are written together
  (`RowsMatch`) and that rows have a table (`RowsHoused`) needs no condition.
  `CacheIsPermanent` has none either: where passes overlap a hook may wipe, and
  `AskedInv` says that it had asked, and been told of no other tag.
* **`ServerSessionTypeCorrect`**, **`ServerSessionFresh`**: a connection whose
  INSERTs have all succeeded has no transaction open when it reads
  (`CleanUnlessFailed`), so that each SELECT sees the last commit.
* **`GraphIndexTypeCorrect`**, **`GraphIndexCacheFaithful`**,
  **`GraphIndexIsExtraction`**, **`GraphIndexNothingParsedTwice`**, for any
  extractor versions and projects. For these extraction and resolution stay
  opaque: only their being functions of the facts is used. `SyncInv`: a sync has
  payloads for the files it has looked up. `CacheInv`: the cache is empty when its
  tag is about to change, and from then on the tag is that of the sync that fills
  it. `StoredInv`: what completed syncs have parsed is in the cache. `TableInv`:
  the tables during their replacement.

The other safety properties are about what the algorithms compute, and their
proofs open the operators up:

* **`GraphIndexEdgesClosed`**, for any captures that `CaptureAssumption` admits.
  `TablesMatch`: the edges of the table are none, or those of the project whose
  symbols the table has. That is enough once the edges of a project end at its
  symbols. A project is `Formed` (`ProjectFormed`): definitions lie in their own
  file and one span keeps one capture, so that ids are unique among modules and
  among definitions; a module and a definition may still share an id, and then
  `INSERT OR IGNORE` keeps one row of it (`RowOfId`). Whatever `resolve` and
  `Callee` return is a node of the project (`EndsIn`).
* **`GraphIndexFamiliesIndependent`**: a file whose imports stay in its family,
  the files they find as well as the definition or submodule they mean, has
  the same edges among the files of its family. Each resolver is shown to give the
  same answer in both projects: the import resolvers of the four families
  (`ResolveImportKin`), what an import means (`ImportTargetKin`), `resolve`
  (`ResolveKin`), `Callee` (`CalleeKin`), and then the edges (`EdgesKin`).
* **`EmbedPassQuiescentWarm`** from `WarmInv`, which follows each missing chunk to
  the pass that will come to it: while no pass was given up and none overlapped
  with another tag, either some pass is `Early`, that is, has yet to look for the
  misses, or each missing chunk is in the list or the batch of a pass that will
  put it. A pass whose table another has dropped will fail at its next insert
  (`Doomed`) and does not count; then the one that dropped it is `Early`. The
  proof uses `SpaceInv`: passes that do not overlap agree on the tag, so that what
  one has stored the other finds.
* **`ChunkerWindowsOverlap`** from `WindowInv`: the windows so far leave no byte out
  before the next line, and, where none is cut for its size, are those that begin
  at the lines before it. Windows that begin at different lines end at different
  places because the offsets of lines increase (`OffsetsIncrease`), which follows
  from counting newlines and needs no induction. The attempt to prove the property
  as it first stood failed for a good reason: slices of a window that is over the
  byte limit may lie within slices of the next one. Blobs of four bytes are too
  short for that; the condition `Uncut` and the blob of 12 bytes came of it.

* **`SearchProofs`**, for any index, graph, queries, rankings and windows that
  `SchemaAssumption`, `SearchAssumption` and `RankingAssumption` admit: the columns
  are numbers where SQLite compares them, tables are finite, a ranking lists every
  chunk once. **`SpecInductive`** is the invariant `IInv`, in six parts: the index
  and the sync (`IndexInv`), the stage (`CallInv`), the channels (`ReadInv`), the
  loop over definitions or hits (`ItemsInv`), the walk along the edges (`WalkInv`)
  and the results (`HitsInv`). Whatever a call carries from one statement to the
  next is of a file that was active, and along an edge that was stored, at some
  moment of the call. **`TypesCorrect`** and **`JustifiedResults`** follow: the far
  end of an edge is found again by name, but only a symbol with the edge's id is
  taken. **`HeardChannels`** needs that sorting and pooling lose nothing
  (`SortedLists`, `PoolChunks`). **`ExactKnn`**, an action property: among the
  `OverFetch * VectorTop` nearest vectors there are still `VectorTop` active ones
  when few enough are not, and then filtering first or last is the same; `KnnInv`
  says that the vectors were each fetched once. **`WellPacked`** from `PackInv`: the
  packer has gone through a first part of its order, and each result it has passed
  over was refused for a reason that still holds, because the total only grows.
  What the results cost is a sum over a set, which the community modules' fold
  takes in an order of its own; `SumsExist` and `SumsAnyOrder` show that its
  recursion defines a sum and that the order does not matter, each by a least
  counterexample.
  **`FittingResponse`** from `FitInv`: what is returned is a prefix, and every longer
  one has been tried.

`IInv` does not carry `KnnInv`, `PackInv` and `FitInv`; each of them is inductive
beside it. The inductive invariants of `FileLock`, `IndexSync` and `EmbedPass` and
`WindowInv` of `Chunker` were checked by TLC on the instances of their runs before
they were proved; those of the other modules imply the properties their runs
check.

Proofs that look like inductions do without: that a nonempty set of numbers has a
least one follows from the library's `WFMin` and `NatLessThanWellFounded`, that the
members of a finite ordered set have each a place of their own from counting
(`Places`), and a set without a sum would be one of a least size. What
sorting, ranking and the choice of a first definition return is shown from these,
as the modules define them by places and not by recursion.

Only model-checked: the liveness properties (`AcquireReturns`, `OrphanIsBroken`,
`IndexFollowsHead`, `CallReturns`), since the prover does not handle fairness and
ENABLED. The ten properties that the code violates have no theorem, of course:
TLC shows the behaviours.

## 5. Not modelled, and why

* The inside of external parts: tree-sitter, sentence-transformers, sqlite-vec,
  FTS5, git. They appear as the values they return.
* Formatting, progress output, the CLI's argument parsing, statistics, the
  timestamp `last_sync`.
* `graph/recent.py`, `graph/gitio.py`, `graph/view.py`: stateless subprocess
  calls and layout. `bench.py`, `retrieve/evalfactory.py`: measurement. The
  reports of `gain.py`: arithmetic over rows.
* How the router tells identifiers from words, how paths are recognised in a
  query, and the passages of `retrieve/passages.py`: string processing, of which
  the result is an input of `Search`.
* `retrieve/rerank.py`: one call of a neural model, an input too. Searches with
  reranking, blending or expansion switched off.
* A search on a connection that a failed recording has left on an old snapshot;
  `ServerSession` has the connection, `Search` the statements.
* The pattern language of `.sherpaignore`, the decoding of a chunk's bytes,
  signatures and breadcrumbs' wording: no state depends on them.

## 6. Plan

What is done is described above. What is left:

1. `SyncSystem`: `FileLock` and `IndexSync` composed, to see what a broken lock
   does to the index.
