----------------------------- MODULE IndexSync ------------------------------
(***************************************************************************)
(* sherpa sync (gitlayer/sync.py) bringing .sherpa/index.db to HEAD, run   *)
(* by git hooks (gitlayer/repo.py) and by hand, in several processes.      *)
(*                                                                         *)
(* An action is one SQLite transaction (store/sqlite_store.py commits each *)
(* call on its own), one read of git, or one lock operation: what another  *)
(* process can observe, and where a crash can fall.  The lockfile appears  *)
(* as the exclusive lock that module FileLock shows it to be until one     *)
(* outlives STALE_AFTER.                                                   *)
(*                                                                         *)
(* Data.  A commit's tree is its regular files without those the built-in  *)
(* rules or the size limit skip, which depend on path and blob only; the   *)
(* rules of .sherpaignore, which the user edits, are the variable ignored. *)
(* The chunks of a blob are represented by the path they were computed     *)
(* for.  The rows of the symbol graph depend on the whole file map: they   *)
(* are represented by the maps they were computed from.                    *)
(***************************************************************************)
EXTENDS Naturals

CONSTANTS
  Procs,
  Commits, Unborn,      \* Unborn: HEAD before the first commit
  Paths, Blobs,         \* numbered in the code's sort order
  NoBlob, NoPath,
  Tree,                 \* Tree[c][p]: the blob of path p in commit c, or NoBlob
  Binary,               \* the blobs looks_binary() rejects
  IgnoreSets,           \* what .sherpaignore may skip, as sets of paths
  Nobody, Abandoned,    \* the lock is free; it is a dead process's lockfile
  Torn,                 \* the index is in the middle of a sync
  MaxFailures           \* bound on crashes and failed syncs

ASSUME IndexSyncAssumption ==
  /\ Paths \subseteq Nat
  /\ Blobs \subseteq Nat
  /\ NoBlob \notin Blobs
  /\ NoPath \notin Paths
  /\ Unborn \in Commits
  /\ Tree \in [Commits -> [Paths -> Blobs \cup {NoBlob}]]
  /\ Tree[Unborn] = [p \in Paths |-> NoBlob]
  /\ Binary \subseteq Blobs
  /\ IgnoreSets \subseteq SUBSET Paths
  /\ {} \in IgnoreSets
  /\ Nobody \notin Procs /\ Abandoned \notin Procs /\ Nobody # Abandoned
  /\ Torn \notin [commit : Commits, ignored : IgnoreSets]
  /\ MaxFailures \in Nat

VARIABLES
  head,         \* the commit HEAD points at
  ignored,      \* .sherpaignore in the working tree
  lock,         \* who holds index.db.lock
  stage,        \* stage[p]: the next step of p's sync
  hint,         \* hint[p]: stats.head, read before the lock
  skip,         \* skip[p]: the IgnoreRules p loaded
  rev,          \* rev[p]: the commit whose tree p read
  was,          \* was[p]: already_active
  cur,          \* cur[p]: the blob between add_blob and add_chunks
  blobs,        \* blobs[b]: "absent", "inactive" or "active"
  chunks,       \* chunks[b]: the path b was chunked for, or NoPath: no rows
  files,        \* files[p]: the blob mapped at p, or NoBlob
  symbols,      \* the file maps the rows of the symbols table come from
  edges,        \* the same for the edges table
  syncedHead,   \* meta['last_sync_head']
  failures,     \* crashes and failed syncs so far
  golden,       \* history: what the index was last built from, or Torn
  dropped,      \* history: a sync was lost since a sync last read HEAD's tree
  unhooked,     \* history: HEAD moved without a hook since then
  orphans       \* history: blobs whose sync died before add_chunks

git == <<head, ignored>>
locals == <<hint, skip, rev, was, cur>>
store == <<blobs, chunks, files, symbols, edges, syncedHead>>
history == <<failures, golden, dropped, unhooked, orphans>>
vars == <<git, lock, stage, locals, store, history>>

-----------------------------------------------------------------------------
(* Pure parts *)

Least(S) == CHOOSE x \in S : \A y \in S : x <= y

NoFiles == [p \in Paths |-> NoBlob]

\* candidates: the tree without the paths skip_path() rejects.
Candidates(c, s) == [p \in Paths |-> IF p \in s THEN NoBlob ELSE Tree[c][p]]

BlobsOf(map) == {map[p] : p \in Paths} \ {NoBlob}

\* file_map and desired_active: without the binary blobs.
FileMap(c, s) ==
  [p \in Paths |-> IF Candidates(c, s)[p] \in Binary THEN NoBlob
                   ELSE Candidates(c, s)[p]]
Desired(c, s) == BlobsOf(Candidates(c, s)) \ Binary

\* blob_to_path: the first path, in sorted order, at which b lives.
FirstPath(c, s, b) == Least({p \in Paths : Candidates(c, s)[p] = b})

\* extract_project_cached: what a file map adds to a table of the graph.
GraphRows(map) == {map} \ {NoFiles}

Active == {b \in Blobs : blobs[b] = "active"}
Known  == {b \in Blobs : blobs[b] # "absent"}

\* The active state of the index that a sync into a fresh database builds.
Rebuild(c, s) == [active  |-> Desired(c, s),
                  files   |-> FileMap(c, s),
                  symbols |-> GraphRows(FileMap(c, s)),
                  edges   |-> GraphRows(FileMap(c, s))]

Index == [active |-> Active, files |-> files, symbols |-> symbols, edges |-> edges]

-----------------------------------------------------------------------------
(* Types and initial state *)

BeforeTree == {"begin", "lock", "ignore", "tree"}
Writing == {"index", "chunk", "reactivate", "map", "graph", "symbols", "edges", "meta"}
Locked == {"ignore", "tree", "active"} \cup Writing \cup {"unlock"}
Stages == {"idle", "begin", "lock"} \cup Locked

TypeOK ==
  /\ head \in Commits
  /\ ignored \in IgnoreSets
  /\ lock \in Procs \cup {Nobody, Abandoned}
  /\ stage \in [Procs -> Stages]
  /\ hint \in [Procs -> Commits]
  /\ skip \in [Procs -> IgnoreSets]
  /\ rev \in [Procs -> Commits]
  /\ was \in [Procs -> SUBSET Blobs]
  /\ cur \in [Procs -> Blobs \cup {NoBlob}]
  /\ blobs \in [Blobs -> {"absent", "inactive", "active"}]
  /\ chunks \in [Blobs -> Paths \cup {NoPath}]
  /\ files \in [Paths -> Blobs \cup {NoBlob}]
  /\ symbols \subseteq [Paths -> Blobs \cup {NoBlob}]
  /\ edges \subseteq [Paths -> Blobs \cup {NoBlob}]
  /\ syncedHead \in Commits
  /\ failures \in 0..MaxFailures
  /\ golden \in [commit : Commits, ignored : IgnoreSets] \cup {Torn}
  /\ dropped \in BOOLEAN
  /\ unhooked \in BOOLEAN
  /\ orphans \subseteq Blobs

\* A repository without commits, on which `sherpa init` has run.
Init ==
  /\ head = Unborn
  /\ ignored = {}
  /\ lock = Nobody
  /\ stage = [p \in Procs |-> "idle"]
  /\ hint = [p \in Procs |-> Unborn]
  /\ skip = [p \in Procs |-> {}]
  /\ rev = [p \in Procs |-> Unborn]
  /\ was = [p \in Procs |-> {}]
  /\ cur = [p \in Procs |-> NoBlob]
  /\ blobs = [b \in Blobs |-> "absent"]
  /\ chunks = [b \in Blobs |-> NoPath]
  /\ files = NoFiles
  /\ symbols = {}
  /\ edges = {}
  /\ syncedHead = Unborn
  /\ failures = 0
  /\ golden = [commit |-> Unborn, ignored |-> {}]
  /\ dropped = FALSE
  /\ unhooked = FALSE
  /\ orphans = {}

-----------------------------------------------------------------------------
(* The user, git and the hooks *)

\* Mutant: one of the four hook files was not installed.
MoveHeadHookMissing(p, c) ==
  /\ stage[p] = "idle"
  /\ c # Unborn
  /\ head' = c
  /\ UNCHANGED <<ignored, lock, stage, locals, store, history>>

\* A git command with a hook (commit, checkout, merge, pull, rebase, amend)
\* moves HEAD to a commit and runs the hook: sherpa sync starts.
MoveHead(p, c) ==
  /\ stage[p] = "idle"
  /\ c # Unborn
  /\ head' = c
  /\ stage' = [stage EXCEPT ![p] = "begin"]
  /\ UNCHANGED <<ignored, lock, locals, store, history>>

\* A git command that runs none of the four hooks (reset --hard, update-ref,
\* am), or a hook that finds no sherpa on PATH: HEAD moves and no sync starts.
MoveHeadSilently(c) ==
  /\ c \notin {head, Unborn}
  /\ head' = c
  /\ unhooked' = TRUE
  /\ UNCHANGED <<ignored, lock, stage, locals, store, failures, golden, dropped, orphans>>

\* sherpa sync, by hand.
ManualSync(p) ==
  /\ stage[p] = "idle"
  /\ stage' = [stage EXCEPT ![p] = "begin"]
  /\ UNCHANGED <<git, lock, locals, store, history>>

\* No hook fires when .sherpaignore is edited.
EditIgnore(s) ==
  /\ ignored' = s
  /\ UNCHANGED <<head, lock, stage, locals, store, history>>

-----------------------------------------------------------------------------
(* sync() *)

Goto(p, from, to) ==
  /\ stage[p] = from
  /\ stage' = [stage EXCEPT ![p] = to]

\* The process ends: its locals are gone.
Forget(p) ==
  /\ hint' = [hint EXCEPT ![p] = Unborn]
  /\ skip' = [skip EXCEPT ![p] = {}]
  /\ rev' = [rev EXCEPT ![p] = Unborn]
  /\ was' = [was EXCEPT ![p] = {}]
  /\ cur' = [cur EXCEPT ![p] = NoBlob]

\* stats.head = head_commit_hex(repo)
ReadHead(p) ==
  /\ Goto(p, "begin", "lock")
  /\ hint' = [hint EXCEPT ![p] = head]
  /\ UNCHANGED <<git, lock, skip, rev, was, cur, store, history>>

Acquire(p) ==
  /\ Goto(p, "lock", "ignore")
  /\ lock = Nobody
  /\ lock' = p
  /\ UNCHANGED <<git, locals, store, history>>

\* LockTimeout; the hook swallows it.
GiveUp(p) ==
  /\ Goto(p, "lock", "idle")
  /\ lock # Nobody
  /\ dropped' = TRUE
  /\ Forget(p)
  /\ UNCHANGED <<git, lock, store, failures, golden, unhooked, orphans>>

\* A waiting sync finds the lockfile of a dead one stale and unlinks it.
BreakStale ==
  /\ lock = Abandoned
  /\ \E p \in Procs : stage[p] = "lock"
  /\ lock' = Nobody
  /\ UNCHANGED <<git, stage, locals, store, history>>

LoadIgnore(p) ==
  /\ Goto(p, "ignore", "tree")
  /\ skip' = [skip EXCEPT ![p] = ignored]
  /\ UNCHANGED <<git, lock, hint, rev, was, cur, store, history>>

\* Mutant: the tree of the commit that was read before the lock.
ReadHintedTree(p) ==
  /\ Goto(p, "tree", "active")
  /\ rev' = [rev EXCEPT ![p] = hint[p]]
  /\ dropped' = FALSE
  /\ unhooked' = FALSE
  /\ UNCHANGED <<git, lock, hint, skip, was, cur, store, failures, golden, orphans>>

\* head_tree_blobs(repo): HEAD is resolved again, now under the lock.
ReadTree(p) ==
  /\ Goto(p, "tree", "active")
  /\ rev' = [rev EXCEPT ![p] = head]
  /\ dropped' = FALSE
  /\ unhooked' = FALSE
  /\ UNCHANGED <<git, lock, hint, skip, was, cur, store, failures, golden, orphans>>

ReadActive(p) ==
  /\ Goto(p, "active", "index")
  /\ was' = [was EXCEPT ![p] = Active]
  /\ golden' = Torn
  /\ UNCHANGED <<git, lock, hint, skip, rev, cur, store, failures, dropped, unhooked, orphans>>

\* What is left of the loop over blob_to_path: has_blob() skips a known blob,
\* looks_binary() a binary one.
Pending(p) == Desired(rev[p], skip[p]) \ Known

\* Mutant: the rows of all new blobs first, then the chunks.
AddBlobs(p) ==
  /\ Goto(p, "index", "chunk")
  /\ Pending(p) # {}
  /\ cur' = [cur EXCEPT ![p] = Least(Pending(p))]
  /\ blobs' = [b \in Blobs |-> IF b \in Pending(p) THEN "active" ELSE blobs[b]]
  /\ UNCHANGED <<git, lock, hint, skip, rev, was,
                 chunks, files, symbols, edges, syncedHead, history>>

\* add_blob: a transaction of its own; the row is active at once.
AddBlob(p) ==
  /\ Goto(p, "index", "chunk")
  /\ Pending(p) # {}
  /\ cur' = [cur EXCEPT ![p] = Least(Pending(p))]
  /\ blobs' = [blobs EXCEPT ![cur'[p]] = "active"]
  /\ UNCHANGED <<git, lock, hint, skip, rev, was,
                 chunks, files, symbols, edges, syncedHead, history>>

\* add_chunks: chunked for, and stored with, the first path of the blob.
AddChunks(p) ==
  /\ Goto(p, "chunk", "index")
  /\ chunks' = [chunks EXCEPT ![cur[p]] = FirstPath(rev[p], skip[p], cur[p])]
  /\ cur' = [cur EXCEPT ![p] = NoBlob]
  /\ UNCHANGED <<git, lock, hint, skip, rev, was,
                 blobs, files, symbols, edges, syncedHead, history>>

\* Mutants: deactivation deletes the row, or leaves a tombstone in it.
SetActiveDelete(bs, value) ==
  blobs' = [b \in Blobs |-> IF b \notin bs \/ b \notin Known THEN blobs[b]
                            ELSE IF value = "inactive" THEN "absent" ELSE value]
SetActiveTombstone(bs, value) ==
  blobs' = [b \in Blobs |-> IF b \notin bs \/ b \notin Known THEN blobs[b]
                            ELSE IF value = "inactive" THEN "deleted" ELSE value]

\* set_blobs_active(bs, value): rows that exist, one transaction.
SetActive(bs, value) ==
  blobs' = [b \in Blobs |-> IF b \in bs /\ b \in Known THEN value ELSE blobs[b]]

\* Mutant: everything is switched off, to be switched on again after.
DeactivateAll(p) ==
  /\ Goto(p, "index", "reactivate")
  /\ Pending(p) = {}
  /\ SetActive(Active, "inactive")
  /\ UNCHANGED <<git, lock, locals, chunks, files, symbols, edges, syncedHead, history>>

\* The loop is done: set_blobs_active(to_deactivate, False)
Deactivate(p) ==
  /\ Goto(p, "index", "reactivate")
  /\ Pending(p) = {}
  /\ SetActive(was[p] \ Desired(rev[p], skip[p]), "inactive")
  /\ UNCHANGED <<git, lock, locals, chunks, files, symbols, edges, syncedHead, history>>

\* Mutant: add_blob() has activated the new blobs, so nothing is left to do.
ReactivateNothing(p) ==
  /\ Goto(p, "reactivate", "map")
  /\ UNCHANGED <<git, lock, locals, store, history>>

\* set_blobs_active(to_reactivate, True)
Reactivate(p) ==
  /\ Goto(p, "reactivate", "map")
  /\ SetActive(Desired(rev[p], skip[p]) \ was[p], "active")
  /\ UNCHANGED <<git, lock, locals, chunks, files, symbols, edges, syncedHead, history>>

\* Mutant: the new mapping is laid over the old one.
OverlayFiles(p) ==
  /\ Goto(p, "map", "graph")
  /\ LET new == FileMap(rev[p], skip[p])
     IN  files' = [q \in Paths |-> IF new[q] = NoBlob THEN files[q] ELSE new[q]]
  /\ UNCHANGED <<git, lock, locals, blobs, chunks, symbols, edges, syncedHead, history>>

\* map_files("HEAD", file_map): delete and insert in one transaction.
MapFiles(p) ==
  /\ Goto(p, "map", "graph")
  /\ files' = FileMap(rev[p], skip[p])
  /\ UNCHANGED <<git, lock, locals, blobs, chunks, symbols, edges, syncedHead, history>>

\* sync_graph, first transaction: both tables are emptied.
WipeGraph(p) ==
  /\ Goto(p, "graph", "symbols")
  /\ symbols' = {}
  /\ edges' = {}
  /\ UNCHANGED <<git, lock, locals, blobs, chunks, files, syncedHead, history>>

\* sync_graph, second transaction: add_symbols.
AddSymbols(p) ==
  /\ Goto(p, "symbols", "edges")
  /\ symbols' = symbols \cup GraphRows(FileMap(rev[p], skip[p]))
  /\ UNCHANGED <<git, lock, locals, blobs, chunks, files, edges, syncedHead, history>>

\* sync_graph, third transaction: add_edges.
AddEdges(p) ==
  /\ Goto(p, "edges", "meta")
  /\ edges' = edges \cup GraphRows(FileMap(rev[p], skip[p]))
  /\ UNCHANGED <<git, lock, locals, blobs, chunks, files, symbols, syncedHead, history>>

\* set_meta("last_sync_head", stats.head)
SetMeta(p) ==
  /\ Goto(p, "meta", "unlock")
  /\ syncedHead' = hint[p]
  /\ golden' = [commit |-> rev[p], ignored |-> skip[p]]
  /\ UNCHANGED <<git, lock, locals, blobs, chunks, files, symbols, edges,
                 failures, dropped, unhooked, orphans>>

Release(p) ==
  /\ Goto(p, "unlock", "idle")
  /\ lock' = Nobody
  /\ Forget(p)
  /\ UNCHANGED <<git, store, history>>

-----------------------------------------------------------------------------
(* Failures.  A transaction in progress is rolled back. *)

Lost(p) ==
  /\ failures < MaxFailures
  /\ failures' = failures + 1
  /\ stage' = [stage EXCEPT ![p] = "idle"]
  /\ dropped' = TRUE
  /\ orphans' = IF stage[p] = "chunk" THEN orphans \cup {cur[p]} ELSE orphans
  /\ Forget(p)
  /\ UNCHANGED <<git, store, golden, unhooked>>

\* The process is killed: its lockfile stays.
Crash(p) ==
  /\ stage[p] # "idle"
  /\ lock' = IF lock = p THEN Abandoned ELSE lock
  /\ Lost(p)

\* An exception inside the with block (a busy database, an unreadable object):
\* the lock is released, and the hook swallows the exit status.
Fail(p) ==
  /\ stage[p] \in Locked
  /\ lock' = IF lock = p THEN Nobody ELSE lock
  /\ Lost(p)

-----------------------------------------------------------------------------

Step(p) ==
  \/ ReadHead(p) \/ Acquire(p) \/ GiveUp(p) \/ LoadIgnore(p) \/ ReadTree(p)
  \/ ReadActive(p) \/ AddBlob(p) \/ AddChunks(p) \/ Deactivate(p)
  \/ Reactivate(p) \/ MapFiles(p) \/ WipeGraph(p) \/ AddSymbols(p)
  \/ AddEdges(p) \/ SetMeta(p) \/ Release(p)

Next ==
  \/ \E s \in IgnoreSets : EditIgnore(s)
  \/ \E c \in Commits : MoveHeadSilently(c)
  \/ BreakStale
  \/ \E p \in Procs : \/ \E c \in Commits : MoveHead(p, c)
                      \/ ManualSync(p) \/ Step(p) \/ Crash(p) \/ Fail(p)

\* A sync that has started is scheduled until it ends.
Fairness == \A p \in Procs : WF_vars(Step(p))

Spec == Init /\ [][Next]_vars /\ Fairness

-----------------------------------------------------------------------------
(* Safety *)

Quiet == \A p \in Procs : stage[p] = "idle"

\* Incremental equals rebuild (README, "The core idea"; sync.py's docstring):
\* between syncs, whatever the history of commits, branch switches, ignore
\* rules, failures and concurrent syncs, the active blobs, the file map and
\* both graph tables are those a sync into a fresh database would build.
IndexIsRebuild ==
  golden # Torn => Index = Rebuild(golden.commit, golden.ignored)

\* The index is built from the commit HEAD names.
AtHead == golden # Torn /\ golden.commit = head

\* The index follows the commands that have a hook: when nothing is running,
\* no sync was lost and HEAD has not moved without a hook since a sync last
\* looked, the index is that of HEAD, although HEAD moves (with or without a
\* hook) while syncs queue for the lock and while one is running.
QuiescentFresh == Quiet /\ ~dropped /\ ~unhooked => AtHead

\* A reader during a sync: a blob in both the old and the new tree is
\* searchable throughout, and a blob in neither never is.
SearchInBounds ==
  \A p \in Procs : stage[p] \in Writing =>
    LET new == Desired(rev[p], skip[p])
    IN  was[p] \cap new \subseteq Active /\ Active \subseteq was[p] \cup new

\* A known blob has its chunks, or is the one whose chunks are being written,
\* or lost them to a failure between add_blob and add_chunks.
ChunksPresent ==
  \A b \in Known : \/ chunks[b] # NoPath
                   \/ b \in orphans
                   \/ \E p \in Procs : cur[p] = b

\* schema.sql: rows are soft-deactivated, "never deleted, so switching back to
\* an old branch is free".  A blob is chunked at most once, ever.
NothingForgotten ==
  [][/\ Known \subseteq Known'
     /\ \A b \in Known : chunks[b] # NoPath => chunks'[b] = chunks[b]]_vars

-----------------------------------------------------------------------------
(* The promise, as a specification of its own *)

Pins == {p \in Procs : stage[p] \in {"active", "unlock"} \cup Writing}

Published == INSTANCE PublishedIndex WITH
  Image  <- [b \in [commit : Commits, ignored : IgnoreSets] |-> Rebuild(b.commit, b.ignored)],
  NoPin  <- Torn,
  index  <- IF golden = Torn THEN Torn ELSE Index,
  pinned <- IF Pins = {} THEN Torn
            ELSE LET p == CHOOSE p \in Pins : TRUE
                 IN  [commit |-> rev[p], ignored |-> skip[p]]

\* What rests in the database between syncs changes only by publishing the
\* image of a commit that HEAD named while the sync that built it ran.
ImplementsPublished == Published!Spec

-----------------------------------------------------------------------------
(* What the documentation says and the code does not keep *)

\* sync.py: "Hooks fire on every history-changing operation, so the index
\* follows checkouts."  reset --hard, update-ref and am fire none of the four.
EveryMoveSynced == Quiet /\ ~dropped => AtHead

\* test_mcp_server.py: index_status reports a last_sync_head equal to HEAD
\* after a sync.  What is recorded was read before the wait for the lock: of
\* two syncs that queued, the older hint may be recorded last, for good.
RecordedHead == Quiet /\ ~dropped /\ ~unhooked => syncedHead = head

\* The same claim for chunks (tests/test_golden.py compares them): a searchable
\* blob has its chunks.  A failure between the two transactions breaks it for
\* good, since has_blob() then skips the blob in every later sync.
ChunksComplete ==
  golden # Torn => \A b \in Active : chunks[b] # NoPath

-----------------------------------------------------------------------------
(* Liveness *)

\* If HEAD comes to rest, moved there or past there by a command with a hook,
\* and no sync is lost after that, the index comes to be that of HEAD, again
\* and again if syncs go on.
IndexFollowsHead ==
  \A c \in Commits :
    <>[](head = c) => []<>(dropped \/ unhooked \/ AtHead)

=============================================================================
