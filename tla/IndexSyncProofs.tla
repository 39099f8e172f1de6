-------------------------- MODULE IndexSyncProofs ---------------------------
(***************************************************************************)
(* What sherpa sync guarantees about the index, for any repository, any    *)
(* number of processes and any number of failures.                         *)
(***************************************************************************)
EXTENDS IndexSync, WellFoundedInduction, TLAPS

-----------------------------------------------------------------------------
(* The pure parts *)

\* A nonempty set of numbered paths or blobs has a first element.
LEMMA LeastIn ==
  ASSUME NEW S, S \subseteq Nat, S # {}
  PROVE  Least(S) \in S
<1>1. PICK x \in S : \A y \in S : ~ (<<y, x>> \in OpToRel(<, Nat))
  <2> HIDE DEF OpToRel
  <2> QED BY WFMin, NatLessThanWellFounded
<1>2. ASSUME NEW y \in S PROVE x <= y
  <2>1. SUFFICES ASSUME y < x PROVE FALSE
    OBVIOUS
  <2>2. <<y, x>> \in OpToRel(<, Nat)
    BY <2>1, Zenon DEF OpToRel
  <2> QED
    BY <2>2, <1>1
<1> QED
  BY <1>2 DEF Least

\* The types of what a sync computes from a commit and the ignore rules.
LEMMA TreeTypes ==
  ASSUME NEW c \in Commits, NEW s \in IgnoreSets
  PROVE  /\ Candidates(c, s) \in [Paths -> Blobs \cup {NoBlob}]
         /\ FileMap(c, s) \in [Paths -> Blobs \cup {NoBlob}]
         /\ Desired(c, s) \subseteq Blobs
         /\ GraphRows(FileMap(c, s)) \subseteq [Paths -> Blobs \cup {NoBlob}]
<1> USE IndexSyncAssumption
<1>1. Candidates(c, s) \in [Paths -> Blobs \cup {NoBlob}]
  BY DEF Candidates
<1>2. FileMap(c, s) \in [Paths -> Blobs \cup {NoBlob}]
  BY <1>1 DEF FileMap
<1>3. Desired(c, s) \subseteq Blobs
  BY <1>1 DEF Desired, BlobsOf
<1> QED
  BY <1>1, <1>2, <1>3 DEF GraphRows

\* A blob a sync wants has a first path, and that path is one of its paths.
LEMMA FirstPathIn ==
  ASSUME NEW c \in Commits, NEW s \in IgnoreSets, NEW b \in Desired(c, s)
  PROVE  FirstPath(c, s, b) \in Paths
<1> DEFINE S == {p \in Paths : Candidates(c, s)[p] = b}
<1>1. S # {}
  BY DEF Desired, BlobsOf
<1>2. S \subseteq Nat
  BY IndexSyncAssumption
<1>3. Least(S) \in S
  <2> HIDE DEF S
  <2> QED BY <1>1, <1>2, LeastIn
<1> QED
  BY <1>3 DEF FirstPath

-----------------------------------------------------------------------------
(* Types *)

\* While the chunks of a blob are written, it is a blob the sync wants.
CurWanted == \A p \in Procs :
  stage[p] = "chunk" => cur[p] \in Desired(rev[p], skip[p])

LEMMA InitTypes == Init => TypeOK /\ CurWanted
<1> SUFFICES ASSUME Init PROVE TypeOK /\ CurWanted
  OBVIOUS
<1> USE IndexSyncAssumption DEF Init
<1>1. golden \in [commit : Commits, ignored : IgnoreSets] /\ 0 \in 0..MaxFailures
  OBVIOUS
<1>2. NoFiles \in [Paths -> Blobs \cup {NoBlob}]
  BY DEF NoFiles
<1>3. /\ stage \in [Procs -> Stages]
      /\ hint \in [Procs -> Commits]
      /\ skip \in [Procs -> IgnoreSets]
      /\ rev \in [Procs -> Commits]
      /\ was \in [Procs -> SUBSET Blobs]
      /\ cur \in [Procs -> Blobs \cup {NoBlob}]
  BY DEF Stages
<1> QED
  BY <1>1, <1>2, <1>3 DEF TypeOK, CurWanted

\* The database part of the sync, action by action.
LEMMA StepTypes ==
  ASSUME TypeOK, CurWanted, NEW p \in Procs, Step(p)
  PROVE  TypeOK' /\ CurWanted'
<1> USE IndexSyncAssumption DEF TypeOK, CurWanted, Stages, Locked, Writing, Goto
<1> USE DEF git, locals, store, history
<1>1. CASE ReadHead(p)
  BY <1>1 DEF ReadHead
<1>2. CASE Acquire(p)
  BY <1>2 DEF Acquire
<1>3. CASE GiveUp(p)
  BY <1>3 DEF GiveUp, Forget
<1>4. CASE LoadIgnore(p)
  BY <1>4 DEF LoadIgnore
<1>5. CASE ReadTree(p)
  <2>1. /\ stage' = [stage EXCEPT ![p] = "active"]
        /\ rev' = [rev EXCEPT ![p] = head]
        /\ skip' = skip /\ cur' = cur /\ dropped' = FALSE /\ unhooked' = FALSE
    BY <1>5 DEF ReadTree
  <2>2. TypeOK'
    <3>1. rev' \in [Procs -> Commits] /\ stage' \in [Procs -> Stages]
      BY <2>1
    <3>2. dropped' \in BOOLEAN /\ unhooked' \in BOOLEAN
      BY <2>1
    <3> HIDE DEF CurWanted, Stages
    <3> QED
      BY <1>5, <3>1, <3>2 DEF ReadTree
  <2>3. ASSUME NEW q \in Procs, stage'[q] = "chunk"
        PROVE  cur'[q] \in Desired(rev'[q], skip'[q])
    BY <2>1, <2>3
  <2>4. CurWanted'
    BY <2>3
  <2> QED
    BY <2>2, <2>4
<1>6. CASE ReadActive(p)
  BY <1>6 DEF ReadActive, Active
<1>7. CASE AddBlob(p)
  <2> DEFINE b == Least(Pending(p))
  <2>1. Desired(rev[p], skip[p]) \subseteq Blobs
    BY TreeTypes
  <2>2. Pending(p) \subseteq Nat /\ Pending(p) # {}
    BY <1>7, <2>1, Zenon DEF AddBlob, Pending
  <2>3. b \in Pending(p)
    BY <2>2, LeastIn
  <2>4. b \in Desired(rev[p], skip[p]) /\ b \in Blobs
    BY <2>1, <2>3 DEF Pending
  <2> HIDE DEF b
  <2>5. /\ stage' = [stage EXCEPT ![p] = "chunk"]
        /\ cur' = [cur EXCEPT ![p] = b]
        /\ blobs' = [blobs EXCEPT ![b] = "active"]
        /\ rev' = rev /\ skip' = skip
    BY <1>7 DEF AddBlob, b
  <2>6. TypeOK'
    BY <1>7, <2>4, <2>5 DEF AddBlob
  <2>7. ASSUME NEW q \in Procs, stage'[q] = "chunk"
        PROVE  cur'[q] \in Desired(rev'[q], skip'[q])
    BY <2>4, <2>5, <2>7
  <2>8. CurWanted'
    BY <2>7
  <2> QED
    BY <2>6, <2>8
<1>8. CASE AddChunks(p)
  <2>1. FirstPath(rev[p], skip[p], cur[p]) \in Paths
    BY <1>8, FirstPathIn DEF AddChunks
  <2>2. /\ stage' = [stage EXCEPT ![p] = "index"]
        /\ cur' = [cur EXCEPT ![p] = NoBlob]
        /\ rev' = rev /\ skip' = skip
    BY <1>8 DEF AddChunks
  <2>3. TypeOK'
    <3>1. chunks' \in [Blobs -> Paths \cup {NoPath}]
      BY <1>8, <2>1 DEF AddChunks
    <3>2. cur' \in [Procs -> Blobs \cup {NoBlob}] /\ stage' \in [Procs -> Stages]
      BY <2>2
    <3> HIDE DEF CurWanted, Stages
    <3> QED
      BY <1>8, <3>1, <3>2 DEF AddChunks
  <2>4. ASSUME NEW q \in Procs, stage'[q] = "chunk"
        PROVE  cur'[q] \in Desired(rev'[q], skip'[q])
    BY <2>2, <2>4
  <2>5. CurWanted'
    BY <2>4
  <2> QED
    BY <2>3, <2>5
<1>9. CASE Deactivate(p)
  BY <1>9 DEF Deactivate, SetActive
<1>10. CASE Reactivate(p)
  BY <1>10 DEF Reactivate, SetActive
<1>11. CASE MapFiles(p)
  BY <1>11, TreeTypes DEF MapFiles
<1>12. CASE WipeGraph(p)
  BY <1>12 DEF WipeGraph
<1>13. CASE AddSymbols(p)
  BY <1>13, TreeTypes DEF AddSymbols
<1>14. CASE AddEdges(p)
  BY <1>14, TreeTypes DEF AddEdges
<1>15. CASE SetMeta(p)
  BY <1>15 DEF SetMeta
<1>16. CASE Release(p)
  BY <1>16 DEF Release, Forget
<1> QED
  BY <1>1, <1>2, <1>3, <1>4, <1>5, <1>6, <1>7, <1>8, <1>9, <1>10,
     <1>11, <1>12, <1>13, <1>14, <1>15, <1>16 DEF Step

LEMMA FailureTypes ==
  ASSUME TypeOK, CurWanted, NEW p \in Procs, Crash(p) \/ Fail(p)
  PROVE  TypeOK' /\ CurWanted'
<1> USE IndexSyncAssumption DEF TypeOK, CurWanted
<1> USE DEF git, store
<1>1. Lost(p) /\ lock' \in Procs \cup {Nobody, Abandoned}
  BY DEF Crash, Fail
<1>2. failures' \in 0..MaxFailures
  BY <1>1 DEF Lost
<1>3. stage[p] = "chunk" => cur[p] \in Blobs
  BY TreeTypes
<1>4. orphans' \subseteq Blobs
  BY <1>1, <1>3, ZenonT(30) DEF Lost
<1>5. stage' \in [Procs -> Stages] /\ stage' = [stage EXCEPT ![p] = "idle"]
  BY <1>1 DEF Lost, Stages
<1>6. /\ hint' \in [Procs -> Commits]
      /\ skip' \in [Procs -> IgnoreSets]
      /\ rev' \in [Procs -> Commits]
      /\ was' \in [Procs -> SUBSET Blobs]
      /\ cur' \in [Procs -> Blobs \cup {NoBlob}]
  BY <1>1 DEF Lost, Forget
<1>7. CurWanted'
  BY <1>1, <1>5 DEF Lost, Forget
<1> QED
  BY <1>1, <1>2, <1>4, <1>5, <1>6, <1>7 DEF Lost

\* Every step of a sync, of git, of the user and every failure keeps the
\* variables in their ranges; the blob being chunked is one the sync wants.
THEOREM IndexSyncTypeCorrect == Spec => [](TypeOK /\ CurWanted)
<1> USE IndexSyncAssumption
<1>1. TypeOK /\ CurWanted /\ [Next]_vars => (TypeOK /\ CurWanted)'
  <2> SUFFICES ASSUME TypeOK, CurWanted, [Next]_vars
               PROVE  TypeOK' /\ CurWanted'
    OBVIOUS
  <2> USE DEF TypeOK, CurWanted, Stages, Locked
  <2> USE DEF git, locals, store, history
  <2>1. ASSUME NEW s \in IgnoreSets, EditIgnore(s) PROVE TypeOK' /\ CurWanted'
    BY <2>1 DEF EditIgnore
  <2>2. CASE BreakStale
    BY <2>2 DEF BreakStale
  <2>3. ASSUME NEW p \in Procs, NEW c \in Commits, MoveHead(p, c)
        PROVE  TypeOK' /\ CurWanted'
    BY <2>3 DEF MoveHead
  <2>4. ASSUME NEW p \in Procs, ManualSync(p) PROVE TypeOK' /\ CurWanted'
    BY <2>4 DEF ManualSync
  <2>5. ASSUME NEW p \in Procs, Step(p) PROVE TypeOK' /\ CurWanted'
    BY <2>5, StepTypes
  <2>6. ASSUME NEW p \in Procs, Crash(p) \/ Fail(p) PROVE TypeOK' /\ CurWanted'
    BY <2>6, FailureTypes
  <2>7. CASE UNCHANGED vars
    BY <2>7 DEF vars
  <2>8. ASSUME NEW c \in Commits, MoveHeadSilently(c) PROVE TypeOK' /\ CurWanted'
    BY <2>8 DEF MoveHeadSilently
  <2> QED
    BY <2>1, <2>2, <2>3, <2>4, <2>5, <2>6, <2>7, <2>8 DEF Next
<1> QED
  BY <1>1, InitTypes, PTL DEF Spec

-----------------------------------------------------------------------------
(* The inductive invariant.  The properties speak of the times between     *)
(* syncs; to carry them through a sync one must say what the database is   *)
(* at each of its stages, and that a single process is at one of them.     *)

\* The stages from acquire() to release() are those of the lock's holder.
LockInv == \A p \in Procs : stage[p] \in Locked <=> lock = p

\* The active blobs at each stage of p's sync.
ActiveInv(p) ==
  LET new == Desired(rev[p], skip[p])
  IN  /\ stage[p] \in {"index", "chunk"} =>
            was[p] \subseteq Active /\ Active \subseteq was[p] \cup new
      /\ stage[p] = "reactivate" =>
            /\ new \subseteq Known
            /\ Active \subseteq new
            /\ was[p] \cap new \subseteq Active
      /\ stage[p] \in {"map", "graph", "symbols", "edges", "meta"} => Active = new

\* The file map and the tables of the graph at each stage of p's sync.
MapInv(p) ==
  LET map == FileMap(rev[p], skip[p])
  IN  /\ stage[p] \in {"graph", "symbols", "edges", "meta"} => files = map
      /\ stage[p] = "symbols" => symbols = {} /\ edges = {}
      /\ stage[p] = "edges" => symbols = GraphRows(map) /\ edges = {}
      /\ stage[p] = "meta" => symbols = GraphRows(map) /\ edges = GraphRows(map)

TornInv == \A p \in Procs : stage[p] \in Writing => golden = Torn

StoreInv ==
  /\ \A p \in Procs : ActiveInv(p) /\ MapInv(p)
  /\ TornInv
  /\ IndexIsRebuild

\* Who will bring the index to HEAD: a sync that has yet to read the tree, or
\* the one that read it and is not done, or nobody, for the index is there.
\* When a sync was lost, or HEAD moved without a hook, it may be nobody.
Built == {p \in Procs : stage[p] \in {"active"} \cup Writing}

FreshInv ==
  ~dropped /\ ~unhooked =>
    \/ \E p \in Procs : stage[p] \in BeforeTree
    \/ \E p \in Built : rev[p] = head
    \/ Built = {} /\ AtHead

\* Blobs and chunks: only the blob at hand is known without its chunks.
ChunkInv ==
  /\ \A p \in Procs : IF stage[p] = "chunk" THEN cur[p] \in Known ELSE cur[p] = NoBlob
  /\ \A p \in Procs : stage[p] = "chunk" => chunks[cur[p]] = NoPath
  /\ \A b \in Blobs \ Known : chunks[b] = NoPath
  /\ ChunksPresent

-----------------------------------------------------------------------------
(* The lock *)

LEMMA LockKept ==
  ASSUME TypeOK, LockInv, [Next]_vars
  PROVE  LockInv'
<1> USE IndexSyncAssumption DEF LockInv, git, locals, store, history
<1>0. /\ stage \in [Procs -> Stages]
      /\ lock \in Procs \cup {Nobody, Abandoned}
  BY DEF TypeOK
<1>1. ASSUME NEW p \in Procs, NEW from \in Stages, NEW to \in Stages,
             Goto(p, from, to), from \in Locked <=> to \in Locked, lock' = lock
      PROVE  LockInv'
  BY <1>0, <1>1 DEF Goto
<1>2. ASSUME NEW s \in IgnoreSets, EditIgnore(s) PROVE LockInv'
  BY <1>2 DEF EditIgnore
<1>3. CASE BreakStale
  BY <1>0, <1>3 DEF BreakStale
<1>4. ASSUME NEW p \in Procs, NEW c \in Commits, MoveHead(p, c) PROVE LockInv'
  BY <1>0, <1>4 DEF MoveHead, Locked, Writing
<1>5. ASSUME NEW p \in Procs, ManualSync(p) PROVE LockInv'
  BY <1>0, <1>5 DEF ManualSync, Locked, Writing
<1>6. ASSUME NEW p \in Procs, Step(p) PROVE LockInv'
  <2> USE <1>0, <1>1 DEF Stages, Locked, Writing
  <2>1. CASE ReadHead(p)
    BY <2>1 DEF ReadHead
  <2>2. CASE Acquire(p)
    BY <2>2 DEF Acquire, Goto
  <2>3. CASE GiveUp(p)
    BY <2>3 DEF GiveUp
  <2>4. CASE LoadIgnore(p)
    BY <2>4 DEF LoadIgnore
  <2>5. CASE ReadTree(p)
    BY <2>5 DEF ReadTree
  <2>6. CASE ReadActive(p)
    BY <2>6 DEF ReadActive
  <2>7. CASE AddBlob(p)
    BY <2>7 DEF AddBlob
  <2>8. CASE AddChunks(p)
    BY <2>8 DEF AddChunks
  <2>9. CASE Deactivate(p)
    BY <2>9 DEF Deactivate
  <2>10. CASE Reactivate(p)
    BY <2>10 DEF Reactivate
  <2>11. CASE MapFiles(p)
    BY <2>11 DEF MapFiles
  <2>12. CASE WipeGraph(p)
    BY <2>12 DEF WipeGraph
  <2>13. CASE AddSymbols(p)
    BY <2>13 DEF AddSymbols
  <2>14. CASE AddEdges(p)
    BY <2>14 DEF AddEdges
  <2>15. CASE SetMeta(p)
    BY <2>15 DEF SetMeta
  <2>16. CASE Release(p)
    <3> HIDE <1>1 DEF LockInv
    <3>1. /\ stage[p] = "unlock" /\ stage' = [stage EXCEPT ![p] = "idle"]
          /\ lock' = Nobody /\ Nobody \notin Procs
      BY <2>16 DEF Release, Goto
    <3>2. \A q \in Procs : q # p => stage[q] \notin Locked
      BY <3>1 DEF LockInv
    <3>3. stage'[p] \notin Locked /\ \A q \in Procs : q # p => stage'[q] = stage[q]
      BY <3>1
    <3> QED BY <3>1, <3>2, <3>3 DEF LockInv
  <2> HIDE <1>0, <1>1 DEF Stages, Locked, Writing, LockInv, git, locals, store, history
  <2> QED
    BY <1>6, <2>1, <2>2, <2>3, <2>4, <2>5, <2>6, <2>7, <2>8, <2>9, <2>10,
       <2>11, <2>12, <2>13, <2>14, <2>15, <2>16 DEF Step
<1>7. ASSUME NEW p \in Procs, Crash(p) \/ Fail(p) PROVE LockInv'
  <2>1. stage' = [stage EXCEPT ![p] = "idle"]
    BY <1>7 DEF Crash, Fail, Lost
  <2>2. lock' = IF lock = p THEN lock' ELSE lock
    BY <1>7 DEF Crash, Fail
  <2>3. lock = p => lock' \in {Nobody, Abandoned}
    BY <1>7 DEF Crash, Fail
  <2> QED
    BY <1>0, <2>1, <2>2, <2>3 DEF Locked, Writing
<1>8. CASE UNCHANGED vars
  BY <1>8 DEF vars
<1>9. ASSUME NEW c \in Commits, MoveHeadSilently(c) PROVE LockInv'
  BY <1>9 DEF MoveHeadSilently
<1> QED
  BY <1>2, <1>3, <1>4, <1>5, <1>6, <1>7, <1>8, <1>9 DEF Next

-----------------------------------------------------------------------------
(* Freshness *)

\* The clause a sync that has yet to read the tree gives.
LEMMA FreshKept ==
  ASSUME TypeOK, LockInv, FreshInv, [Next]_vars
  PROVE  FreshInv'
<1> USE IndexSyncAssumption DEF git, locals, store, history
<1>0. /\ stage \in [Procs -> Stages]
      /\ rev \in [Procs -> Commits]
      /\ lock \in Procs \cup {Nobody, Abandoned}
  BY DEF TypeOK
<1>a. ASSUME NEW p \in Procs, stage' = [stage EXCEPT ![p] = "begin"]
      PROVE  FreshInv'
  BY <1>0, <1>a DEF FreshInv, BeforeTree
<1>b. ASSUME dropped' = TRUE \/ unhooked' = TRUE PROVE FreshInv'
  BY <1>b DEF FreshInv
<1>c. ASSUME NEW p \in Procs, NEW from \in BeforeTree, NEW to \in BeforeTree,
             Goto(p, from, to)
      PROVE  FreshInv'
  BY <1>0, <1>c DEF FreshInv, Goto
<1>d. ASSUME NEW p \in Procs, NEW from \in {"active"} \cup Writing, NEW to \in Writing,
             Goto(p, from, to), head' = head, rev' = rev, dropped' = dropped, unhooked' = unhooked
      PROVE  FreshInv'
  <2>1. Built' = Built /\ p \in Built
    BY <1>0, <1>d DEF Goto, Built
  <2>2. \A q \in Procs : stage[q] \in BeforeTree => stage'[q] \in BeforeTree
    BY <1>0, <1>d DEF Goto, BeforeTree, Writing
  <2> QED
    BY <1>d, <2>1, <2>2 DEF FreshInv
<1>2. ASSUME NEW s \in IgnoreSets, EditIgnore(s) PROVE FreshInv'
  BY <1>2 DEF EditIgnore, FreshInv, AtHead, Built
<1>3. CASE BreakStale
  BY <1>3 DEF BreakStale, FreshInv, AtHead, Built
<1>4. ASSUME NEW p \in Procs, NEW c \in Commits, MoveHead(p, c) PROVE FreshInv'
  BY <1>4, <1>a DEF MoveHead
<1>5. ASSUME NEW p \in Procs, ManualSync(p) PROVE FreshInv'
  BY <1>5, <1>a DEF ManualSync
<1>6. ASSUME NEW p \in Procs, Step(p) PROVE FreshInv'
  <2>1. CASE ReadHead(p)
    BY <2>1, <1>c DEF ReadHead, BeforeTree
  <2>2. CASE Acquire(p)
    BY <2>2, <1>c DEF Acquire, BeforeTree
  <2>3. CASE GiveUp(p)
    BY <2>3, <1>b DEF GiveUp
  <2>4. CASE LoadIgnore(p)
    BY <2>4, <1>c DEF LoadIgnore, BeforeTree
  <2>5. CASE ReadTree(p)
    <3>1. stage'[p] = "active" /\ rev'[p] = head'
      BY <1>0, <2>5 DEF ReadTree, Goto
    <3> QED
      BY <3>1 DEF FreshInv, Built
  <2>6. CASE ReadActive(p)
    <3>1. Built' = Built /\ p \in Built
      BY <1>0, <2>6 DEF ReadActive, Goto, Built, Writing
    <3>2. \A q \in Procs : stage[q] \in BeforeTree => stage'[q] \in BeforeTree
      BY <1>0, <2>6 DEF ReadActive, Goto, BeforeTree
    <3>3. head' = head /\ rev' = rev /\ dropped' = dropped /\ unhooked' = unhooked
      BY <2>6 DEF ReadActive
    <3> QED
      BY <3>1, <3>2, <3>3 DEF FreshInv
  <2>7. CASE AddBlob(p)
    BY <2>7, <1>d DEF AddBlob, Writing
  <2>8. CASE AddChunks(p)
    BY <2>8, <1>d DEF AddChunks, Writing
  <2>9. CASE Deactivate(p)
    BY <2>9, <1>d DEF Deactivate, Writing
  <2>10. CASE Reactivate(p)
    BY <2>10, <1>d DEF Reactivate, Writing
  <2>11. CASE MapFiles(p)
    BY <2>11, <1>d DEF MapFiles, Writing
  <2>12. CASE WipeGraph(p)
    BY <2>12, <1>d DEF WipeGraph, Writing
  <2>13. CASE AddSymbols(p)
    BY <2>13, <1>d DEF AddSymbols, Writing
  <2>14. CASE AddEdges(p)
    BY <2>14, <1>d DEF AddEdges, Writing
  <2>15. CASE SetMeta(p)
    <3>1. stage[p] = "meta" /\ stage' = [stage EXCEPT ![p] = "unlock"]
      BY <2>15 DEF SetMeta, Goto
    <3>2. Built = {p} /\ Built' = {}
      BY <1>0, <3>1 DEF Built, LockInv, Locked, Writing
    <3>3. \A q \in Procs : stage[q] \in BeforeTree => stage'[q] \in BeforeTree
      BY <1>0, <3>1 DEF BeforeTree
    <3>4. /\ head' = head /\ dropped' = dropped /\ unhooked' = unhooked
          /\ golden' = [commit |-> rev[p], ignored |-> skip[p]]
      BY <2>15 DEF SetMeta
    <3>5. golden' # Torn /\ golden'.commit = rev[p]
      BY <3>4 DEF TypeOK
    <3> QED
      BY <3>2, <3>3, <3>4, <3>5 DEF FreshInv, AtHead
  <2>16. CASE Release(p)
    <3>1. stage[p] = "unlock" /\ stage' = [stage EXCEPT ![p] = "idle"]
      BY <2>16 DEF Release, Goto
    <3>2. Built = {} /\ Built' = {}
      BY <1>0, <3>1 DEF Built, LockInv, Locked, Writing
    <3>3. \A q \in Procs : stage[q] \in BeforeTree => stage'[q] \in BeforeTree
      BY <1>0, <3>1 DEF BeforeTree
    <3>4. head' = head /\ dropped' = dropped /\ unhooked' = unhooked /\ golden' = golden
      BY <2>16 DEF Release
    <3> QED
      BY <3>2, <3>3, <3>4 DEF FreshInv, AtHead
  <2> QED
    BY <1>6, <2>1, <2>2, <2>3, <2>4, <2>5, <2>6, <2>7, <2>8, <2>9, <2>10,
       <2>11, <2>12, <2>13, <2>14, <2>15, <2>16 DEF Step
<1>7. ASSUME NEW p \in Procs, Crash(p) \/ Fail(p) PROVE FreshInv'
  BY <1>7, <1>b DEF Crash, Fail, Lost
<1>8. CASE UNCHANGED vars
  BY <1>8 DEF vars, FreshInv, AtHead, Built
<1>9. ASSUME NEW c \in Commits, MoveHeadSilently(c) PROVE FreshInv'
  BY <1>9, <1>b DEF MoveHeadSilently
<1> QED
  BY <1>2, <1>3, <1>4, <1>5, <1>6, <1>7, <1>8, <1>9 DEF Next

\* The index follows HEAD as far as hooks do: with nothing running, no sync
\* lost and HEAD not moved without a hook since a sync last looked, it is the
\* index of the commit HEAD names.
THEOREM IndexSyncQuiescentFresh == Spec => []QuiescentFresh
<1>1. Init => LockInv /\ FreshInv
  <2> SUFFICES ASSUME Init PROVE LockInv /\ FreshInv
    OBVIOUS
  <2> USE IndexSyncAssumption
  <2>1. \A p \in Procs : stage[p] = "idle"
    BY DEF Init
  <2>2. LockInv
    BY <2>1 DEF Init, LockInv, Locked, Writing
  <2>3. Built = {}
    BY <2>1 DEF Built, Writing
  <2>4. /\ golden = [commit |-> Unborn, ignored |-> {}]
        /\ golden \in [commit : Commits, ignored : IgnoreSets]
        /\ head = Unborn
    BY DEF Init
  <2>5. golden # Torn /\ golden.commit = head
    BY <2>4
  <2> QED
    BY <2>2, <2>3, <2>5 DEF FreshInv, AtHead
<1>2. TypeOK /\ LockInv /\ FreshInv /\ [Next]_vars => (LockInv /\ FreshInv)'
  BY LockKept, FreshKept
<1>3. FreshInv => QuiescentFresh
  BY DEF FreshInv, QuiescentFresh, Quiet, Built, BeforeTree, Writing, AtHead
<1> QED
  BY <1>1, <1>2, <1>3, IndexSyncTypeCorrect, PTL DEF Spec

-----------------------------------------------------------------------------
(* The contents of the index *)

\* A step that leaves the database alone, and every writer where it is.
LEMMA StoreFrame ==
  ASSUME StoreInv, UNCHANGED <<blobs, files, symbols, edges, golden>>,
         \A q \in Procs : stage'[q] \in Writing =>
           /\ stage'[q] = stage[q]
           /\ rev'[q] = rev[q] /\ skip'[q] = skip[q] /\ was'[q] = was[q]
  PROVE  StoreInv'
<1>1. Active' = Active /\ Known' = Known
  BY DEF Active, Known
<1>2. ASSUME NEW q \in Procs PROVE ActiveInv(q)' /\ MapInv(q)'
  <2>1. CASE stage'[q] \in Writing
    <3>1. /\ stage'[q] = stage[q]
          /\ Desired(rev'[q], skip'[q]) = Desired(rev[q], skip[q])
          /\ FileMap(rev'[q], skip'[q]) = FileMap(rev[q], skip[q])
          /\ was'[q] = was[q]
      BY <2>1
    <3>2. ActiveInv(q) /\ MapInv(q)
      BY DEF StoreInv
    <3>3. ActiveInv(q)'
      BY <1>1, <3>1, <3>2 DEF ActiveInv
    <3>4. MapInv(q)'
      BY <3>1, <3>2 DEF MapInv
    <3> QED
      BY <3>3, <3>4
  <2>2. CASE stage'[q] \notin Writing
    BY <2>2 DEF ActiveInv, MapInv, Writing
  <2> QED
    BY <2>1, <2>2
<1>3. TornInv'
  BY DEF StoreInv, TornInv
<1>4. IndexIsRebuild'
  BY <1>1 DEF StoreInv, IndexIsRebuild, Index
<1> QED
  BY <1>2, <1>3, <1>4 DEF StoreInv

\* While one process is past acquire(), no other writes.
LEMMA Alone ==
  ASSUME TypeOK, LockInv, NEW p \in Procs, stage[p] \in Locked,
         NEW to, stage' = [stage EXCEPT ![p] = to]
  PROVE  /\ stage'[p] = to
         /\ \A q \in Procs \ {p} : stage'[q] \notin Writing
  BY DEF TypeOK, LockInv, Locked

\* A step of the writer has to answer for the writer's stage only.
LEMMA WriterStep ==
  ASSUME TypeOK, LockInv, NEW p \in Procs, stage[p] \in Locked,
         NEW to, stage' = [stage EXCEPT ![p] = to], golden' = Torn,
         ActiveInv(p)', MapInv(p)'
  PROVE  StoreInv'
<1>1. \A q \in Procs \ {p} : stage'[q] \notin Writing
  BY Alone
<1>2. ASSUME NEW q \in Procs PROVE ActiveInv(q)' /\ MapInv(q)'
  <2>1. CASE q = p
    BY <2>1
  <2>2. CASE q # p
    BY <1>1, <2>2 DEF ActiveInv, MapInv, Writing
  <2> QED
    BY <2>1, <2>2
<1> QED
  BY <1>2 DEF StoreInv, TornInv, IndexIsRebuild

LEMMA StepKeepsStore ==
  ASSUME TypeOK, LockInv, StoreInv, NEW p \in Procs, Step(p)
  PROVE  StoreInv'
<1> USE IndexSyncAssumption DEF git, locals, store, history
<1> DEFINE new == Desired(rev[p], skip[p])
           map == FileMap(rev[p], skip[p])
<1>0. /\ stage \in [Procs -> Stages]
      /\ blobs \in [Blobs -> {"absent", "inactive", "active"}]
      /\ new \subseteq Blobs
      /\ ActiveInv(p) /\ MapInv(p)
      /\ stage[p] \in Writing => golden = Torn
  BY TreeTypes DEF TypeOK, StoreInv, TornInv
\* Steps before the first write, and after the last.
<1>1. ASSUME NEW from, NEW to, Goto(p, from, to), to \notin Writing,
             UNCHANGED <<store, golden>>,
             \A q \in Procs \ {p} :
               rev'[q] = rev[q] /\ skip'[q] = skip[q] /\ was'[q] = was[q]
      PROVE  StoreInv'
  <2>1. \A q \in Procs \ {p} : stage'[q] = stage[q]
    BY <1>0, <1>1 DEF Goto
  <2>2. stage'[p] = to
    BY <1>0, <1>1 DEF Goto
  <2>3. UNCHANGED <<blobs, files, symbols, edges, golden>>
    BY <1>1
  <2>4. \A q \in Procs : stage'[q] \in Writing =>
           /\ stage'[q] = stage[q]
           /\ rev'[q] = rev[q] /\ skip'[q] = skip[q] /\ was'[q] = was[q]
    BY <1>1, <2>1, <2>2
  <2> QED
    BY <2>3, <2>4, StoreFrame
\* Steps of the writer.
<1>2. ASSUME NEW from \in Writing, NEW to, Goto(p, from, to), golden' = golden,
             ActiveInv(p)', MapInv(p)'
      PROVE  StoreInv'
  BY <1>0, <1>2, WriterStep DEF Goto, Locked
<1>3. CASE ReadHead(p)
  BY <1>1, <1>3 DEF ReadHead, Writing
<1>4. CASE Acquire(p)
  BY <1>1, <1>4 DEF Acquire, Writing
<1>5. CASE GiveUp(p)
  <2>1. TypeOK
    OBVIOUS
  <2> QED
    BY <1>1, <1>5, <2>1 DEF GiveUp, Forget, Writing, TypeOK
<1>6. CASE LoadIgnore(p)
  BY <1>1, <1>6 DEF LoadIgnore, Writing, TypeOK
<1>7. CASE ReadTree(p)
  BY <1>1, <1>7 DEF ReadTree, Writing, TypeOK
<1>8. CASE ReadActive(p)
  <2>1. /\ stage[p] = "active" /\ stage' = [stage EXCEPT ![p] = "index"]
        /\ was'[p] = Active /\ blobs' = blobs /\ golden' = Torn
    BY <1>8 DEF ReadActive, Goto, TypeOK
  <2>2. stage'[p] = "index" /\ Active' = Active
    BY <1>0, <2>1 DEF Active
  <2>3. ActiveInv(p)' /\ MapInv(p)'
    BY <2>1, <2>2 DEF ActiveInv, MapInv
  <2> QED
    BY <2>1, <2>3, WriterStep DEF Locked
<1>9. CASE AddBlob(p)
  <2> DEFINE b == Least(Pending(p))
  <2>1. Pending(p) \subseteq Nat /\ Pending(p) # {}
    BY <1>0, <1>9 DEF AddBlob, Pending
  <2>2. b \in Pending(p)
    BY <2>1, LeastIn
  <2>3. b \in new
    BY <2>2 DEF Pending
  <2> HIDE DEF b
  <2>4. /\ stage[p] = "index" /\ stage' = [stage EXCEPT ![p] = "chunk"]
        /\ blobs' = [blobs EXCEPT ![b] = "active"]
        /\ rev' = rev /\ skip' = skip /\ was' = was
    BY <1>9 DEF AddBlob, Goto, TypeOK, b
  <2>5. stage'[p] = "chunk" /\ Active' = Active \cup {b}
    BY <1>0, <2>3, <2>4 DEF Active
  <2>6. was[p] \subseteq Active /\ Active \subseteq was[p] \cup new
    BY <1>0, <2>4 DEF ActiveInv
  <2>7. was'[p] \subseteq Active' /\ Active' \subseteq was'[p] \cup new
    BY <2>3, <2>4, <2>5, <2>6
  <2>8. ActiveInv(p)' /\ MapInv(p)'
    BY <2>4, <2>5, <2>7 DEF ActiveInv, MapInv
  <2> QED
    BY <1>2, <1>9, <2>8 DEF AddBlob, Writing
<1>10. CASE AddChunks(p)
  <2>1. /\ stage[p] = "chunk" /\ stage' = [stage EXCEPT ![p] = "index"]
        /\ blobs' = blobs /\ rev' = rev /\ skip' = skip /\ was' = was
    BY <1>10 DEF AddChunks, Goto
  <2>2. stage'[p] = "index" /\ Active' = Active
    BY <1>0, <2>1 DEF Active
  <2>3. ActiveInv(p)' /\ MapInv(p)'
    BY <1>0, <2>1, <2>2 DEF ActiveInv, MapInv
  <2> QED
    BY <1>2, <1>10, <2>3 DEF AddChunks, Writing
<1>11. CASE Deactivate(p)
  <2>1. /\ stage[p] = "index" /\ stage' = [stage EXCEPT ![p] = "reactivate"]
        /\ new \subseteq Known
        /\ blobs' = [b \in Blobs |-> IF b \in was[p] \ new /\ b \in Known
                                     THEN "inactive" ELSE blobs[b]]
        /\ rev' = rev /\ skip' = skip /\ was' = was
    BY <1>11 DEF Deactivate, Goto, SetActive, Pending
  <2>2. Known' = Known /\ Active' = Active \ (was[p] \ new)
    BY <1>0, <2>1 DEF Known, Active
  <2>3. stage'[p] = "reactivate"
    BY <1>0, <2>1
  <2>4. was[p] \subseteq Active /\ Active \subseteq was[p] \cup new
    BY <1>0, <2>1 DEF ActiveInv
  <2>5. new \subseteq Known' /\ Active' \subseteq new /\ was[p] \cap new \subseteq Active'
    BY <2>1, <2>2, <2>4
  <2>6. ActiveInv(p)' /\ MapInv(p)'
    BY <2>1, <2>3, <2>5 DEF ActiveInv, MapInv
  <2> QED
    BY <1>2, <1>11, <2>6 DEF Deactivate, Writing
<1>12. CASE Reactivate(p)
  <2>1. /\ stage[p] = "reactivate" /\ stage' = [stage EXCEPT ![p] = "map"]
        /\ blobs' = [b \in Blobs |-> IF b \in new \ was[p] /\ b \in Known
                                     THEN "active" ELSE blobs[b]]
        /\ rev' = rev /\ skip' = skip /\ was' = was
    BY <1>12 DEF Reactivate, Goto, SetActive
  <2>2. new \subseteq Known /\ Active \subseteq new /\ was[p] \cap new \subseteq Active
    BY <1>0, <2>1 DEF ActiveInv
  <2>3. Active' = Active \cup (new \ was[p])
    BY <1>0, <2>1, <2>2 DEF Active
  <2>4. stage'[p] = "map" /\ Active' = new
    BY <1>0, <2>1, <2>2, <2>3
  <2>5. ActiveInv(p)' /\ MapInv(p)'
    BY <2>1, <2>4 DEF ActiveInv, MapInv
  <2> QED
    BY <1>2, <1>12, <2>5 DEF Reactivate, Writing
<1>13. CASE MapFiles(p)
  <2>1. /\ stage[p] = "map" /\ stage' = [stage EXCEPT ![p] = "graph"]
        /\ files' = map
        /\ blobs' = blobs /\ rev' = rev /\ skip' = skip
    BY <1>13 DEF MapFiles, Goto
  <2>2. stage'[p] = "graph" /\ Active' = Active
    BY <1>0, <2>1 DEF Active
  <2>3. ActiveInv(p)' /\ MapInv(p)'
    BY <1>0, <2>1, <2>2 DEF ActiveInv, MapInv
  <2> QED
    BY <1>2, <1>13, <2>3 DEF MapFiles, Writing
<1>14. CASE WipeGraph(p)
  <2>1. /\ stage[p] = "graph" /\ stage' = [stage EXCEPT ![p] = "symbols"]
        /\ symbols' = {} /\ edges' = {}
        /\ files' = files /\ blobs' = blobs /\ rev' = rev /\ skip' = skip
    BY <1>14 DEF WipeGraph, Goto
  <2>2. stage'[p] = "symbols" /\ Active' = Active
    BY <1>0, <2>1 DEF Active
  <2>3. ActiveInv(p)' /\ MapInv(p)'
    BY <1>0, <2>1, <2>2 DEF ActiveInv, MapInv
  <2> QED
    BY <1>2, <1>14, <2>3 DEF WipeGraph, Writing
<1>15. CASE AddSymbols(p)
  <2>1. /\ stage[p] = "symbols" /\ stage' = [stage EXCEPT ![p] = "edges"]
        /\ symbols' = symbols \cup GraphRows(map) /\ edges' = edges
        /\ files' = files /\ blobs' = blobs /\ rev' = rev /\ skip' = skip
    BY <1>15 DEF AddSymbols, Goto
  <2>2. stage'[p] = "edges" /\ Active' = Active
    BY <1>0, <2>1 DEF Active
  <2>3. ActiveInv(p)' /\ MapInv(p)'
    BY <1>0, <2>1, <2>2 DEF ActiveInv, MapInv
  <2> QED
    BY <1>2, <1>15, <2>3 DEF AddSymbols, Writing
<1>16. CASE AddEdges(p)
  <2>1. /\ stage[p] = "edges" /\ stage' = [stage EXCEPT ![p] = "meta"]
        /\ edges' = edges \cup GraphRows(map) /\ symbols' = symbols
        /\ files' = files /\ blobs' = blobs /\ rev' = rev /\ skip' = skip
    BY <1>16 DEF AddEdges, Goto
  <2>2. stage'[p] = "meta" /\ Active' = Active
    BY <1>0, <2>1 DEF Active
  <2>3. ActiveInv(p)' /\ MapInv(p)'
    BY <1>0, <2>1, <2>2 DEF ActiveInv, MapInv
  <2> QED
    BY <1>2, <1>16, <2>3 DEF AddEdges, Writing
<1>17. CASE SetMeta(p)
  <2>1. /\ stage[p] = "meta" /\ stage' = [stage EXCEPT ![p] = "unlock"]
        /\ golden' = [commit |-> rev[p], ignored |-> skip[p]]
        /\ UNCHANGED <<blobs, files, symbols, edges>>
    BY <1>17 DEF SetMeta, Goto
  <2>a. /\ stage'[p] = "unlock"
        /\ \A q \in Procs \ {p} : stage'[q] \notin Writing
    <3>1. stage[p] \in Locked
      BY <2>1 DEF Locked, Writing
    <3> QED
      BY <2>1, <3>1, Alone
  <2>2. \A q \in Procs : stage'[q] \notin Writing
    BY <2>a DEF Writing
  <2>3. Active = new /\ files = map /\ symbols = GraphRows(map) /\ edges = GraphRows(map)
    BY <1>0, <2>1 DEF ActiveInv, MapInv
  <2>4. Active' = Active
    BY <2>1 DEF Active
  <2>5. IndexIsRebuild'
    BY <2>1, <2>3, <2>4 DEF IndexIsRebuild, Index, Rebuild
  <2> QED
    BY <2>2, <2>5 DEF StoreInv, ActiveInv, MapInv, TornInv, Writing
<1>18. CASE Release(p)
  BY <1>1, <1>18 DEF Release, Forget, Writing, TypeOK
<1> QED
  BY <1>3, <1>4, <1>5, <1>6, <1>7, <1>8, <1>9, <1>10, <1>11, <1>12,
     <1>13, <1>14, <1>15, <1>16, <1>17, <1>18 DEF Step

LEMMA StoreKept ==
  ASSUME TypeOK, LockInv, StoreInv, [Next]_vars
  PROVE  StoreInv'
<1> USE IndexSyncAssumption DEF git, locals, store, history
<1>0. stage \in [Procs -> Stages]
  BY DEF TypeOK
<1>1. ASSUME NEW s \in IgnoreSets, EditIgnore(s) PROVE StoreInv'
  BY <1>1, StoreFrame DEF EditIgnore
<1>2. CASE BreakStale
  BY <1>2, StoreFrame DEF BreakStale
<1>3. ASSUME NEW p \in Procs, NEW c \in Commits, MoveHead(p, c) PROVE StoreInv'
  <2>1. \A q \in Procs : stage'[q] \in Writing => stage'[q] = stage[q]
    BY <1>0, <1>3 DEF MoveHead, Writing
  <2> QED
    BY <1>3, <2>1, StoreFrame DEF MoveHead
<1>4. ASSUME NEW p \in Procs, ManualSync(p) PROVE StoreInv'
  <2>1. \A q \in Procs : stage'[q] \in Writing => stage'[q] = stage[q]
    BY <1>0, <1>4 DEF ManualSync, Writing
  <2> QED
    BY <1>4, <2>1, StoreFrame DEF ManualSync
<1>5. ASSUME NEW p \in Procs, Step(p) PROVE StoreInv'
  BY <1>5, StepKeepsStore
<1>6. ASSUME NEW p \in Procs, Crash(p) \/ Fail(p) PROVE StoreInv'
  <2>1. /\ stage' = [stage EXCEPT ![p] = "idle"]
        /\ UNCHANGED <<store, golden>>
        /\ Forget(p)
    BY <1>6 DEF Crash, Fail, Lost
  <2>2. \A q \in Procs : stage'[q] \in Writing => q # p /\ stage'[q] = stage[q]
    BY <1>0, <2>1 DEF Writing
  <2>3. \A q \in Procs \ {p} :
          rev'[q] = rev[q] /\ skip'[q] = skip[q] /\ was'[q] = was[q]
    BY <2>1 DEF Forget, TypeOK
  <2>4. UNCHANGED <<blobs, files, symbols, edges, golden>>
    BY <2>1
  <2>5. \A q \in Procs : stage'[q] \in Writing =>
           /\ stage'[q] = stage[q]
           /\ rev'[q] = rev[q] /\ skip'[q] = skip[q] /\ was'[q] = was[q]
    BY <2>2, <2>3
  <2> QED
    BY <2>4, <2>5, StoreFrame
<1>7. CASE UNCHANGED vars
  BY <1>7, StoreFrame DEF vars
<1>8. ASSUME NEW c \in Commits, MoveHeadSilently(c) PROVE StoreInv'
  BY <1>8, StoreFrame DEF MoveHeadSilently
<1> QED
  BY <1>1, <1>2, <1>3, <1>4, <1>5, <1>6, <1>7, <1>8 DEF Next

LEMMA InitStore == Init => LockInv /\ StoreInv
<1> SUFFICES ASSUME Init PROVE LockInv /\ StoreInv
  OBVIOUS
<1> USE IndexSyncAssumption
<1>1. \A p \in Procs : stage[p] = "idle"
  BY DEF Init
<1>2. LockInv
  BY <1>1 DEF Init, LockInv, Locked, Writing
<1>3. /\ golden = [commit |-> Unborn, ignored |-> {}]
      /\ files = NoFiles /\ symbols = {} /\ edges = {}
      /\ Active = {}
  BY DEF Init, Active
<1>4. Candidates(Unborn, {}) = NoFiles
  BY DEF Candidates, NoFiles
<1>5. FileMap(Unborn, {}) = NoFiles /\ Desired(Unborn, {}) = {}
  BY <1>4 DEF FileMap, Desired, BlobsOf, NoFiles
<1>6. GraphRows(NoFiles) = {}
  BY DEF GraphRows
<1>7. IndexIsRebuild
  BY <1>3, <1>5, <1>6 DEF IndexIsRebuild, Index, Rebuild
<1> QED
  BY <1>1, <1>2, <1>7 DEF StoreInv, TornInv, ActiveInv, MapInv, Writing

\* Incremental equals rebuild: between syncs the active blobs, the file map
\* and the graph are those a sync into a fresh database would build, whatever
\* commits, ignore rules, failures and concurrent syncs came before.
THEOREM IndexSyncIsRebuild == Spec => []IndexIsRebuild
<1>1. TypeOK /\ LockInv /\ StoreInv /\ [Next]_vars => (LockInv /\ StoreInv)'
  BY LockKept, StoreKept
<1>2. StoreInv => IndexIsRebuild
  BY DEF StoreInv
<1> QED
  BY <1>1, <1>2, InitStore, IndexSyncTypeCorrect, PTL DEF Spec

\* A reader during a sync finds every blob that is in both trees and none
\* that is in neither.
THEOREM IndexSyncSearchInBounds == Spec => []SearchInBounds
<1>1. TypeOK /\ LockInv /\ StoreInv /\ [Next]_vars => (LockInv /\ StoreInv)'
  BY LockKept, StoreKept
<1>2. StoreInv => SearchInBounds
  <2> SUFFICES ASSUME StoreInv, NEW p \in Procs, stage[p] \in Writing
               PROVE  LET new == Desired(rev[p], skip[p])
                      IN  was[p] \cap new \subseteq Active /\ Active \subseteq was[p] \cup new
    BY DEF SearchInBounds
  <2>1. ActiveInv(p)
    BY DEF StoreInv
  <2> QED
    BY <2>1 DEF ActiveInv, Writing
<1> QED
  BY <1>1, <1>2, InitStore, IndexSyncTypeCorrect, PTL DEF Spec

-----------------------------------------------------------------------------
(* Blobs and their chunks *)

\* What NothingForgotten asks of a step.
Kept == /\ Known \subseteq Known'
        /\ \A b \in Known : chunks[b] # NoPath => chunks'[b] = chunks[b]

LEMMA ChunkFrame ==
  ASSUME ChunkInv, Known' = Known, chunks' = chunks, orphans' = orphans,
         \A q \in Procs : /\ cur'[q] = cur[q]
                          /\ stage'[q] = "chunk" <=> stage[q] = "chunk"
  PROVE  ChunkInv' /\ Kept
<1>1. Kept
  BY DEF Kept
<1>2. ChunksPresent'
  BY DEF ChunkInv, ChunksPresent
<1>3. \A q \in Procs :
        /\ IF stage'[q] = "chunk" THEN cur'[q] \in Known' ELSE cur'[q] = NoBlob
        /\ stage'[q] = "chunk" => chunks'[cur'[q]] = NoPath
  BY DEF ChunkInv
<1>4. \A b \in Blobs \ Known' : chunks'[b] = NoPath
  BY DEF ChunkInv
<1> QED
  BY <1>1, <1>2, <1>3, <1>4 DEF ChunkInv

LEMMA ChunkKept ==
  ASSUME TypeOK, CurWanted, LockInv, ChunkInv, [Next]_vars
  PROVE  ChunkInv' /\ Kept
<1> USE IndexSyncAssumption DEF git, locals, store, history
<1>0. /\ stage \in [Procs -> Stages]
      /\ blobs \in [Blobs -> {"absent", "inactive", "active"}]
      /\ chunks \in [Blobs -> Paths \cup {NoPath}]
      /\ cur \in [Procs -> Blobs \cup {NoBlob}]
      /\ lock \in Procs \cup {Nobody, Abandoned}
  BY DEF TypeOK
\* Steps that leave blobs, chunks and the blob at hand alone.
<1>1. ASSUME NEW p \in Procs, stage[p] # "chunk",
             NEW to \in Stages \ {"chunk"}, stage' = [stage EXCEPT ![p] = to],
             UNCHANGED <<blobs, chunks, orphans>>,
             cur' = cur \/ cur' = [cur EXCEPT ![p] = NoBlob]
      PROVE  ChunkInv' /\ Kept
  <2>1. \A q \in Procs : stage'[q] = "chunk" <=> stage[q] = "chunk"
    BY <1>0, <1>1
  <2>2. cur[p] = NoBlob
    BY <1>1 DEF ChunkInv
  <2>3. \A q \in Procs : cur'[q] = cur[q]
    BY <1>0, <1>1, <2>2
  <2>4. Known' = Known
    BY <1>1 DEF Known
  <2> QED
    BY <1>1, <2>1, <2>3, <2>4, ChunkFrame
\* Steps that switch blobs on and off.
<1>2. ASSUME NEW p \in Procs, NEW from \in Stages \ {"chunk"},
             NEW to \in Stages \ {"chunk"}, Goto(p, from, to),
             NEW bs, NEW value \in {"inactive", "active"}, SetActive(bs, value),
             UNCHANGED <<chunks, orphans, cur>>
      PROVE  ChunkInv' /\ Kept
  <2>1. \A q \in Procs : stage'[q] = "chunk" <=> stage[q] = "chunk"
    BY <1>0, <1>2 DEF Goto
  <2>2. Known' = Known
    BY <1>0, <1>2 DEF Known, SetActive
  <2> QED
    BY <1>2, <2>1, <2>2, ChunkFrame
<1>3. ASSUME UNCHANGED <<stage, cur, blobs, chunks, orphans>>
      PROVE  ChunkInv' /\ Kept
  BY <1>3, ChunkFrame DEF Known
<1>4. ASSUME NEW p \in Procs, Step(p) PROVE ChunkInv' /\ Kept
  <2> USE <1>1 DEF Goto, Stages, Locked, Writing
  <2>1. CASE ReadHead(p)
    BY <2>1 DEF ReadHead
  <2>2. CASE Acquire(p)
    BY <2>2 DEF Acquire
  <2>3. CASE GiveUp(p)
    BY <2>3 DEF GiveUp, Forget
  <2>4. CASE LoadIgnore(p)
    BY <2>4 DEF LoadIgnore
  <2>5. CASE ReadTree(p)
    BY <2>5 DEF ReadTree
  <2>6. CASE ReadActive(p)
    BY <2>6 DEF ReadActive
  <2>7. CASE AddBlob(p)
    <3> DEFINE b == Least(Pending(p))
    <3>1. Pending(p) \subseteq Blobs \ Known /\ Pending(p) # {}
      <4>1. Desired(rev[p], skip[p]) \subseteq Blobs
        BY TreeTypes DEF TypeOK
      <4> QED
        BY <2>7, <4>1 DEF AddBlob, Pending
    <3>2. b \in Blobs \ Known
      BY <3>1, LeastIn
    <3> HIDE DEF b
    <3>3. /\ stage[p] = "index" /\ stage' = [stage EXCEPT ![p] = "chunk"]
          /\ cur' = [cur EXCEPT ![p] = b]
          /\ blobs' = [blobs EXCEPT ![b] = "active"]
          /\ chunks' = chunks /\ orphans' = orphans
      BY <1>0, <2>7 DEF AddBlob, b
    <3>4. Known' = Known \cup {b}
      BY <1>0, <3>2, <3>3 DEF Known
    <3>5. cur[p] = NoBlob
      BY <3>3 DEF ChunkInv
    <3>6. \A q \in Procs \ {p} : stage'[q] # "chunk" /\ stage'[q] = stage[q]
      BY <1>0, <3>3 DEF LockInv
    <3>7. \A q \in Procs :
            /\ IF stage'[q] = "chunk" THEN cur'[q] \in Known' ELSE cur'[q] = NoBlob
            /\ stage'[q] = "chunk" => chunks'[cur'[q]] = NoPath
      <4>1. stage'[p] = "chunk" /\ cur'[p] = b
        BY <1>0, <3>3
      <4>2. \A q \in Procs \ {p} : cur'[q] = cur[q] /\ cur[q] = NoBlob
        BY <1>0, <3>3, <3>6 DEF ChunkInv
      <4> QED
        BY <3>2, <3>3, <3>4, <3>6, <4>1, <4>2 DEF ChunkInv
    <3>8. ChunksPresent'
      <4>1. \A q \in Procs \ {p} : cur'[q] = cur[q]
        BY <1>0, <3>3
      <4>2. cur'[p] = b
        BY <1>0, <3>3
      <4>3. NoBlob \notin Known
        BY DEF Known
      <4> QED
        BY <3>3, <3>4, <3>5, <4>1, <4>2, <4>3 DEF ChunkInv, ChunksPresent
    <3>9. \A c \in Blobs \ Known' : chunks'[c] = NoPath
      BY <3>3, <3>4 DEF ChunkInv
    <3> QED
      BY <3>3, <3>4, <3>7, <3>8, <3>9 DEF ChunkInv, Kept
  <2>8. CASE AddChunks(p)
    <3> DEFINE path == FirstPath(rev[p], skip[p], cur[p])
    <3>1. /\ stage[p] = "chunk" /\ stage' = [stage EXCEPT ![p] = "index"]
          /\ cur' = [cur EXCEPT ![p] = NoBlob]
          /\ chunks' = [chunks EXCEPT ![cur[p]] = path]
          /\ blobs' = blobs /\ orphans' = orphans
      BY <2>8 DEF AddChunks
    <3>2. path \in Paths
      BY <3>1, FirstPathIn DEF CurWanted, TypeOK
    <3> HIDE DEF path
    <3>3. /\ cur[p] \in Known /\ cur[p] \in Blobs /\ chunks[cur[p]] = NoPath
      BY <3>1 DEF ChunkInv, Known
    <3>4. Known' = Known
      BY <3>1 DEF Known
    <3>5. \A q \in Procs \ {p} :
            stage'[q] # "chunk" /\ stage'[q] = stage[q] /\ cur'[q] = cur[q]
      BY <1>0, <3>1 DEF LockInv
    <3>6. stage'[p] # "chunk" /\ cur'[p] = NoBlob
      BY <1>0, <3>1
    <3>7. /\ chunks'[cur[p]] = path /\ path # NoPath
          /\ \A b \in Blobs \ {cur[p]} : chunks'[b] = chunks[b]
      BY <1>0, <3>1, <3>2, <3>3
    <3>8. ChunksPresent'
      <4>1. Known \subseteq Blobs
        BY DEF Known
      <4> QED
        BY <3>1, <3>4, <3>5, <3>7, <4>1 DEF ChunkInv, ChunksPresent
    <3>9. \A b \in Blobs \ Known' : chunks'[b] = NoPath
      BY <3>3, <3>4, <3>7 DEF ChunkInv
    <3>10. Kept
      BY <3>3, <3>4, <3>7 DEF Kept, Known
    <3>11. \A q \in Procs : stage'[q] # "chunk" /\ cur'[q] = NoBlob
      BY <3>5, <3>6 DEF ChunkInv
    <3> QED
      BY <3>8, <3>9, <3>10, <3>11 DEF ChunkInv
  <2>9. CASE Deactivate(p)
    BY <1>2, <2>9 DEF Deactivate
  <2>10. CASE Reactivate(p)
    BY <1>2, <2>10 DEF Reactivate
  <2>11. CASE MapFiles(p)
    BY <2>11 DEF MapFiles
  <2>12. CASE WipeGraph(p)
    BY <2>12 DEF WipeGraph
  <2>13. CASE AddSymbols(p)
    BY <2>13 DEF AddSymbols
  <2>14. CASE AddEdges(p)
    BY <2>14 DEF AddEdges
  <2>15. CASE SetMeta(p)
    BY <2>15 DEF SetMeta
  <2>16. CASE Release(p)
    BY <2>16 DEF Release, Forget
  <2> QED
    BY <1>4, <2>1, <2>2, <2>3, <2>4, <2>5, <2>6, <2>7, <2>8, <2>9, <2>10,
       <2>11, <2>12, <2>13, <2>14, <2>15, <2>16 DEF Step
<1>5. ASSUME NEW p \in Procs, Crash(p) \/ Fail(p) PROVE ChunkInv' /\ Kept
  <2>1. /\ stage' = [stage EXCEPT ![p] = "idle"]
        /\ cur' = [cur EXCEPT ![p] = NoBlob]
        /\ blobs' = blobs /\ chunks' = chunks
        /\ orphans' = IF stage[p] = "chunk" THEN orphans \cup {cur[p]} ELSE orphans
    BY <1>5 DEF Crash, Fail, Lost, Forget
  <2>2. Known' = Known
    BY <2>1 DEF Known
  <2>3. /\ stage'[p] # "chunk" /\ cur'[p] = NoBlob
        /\ \A q \in Procs \ {p} : stage'[q] = stage[q] /\ cur'[q] = cur[q]
    BY <1>0, <2>1
  <2>4. ChunksPresent'
    <3>1. ASSUME NEW b \in Known, cur[p] = b PROVE b \in orphans'
      <4>1. b # NoBlob
        BY DEF Known
      <4> QED
        BY <2>1, <3>1, <4>1 DEF ChunkInv
    <3>2. orphans \subseteq orphans'
      BY <2>1
    <3> QED
      BY <2>1, <2>2, <2>3, <3>1, <3>2 DEF ChunkInv, ChunksPresent
  <2> QED
    BY <2>1, <2>2, <2>3, <2>4 DEF ChunkInv, Kept
<1>6. ASSUME NEW s \in IgnoreSets, EditIgnore(s) PROVE ChunkInv' /\ Kept
  BY <1>3, <1>6 DEF EditIgnore
<1>7. CASE BreakStale
  BY <1>3, <1>7 DEF BreakStale
<1>8. ASSUME NEW p \in Procs, NEW c \in Commits, MoveHead(p, c)
      PROVE  ChunkInv' /\ Kept
  BY <1>1, <1>8 DEF MoveHead, Stages
<1>9. ASSUME NEW p \in Procs, ManualSync(p) PROVE ChunkInv' /\ Kept
  BY <1>1, <1>9 DEF ManualSync, Stages
<1>10. CASE UNCHANGED vars
  BY <1>3, <1>10 DEF vars
<1>11. ASSUME NEW c \in Commits, MoveHeadSilently(c) PROVE ChunkInv' /\ Kept
  BY <1>3, <1>11 DEF MoveHeadSilently
<1> QED
  BY <1>4, <1>5, <1>6, <1>7, <1>8, <1>9, <1>10, <1>11 DEF Next

LEMMA InitChunks == Init => LockInv /\ ChunkInv
<1> SUFFICES ASSUME Init PROVE LockInv /\ ChunkInv
  OBVIOUS
<1>1. \A p \in Procs : stage[p] = "idle" /\ cur[p] = NoBlob
  BY DEF Init
<1>2. Known = {} /\ \A b \in Blobs : chunks[b] = NoPath
  BY DEF Init, Known
<1>3. LockInv
  BY InitStore
<1> QED
  BY <1>1, <1>2, <1>3 DEF ChunkInv, ChunksPresent

\* A known blob has its chunks unless a failure fell between add_blob and
\* add_chunks, or those are the two steps being taken.
THEOREM IndexSyncChunksPresent == Spec => []ChunksPresent
<1>1. TypeOK /\ CurWanted /\ LockInv /\ ChunkInv /\ [Next]_vars => (LockInv /\ ChunkInv)'
  BY LockKept, ChunkKept
<1>2. ChunkInv => ChunksPresent
  BY DEF ChunkInv
<1> QED
  BY <1>1, <1>2, InitChunks, IndexSyncTypeCorrect, PTL DEF Spec

\* No step of any process drops a blob or replaces its chunks.
THEOREM IndexSyncNothingForgotten == Spec => NothingForgotten
<1>1. TypeOK /\ CurWanted /\ LockInv /\ ChunkInv /\ [Next]_vars => (LockInv /\ ChunkInv)'
  BY LockKept, ChunkKept
<1>2. TypeOK /\ CurWanted /\ LockInv /\ ChunkInv /\ [Next]_vars => [Kept]_vars
  BY ChunkKept
<1>3. Kept <=> /\ Known \subseteq Known'
               /\ \A b \in Known : chunks[b] # NoPath => chunks'[b] = chunks[b]
  BY DEF Kept
<1> QED
  BY <1>1, <1>2, <1>3, InitChunks, IndexSyncTypeCorrect, PTL DEF Spec, NothingForgotten, Kept

=============================================================================
