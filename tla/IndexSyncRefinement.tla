------------------------ MODULE IndexSyncRefinement -------------------------
(***************************************************************************)
(* The sync implements the specification of a published index, for any     *)
(* repository, any number of processes and any number of failures.         *)
(***************************************************************************)
EXTENDS IndexSyncProofs

\* What the refinement mapping makes of the index and of the running sync.
IndexBar == IF golden = Torn THEN Torn ELSE Index
PinBar == IF Pins = {} THEN Torn
          ELSE LET p == CHOOSE p \in Pins : TRUE
               IN  [commit |-> rev[p], ignored |-> skip[p]]
ImageBar == [b \in [commit : Commits, ignored : IgnoreSets] |-> Rebuild(b.commit, b.ignored)]

\* The stages at which a sync has pinned a commit.
Pinned == {"active", "unlock"} \cup Writing

LEMMA PinnedLocked == Pinned \subseteq Locked
  BY DEF Pinned, Locked

LEMMA OneChoice ==
  ASSUME NEW S, NEW p \in S, \A q \in S : q = p
  PROVE  (CHOOSE q \in S : TRUE) = p
  OBVIOUS

LEMMA PinsAre == Pins = {p \in Procs : stage[p] \in Pinned}
  BY DEF Pins, Pinned

-----------------------------------------------------------------------------
(* The steps of the mapping *)

\* A sync that has pinned a commit has done so alone.
LEMMA PinOf ==
  ASSUME LockInv, NEW p \in Procs, stage[p] \in Pinned
  PROVE  PinBar = [commit |-> rev[p], ignored |-> skip[p]]
<1>1. p \in Pins
  BY PinsAre
<1>2. \A q \in Pins : q = p
  BY PinsAre, PinnedLocked DEF LockInv
<1> QED
  BY <1>1, <1>2, OneChoice DEF PinBar

LEMMA NoPinOf ==
  ASSUME \A p \in Procs : stage[p] \notin Pinned
  PROVE  PinBar = Torn
  BY PinsAre DEF PinBar

LEMMA PinOfNext ==
  ASSUME LockInv', NEW p \in Procs, stage'[p] \in Pinned
  PROVE  PinBar' = [commit |-> rev'[p], ignored |-> skip'[p]]
<1>0. Pins' = {q \in Procs : stage'[q] \in Pinned}
  BY DEF Pins, Pinned
<1>1. p \in Pins'
  BY <1>0
<1>2. \A q \in Pins' : q = p
  BY <1>0, PinnedLocked DEF LockInv
<1>3. (CHOOSE q \in Pins' : TRUE) = p
  BY <1>1, <1>2, OneChoice
<1> QED
  BY <1>1, <1>3 DEF PinBar

LEMMA NoPinOfNext ==
  ASSUME \A p \in Procs : stage'[p] \notin Pinned
  PROVE  PinBar' = Torn
<1>0. Pins' = {q \in Procs : stage'[q] \in Pinned}
  BY DEF Pins, Pinned
<1> QED
  BY <1>0 DEF PinBar

\* What is pinned is a commit and rules, and not the absence of both.
LEMMA PinType ==
  ASSUME TypeOK, LockInv, NEW p \in Procs, stage[p] \in Pinned
  PROVE  PinBar # Torn
<1>1. PinBar \in [commit : Commits, ignored : IgnoreSets]
  BY PinOf DEF TypeOK
<1> QED
  BY <1>1, IndexSyncAssumption

\* Between syncs the index is an image: what it was built from says which.
LEMMA IndexIsImage ==
  ASSUME TypeOK, IndexIsRebuild
  PROVE  IndexBar = IF golden = Torn THEN Torn ELSE ImageBar[golden]
<1>1. CASE golden = Torn
  BY <1>1 DEF IndexBar
<1>2. CASE golden # Torn
  <2>1. golden \in [commit : Commits, ignored : IgnoreSets]
    BY <1>2 DEF TypeOK
  <2> QED
    BY <1>2, <2>1 DEF IndexBar, IndexIsRebuild, ImageBar
<1> QED
  BY <1>1, <1>2

LEMMA IndexIsImageNext ==
  ASSUME TypeOK', IndexIsRebuild'
  PROVE  IndexBar' = IF golden' = Torn THEN Torn ELSE ImageBar[golden']
<1>1. CASE golden' = Torn
  BY <1>1 DEF IndexBar
<1>2. CASE golden' # Torn
  <2>1. golden' \in [commit : Commits, ignored : IgnoreSets]
    BY <1>2 DEF TypeOK
  <2>2. Index' = Rebuild(golden'.commit, golden'.ignored)
    BY <1>2 DEF IndexIsRebuild
  <2> QED
    BY <1>2, <2>1, <2>2 DEF IndexBar, ImageBar
<1> QED
  BY <1>1, <1>2

\* A step of p between stages that both pin, or both do not.
LEMMA PinKept ==
  ASSUME TypeOK, LockInv, LockInv', NEW p \in Procs,
         \A q \in Procs \ {p} : stage'[q] = stage[q] /\ rev'[q] = rev[q] /\ skip'[q] = skip[q],
         \/ stage[p] \notin Pinned /\ stage'[p] \notin Pinned
         \/ /\ stage[p] \in Pinned /\ stage'[p] \in Pinned
            /\ rev'[p] = rev[p] /\ skip'[p] = skip[p]
  PROVE  PinBar' = PinBar
<1>1. CASE \A q \in Procs : stage[q] \notin Pinned
  <2>1. \A q \in Procs : stage'[q] \notin Pinned
    BY <1>1
  <2> QED
    BY <1>1, <2>1, NoPinOf, NoPinOfNext
<1>2. CASE \E q \in Procs : stage[q] \in Pinned
  <2>1. PICK q \in Procs : stage[q] \in Pinned
    BY <1>2
  <2>2. stage'[q] \in Pinned /\ rev'[q] = rev[q] /\ skip'[q] = skip[q]
    BY <2>1
  <2> QED
    BY <2>1, <2>2, PinOf, PinOfNext
<1> QED
  BY <1>1, <1>2

\* A step that leaves golden alone leaves the index that is mapped alone.
LEMMA IndexKept ==
  ASSUME TypeOK, IndexIsRebuild, TypeOK', IndexIsRebuild', golden' = golden
  PROVE  IndexBar' = IndexBar
  BY IndexIsImage, IndexIsImageNext DEF ImageBar

\* The four kinds of steps that change what is mapped.
LEMMA MoveHeadMaps ==
  ASSUME head' \in Commits, IndexBar' = IndexBar, PinBar' = PinBar
  PROVE  Published!MoveHead
  BY DEF Published!MoveHead, IndexBar, PinBar

LEMMA PinMaps ==
  ASSUME PinBar = Torn, NEW s \in IgnoreSets, PinBar' = [commit |-> head, ignored |-> s],
         head' = head, IndexBar' = IndexBar
  PROVE  Published!Pin
  BY DEF Published!Pin, IndexBar, PinBar

LEMMA TearMaps ==
  ASSUME PinBar # Torn, PinBar' = PinBar, head' = head, IndexBar' = Torn
  PROVE  Published!Tear
  BY DEF Published!Tear, IndexBar, PinBar

LEMMA PublishMaps ==
  ASSUME PinBar # Torn, PinBar' = PinBar, head' = head,
         IndexBar = Torn, IndexBar' = ImageBar[PinBar]
  PROVE  Published!Publish
  BY DEF Published!Publish, IndexBar, PinBar, ImageBar

LEMMA UnpinMaps ==
  ASSUME PinBar # Torn, PinBar' = Torn, head' = head, IndexBar' = IndexBar
  PROVE  Published!Unpin
  BY DEF Published!Unpin, IndexBar, PinBar

LEMMA StutterMaps ==
  ASSUME head' = head, PinBar' = PinBar, IndexBar' = IndexBar
  PROVE  Published!vars' = Published!vars
  BY DEF Published!vars, IndexBar, PinBar

-----------------------------------------------------------------------------
(* Every step is a step of the published index, or none *)

Maps == [Published!Next]_(Published!vars)

\* A step within the same side of Pinned, with nothing published.
LEMMA Unseen ==
  ASSUME TypeOK, LockInv, IndexIsRebuild, TypeOK', LockInv', IndexIsRebuild', NEW p \in Procs,
         NEW from \in Stages, NEW to \in Stages, Goto(p, from, to),
         \A q \in Procs \ {p} : rev'[q] = rev[q] /\ skip'[q] = skip[q],
         \/ from \notin Pinned /\ to \notin Pinned
         \/ from \in Pinned /\ to \in Pinned /\ rev' = rev /\ skip' = skip,
         golden' = golden, head' = head
  PROVE  Maps
<1>1. stage[p] = from /\ stage'[p] = to /\ \A q \in Procs \ {p} : stage'[q] = stage[q]
  BY DEF Goto, TypeOK
<1>2. PinBar' = PinBar
  BY <1>1, PinKept
<1>3. IndexBar' = IndexBar
  BY IndexKept
<1> QED
  BY <1>2, <1>3, StutterMaps DEF Maps

LEMMA StepMaps ==
  ASSUME TypeOK, LockInv, StoreInv, TypeOK', LockInv', StoreInv', NEW p \in Procs, Step(p)
  PROVE  Maps
<1>0. /\ IndexIsRebuild /\ IndexIsRebuild'
      /\ stage \in [Procs -> Stages] /\ rev \in [Procs -> Commits] /\ skip \in [Procs -> IgnoreSets]
  BY DEF StoreInv, TypeOK
<1> USE DEF git, locals, store, history
<1>1. CASE ReadTree(p)
  <2>1. /\ stage[p] = "tree" /\ stage' = [stage EXCEPT ![p] = "active"]
        /\ rev' = [rev EXCEPT ![p] = head] /\ skip' = skip
        /\ head' = head /\ golden' = golden
    BY <1>1 DEF ReadTree, Goto
  <2>2. \A q \in Procs : stage[q] \notin Pinned
    BY <2>1, PinnedLocked DEF LockInv, Pinned, Writing, Locked
  <2>3. PinBar = Torn
    BY <2>2, NoPinOf
  <2>4. stage'[p] \in Pinned /\ rev'[p] = head /\ skip'[p] = skip[p]
    BY <1>0, <2>1 DEF Pinned
  <2>5. PinBar' = [commit |-> head, ignored |-> skip[p]]
    BY <2>4, PinOfNext
  <2>6. IndexBar' = IndexBar
    BY <1>0, <2>1, IndexKept
  <2>7. skip[p] \in IgnoreSets
    BY <1>0
  <2> QED
    BY <2>1, <2>3, <2>5, <2>6, <2>7, PinMaps DEF Maps, Published!Next
<1>2. CASE ReadActive(p)
  <2>1. /\ stage[p] = "active" /\ stage' = [stage EXCEPT ![p] = "index"]
        /\ rev' = rev /\ skip' = skip /\ head' = head /\ golden' = Torn
    BY <1>2 DEF ReadActive, Goto
  <2>2. stage[p] \in Pinned /\ stage'[p] \in Pinned /\ \A q \in Procs \ {p} : stage'[q] = stage[q]
    BY <1>0, <2>1 DEF Pinned, Writing
  <2>3. PinBar' = PinBar /\ PinBar # Torn
    BY <2>1, <2>2, PinKept, PinType
  <2>4. IndexBar' = Torn
    BY <2>1 DEF IndexBar
  <2> QED
    BY <2>1, <2>3, <2>4, TearMaps DEF Maps, Published!Next
<1>3. CASE SetMeta(p)
  <2>1. /\ stage[p] = "meta" /\ stage' = [stage EXCEPT ![p] = "unlock"]
        /\ rev' = rev /\ skip' = skip /\ head' = head
        /\ golden' = [commit |-> rev[p], ignored |-> skip[p]]
    BY <1>3 DEF SetMeta, Goto
  <2>2. stage[p] \in Pinned /\ stage'[p] \in Pinned /\ \A q \in Procs \ {p} : stage'[q] = stage[q]
    BY <1>0, <2>1 DEF Pinned, Writing
  <2>3. PinBar' = PinBar /\ PinBar # Torn /\ PinBar = golden'
    BY <2>1, <2>2, PinKept, PinType, PinOf
  <2>4. golden = Torn
    BY <2>1 DEF StoreInv, TornInv, Writing
  <2>5. IndexBar = Torn
    BY <2>4 DEF IndexBar
  <2>6. IndexBar' = ImageBar[PinBar]
    BY <1>0, <2>3, IndexIsImageNext
  <2> QED
    BY <2>1, <2>3, <2>5, <2>6, PublishMaps DEF Maps, Published!Next
<1>4. CASE Release(p)
  <2>1. /\ stage[p] = "unlock" /\ stage' = [stage EXCEPT ![p] = "idle"]
        /\ head' = head /\ golden' = golden
    BY <1>4 DEF Release, Goto
  <2>2. stage[p] \in Pinned
    BY <2>1 DEF Pinned
  <2>3. \A q \in Procs : stage'[q] \notin Pinned
    BY <1>0, <2>1, <2>2, PinnedLocked DEF LockInv, Pinned, Writing, Locked
  <2>4. PinBar # Torn /\ PinBar' = Torn
    BY <2>2, <2>3, PinType, NoPinOfNext
  <2>5. IndexBar' = IndexBar
    BY <1>0, <2>1, IndexKept
  <2> QED
    BY <2>1, <2>4, <2>5, UnpinMaps DEF Maps, Published!Next
<1>5. CASE GiveUp(p)
  <2>1. /\ Goto(p, "lock", "idle") /\ golden' = golden /\ head' = head
        /\ \A q \in Procs \ {p} : rev'[q] = rev[q] /\ skip'[q] = skip[q]
    BY <1>0, <1>5 DEF GiveUp, Forget
  <2> QED
    BY <1>0, <2>1, Unseen DEF Pinned, Writing, Stages
<1>6. CASE LoadIgnore(p)
  <2>1. /\ Goto(p, "ignore", "tree") /\ golden' = golden /\ head' = head
        /\ \A q \in Procs \ {p} : rev'[q] = rev[q] /\ skip'[q] = skip[q]
    BY <1>0, <1>6 DEF LoadIgnore
  <2> QED
    BY <1>0, <2>1, Unseen DEF Pinned, Writing, Stages, Locked
<1>7. CASE ReadHead(p) \/ Acquire(p) \/ AddBlob(p) \/ AddChunks(p) \/ Deactivate(p) \/ Reactivate(p)
           \/ MapFiles(p) \/ WipeGraph(p) \/ AddSymbols(p) \/ AddEdges(p)
  <2>1. /\ golden' = golden /\ head' = head /\ rev' = rev /\ skip' = skip
        /\ \/ Goto(p, "begin", "lock") \/ Goto(p, "lock", "ignore")
           \/ \E from, to \in Writing : Goto(p, from, to)
    BY <1>7 DEF ReadHead, Acquire, AddBlob, AddChunks, Deactivate, Reactivate, MapFiles, WipeGraph,
                AddSymbols, AddEdges, Writing
  <2>2. Writing \subseteq Pinned /\ Writing \subseteq Stages
    BY DEF Pinned, Stages, Locked
  <2>3. {"begin", "lock", "ignore"} \subseteq Stages \ Pinned
    BY DEF Pinned, Writing, Stages, Locked
  <2>4. CASE Goto(p, "begin", "lock") \/ Goto(p, "lock", "ignore")
    BY <1>0, <2>1, <2>3, <2>4, Unseen
  <2>5. CASE \E from, to \in Writing : Goto(p, from, to)
    BY <1>0, <2>1, <2>2, <2>5, Unseen
  <2> QED
    BY <2>1, <2>4, <2>5
<1> QED
  BY <1>1, <1>2, <1>3, <1>4, <1>5, <1>6, <1>7 DEF Step

LEMMA NextMaps ==
  ASSUME TypeOK, LockInv, StoreInv, TypeOK', LockInv', StoreInv', [Next]_vars
  PROVE  Maps
<1>0. /\ IndexIsRebuild /\ IndexIsRebuild'
      /\ stage \in [Procs -> Stages] /\ rev \in [Procs -> Commits] /\ skip \in [Procs -> IgnoreSets]
  BY DEF StoreInv, TypeOK
<1> USE DEF git, locals, store, history
<1>1. ASSUME stage' = stage, rev' = rev, skip' = skip, golden' = golden, head' = head
      PROVE  Maps
  <2>1. PinBar' = PinBar
    BY <1>1 DEF PinBar, Pins
  <2>2. IndexBar' = IndexBar
    BY <1>0, <1>1, IndexKept
  <2> QED
    BY <1>1, <2>1, <2>2, StutterMaps DEF Maps
<1>2. ASSUME NEW s \in IgnoreSets, EditIgnore(s) PROVE Maps
  BY <1>1, <1>2 DEF EditIgnore
<1>3. CASE BreakStale
  BY <1>1, <1>3 DEF BreakStale
<1>4. ASSUME NEW p \in Procs, NEW c \in Commits, MoveHead(p, c) PROVE Maps
  <2>1. /\ head' \in Commits /\ stage[p] = "idle" /\ stage' = [stage EXCEPT ![p] = "begin"]
        /\ rev' = rev /\ skip' = skip /\ golden' = golden
    BY <1>4 DEF MoveHead
  <2>2. /\ stage[p] \notin Pinned /\ stage'[p] \notin Pinned
        /\ \A q \in Procs \ {p} : stage'[q] = stage[q]
    BY <1>0, <2>1 DEF Pinned, Writing
  <2>3. PinBar' = PinBar
    BY <2>1, <2>2, PinKept
  <2>4. IndexBar' = IndexBar
    BY <1>0, <2>1, IndexKept
  <2> QED
    BY <2>1, <2>3, <2>4, MoveHeadMaps DEF Maps, Published!Next
<1>5. ASSUME NEW p \in Procs, ManualSync(p) PROVE Maps
  <2>1. /\ Goto(p, "idle", "begin") /\ golden' = golden /\ head' = head /\ rev' = rev /\ skip' = skip
    BY <1>5 DEF ManualSync, Goto
  <2> QED
    BY <1>0, <2>1, Unseen DEF Pinned, Writing, Stages
<1>6. ASSUME NEW p \in Procs, Step(p) PROVE Maps
  BY <1>6, StepMaps
<1>7. ASSUME NEW p \in Procs, Crash(p) \/ Fail(p) PROVE Maps
  <2>1. /\ stage' = [stage EXCEPT ![p] = "idle"] /\ golden' = golden /\ head' = head
        /\ \A q \in Procs \ {p} : stage'[q] = stage[q] /\ rev'[q] = rev[q] /\ skip'[q] = skip[q]
    BY <1>0, <1>7 DEF Crash, Fail, Lost, Forget
  <2>2. IndexBar' = IndexBar
    BY <1>0, <2>1, IndexKept
  <2>3. stage'[p] \notin Pinned
    BY <1>0, <2>1 DEF Pinned, Writing
  <2>4. CASE stage[p] \in Pinned
    <3>1. \A q \in Procs : stage'[q] \notin Pinned
      BY <2>1, <2>3, <2>4, PinnedLocked DEF LockInv
    <3>2. PinBar # Torn /\ PinBar' = Torn
      BY <2>4, <3>1, PinType, NoPinOfNext
    <3> QED
      BY <2>1, <2>2, <3>2, UnpinMaps DEF Maps, Published!Next
  <2>5. CASE stage[p] \notin Pinned
    <3>1. PinBar' = PinBar
      BY <2>1, <2>3, <2>5, PinKept
    <3> QED
      BY <2>1, <2>2, <3>1, StutterMaps DEF Maps
  <2> QED
    BY <2>4, <2>5
<1>8. CASE UNCHANGED vars
  BY <1>1, <1>8 DEF vars
<1>9. ASSUME NEW c \in Commits, MoveHeadSilently(c) PROVE Maps
  <2>1. /\ head' \in Commits /\ golden' = golden
        /\ stage' = stage /\ rev' = rev /\ skip' = skip
    BY <1>9 DEF MoveHeadSilently
  <2>2. PinBar' = PinBar
    BY <2>1 DEF PinBar, Pins
  <2>3. IndexBar' = IndexBar
    BY <1>0, <2>1, IndexKept
  <2> QED
    BY <2>1, <2>2, <2>3, MoveHeadMaps DEF Maps, Published!Next
<1> QED
  BY <1>2, <1>3, <1>4, <1>5, <1>6, <1>7, <1>8, <1>9 DEF Next

\* What rests in the database between syncs changes only by publishing the
\* image of a commit that HEAD named while the sync that built it ran: sync(),
\* with its transactions, failures and waiting processes, implements the
\* published index.
THEOREM IndexSyncImplementsPublished == Spec => ImplementsPublished
<1>1. Init => Published!Init
  <2> SUFFICES ASSUME Init PROVE Published!Init
    OBVIOUS
  <2>1. TypeOK /\ IndexIsRebuild
    BY InitTypes, InitStore DEF StoreInv
  <2>2. golden = [commit |-> Unborn, ignored |-> {}] /\ golden # Torn /\ head = Unborn
    <3>1. [commit |-> Unborn, ignored |-> {}] \in [commit : Commits, ignored : IgnoreSets]
      BY IndexSyncAssumption
    <3> QED
      BY <3>1, IndexSyncAssumption DEF Init
  <2>3. IndexBar = ImageBar[[commit |-> Unborn, ignored |-> {}]]
    BY <2>1, <2>2, IndexIsImage
  <2>4. PinBar = Torn
    <3>1. \A p \in Procs : stage[p] = "idle"
      BY DEF Init
    <3> QED
      BY <3>1, NoPinOf DEF Pinned, Writing
  <2> QED
    BY <2>2, <2>3, <2>4 DEF Published!Init, IndexBar, PinBar, ImageBar
<1>2. TypeOK /\ CurWanted /\ LockInv /\ StoreInv /\ [Next]_vars => (LockInv /\ StoreInv)'
  BY LockKept, StoreKept
<1>3. TypeOK /\ LockInv /\ StoreInv /\ TypeOK' /\ LockInv' /\ StoreInv' /\ [Next]_vars => Maps
  BY NextMaps
<1> QED
  BY <1>1, <1>2, <1>3, InitStore, IndexSyncTypeCorrect, PTL
  DEF Spec, ImplementsPublished, Published!Spec, Maps
=============================================================================
