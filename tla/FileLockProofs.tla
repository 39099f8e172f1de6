--------------------------- MODULE FileLockProofs ---------------------------
(***************************************************************************)
(* What the lockfile guarantees, for any number of processes and any       *)
(* values of the timeout and of the staleness threshold.                   *)
(***************************************************************************)
EXTENDS FileLock, TLAPS

\* Every action of acquire() and release(), the crash and the clock keep each
\* variable of lock.py's model in its range.
THEOREM FileLockTypeCorrect == Spec => []TypeOK
<1> USE FileLockAssumption
<1>1. Init => TypeOK
  BY DEF Init, TypeOK, Stages
<1>2. TypeOK /\ [Next]_vars => TypeOK'
  <2> SUFFICES ASSUME TypeOK, [Next]_vars
               PROVE  TypeOK'
    OBVIOUS
  <2> USE DEF TypeOK, Stages, Goto
  <2>1. CASE Tick
    BY <2>1 DEF Tick, Older, Waiting
  <2>2. ASSUME NEW p \in Procs, Attempt(p) PROVE TypeOK'
    BY <2>2 DEF Attempt
  <2>3. ASSUME NEW p \in Procs, Crash(p) PROVE TypeOK'
    BY <2>3 DEF Crash
  <2>4. ASSUME NEW p \in Procs, Step(p) PROVE TypeOK'
    <3>1. CASE Create(p)
      BY <3>1 DEF Create
    <3>2. CASE CreateFails(p) \/ GiveUp(p) \/ Sleep(p)
      BY <3>2 DEF CreateFails, GiveUp, Sleep
    <3>3. CASE Stat(p)
      BY <3>3 DEF Stat
    <3>4. CASE Unlink(p) \/ Release(p)
      BY <3>4 DEF Unlink, Release
    <3> QED
      BY <2>4, <3>1, <3>2, <3>3, <3>4 DEF Step
  <2>5. CASE UNCHANGED vars
    BY <2>5 DEF vars
  <2> QED
    BY <2>1, <2>2, <2>3, <2>4, <2>5 DEF Next
<1> QED
  BY <1>1, <1>2, PTL DEF Spec

\* Until a lockfile outlives STALE_AFTER, a process in its critical section
\* finds its own file on disk and no stale check of acquire() is about to
\* unlink it.
THEOREM FileLockHolderOwnsFile == Spec => []HolderOwnsFile
<1> USE FileLockAssumption
<1>1. Init => HolderOwnsFile
  BY DEF Init, HolderOwnsFile, Stale, Holds
<1>2. TypeOK /\ HolderOwnsFile /\ [Next]_vars => HolderOwnsFile'
  <2> SUFFICES ASSUME TypeOK, HolderOwnsFile, [Next]_vars, wentStale' = {}
               PROVE  /\ ~Stale'
                      /\ \A p \in Procs : /\ Holds(p)' => lockfile' = p
                                         /\ pc'[p] # "unlink"
    BY DEF HolderOwnsFile, Holds, Stale
  <2>0. wentStale = {}
    BY DEF Next, vars, Tick, Attempt, Crash, Step, Create, CreateFails, Stat,
           Unlink, GiveUp, Sleep, Release
  <2>a. /\ ~Stale
        /\ \A p \in Procs : (Holds(p) => lockfile = p) /\ pc[p] # "unlink"
    BY <2>0 DEF HolderOwnsFile
  <2> USE DEF TypeOK, Stages, Goto, Stale, Holds
  <2>1. CASE Tick
    BY <2>1, <2>a DEF Tick, Older
  <2>2. ASSUME NEW q \in Procs, Attempt(q) \/ Crash(q) PROVE HolderOwnsFile'
    BY <2>2, <2>a DEF Attempt, Crash, HolderOwnsFile
  <2>3. ASSUME NEW q \in Procs, Create(q) PROVE HolderOwnsFile'
    BY <2>3, <2>a DEF Create, HolderOwnsFile
  <2>4. ASSUME NEW q \in Procs, CreateFails(q) \/ Stat(q) PROVE HolderOwnsFile'
    BY <2>4, <2>a DEF CreateFails, Stat, HolderOwnsFile
  <2>5. ASSUME NEW q \in Procs, Unlink(q) PROVE HolderOwnsFile'
    BY <2>5, <2>a DEF Unlink
  <2>6. ASSUME NEW q \in Procs, GiveUp(q) \/ Sleep(q) PROVE HolderOwnsFile'
    BY <2>6, <2>a DEF GiveUp, Sleep, HolderOwnsFile
  <2>7. ASSUME NEW q \in Procs, Release(q) PROVE HolderOwnsFile'
    BY <2>7, <2>a DEF Release, HolderOwnsFile
  <2>8. CASE UNCHANGED vars
    BY <2>8, <2>a DEF vars
  <2> QED
    BY <2>1, <2>2, <2>3, <2>4, <2>5, <2>6, <2>7, <2>8 DEF Next, Step, HolderOwnsFile
<1> QED
  BY <1>1, <1>2, FileLockTypeCorrect, PTL DEF Spec

\* Two syncs run at once only after some lockfile has outlived STALE_AFTER:
\* what lock.py's O_CREAT | O_EXCL is worth on its own.
THEOREM FileLockExclusive == Spec => []ExclusiveUntilStale
<1>1. HolderOwnsFile => ExclusiveUntilStale
  BY DEF HolderOwnsFile, ExclusiveUntilStale, Exclusive
<1> QED
  BY <1>1, FileLockHolderOwnsFile, PTL

=============================================================================
