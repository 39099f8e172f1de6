------------------------------ MODULE FileLock ------------------------------
(***************************************************************************)
(* The cross-process lockfile that serializes sync runs                    *)
(* (gitlayer/lock.py).  One file system step per action: the exclusive     *)
(* create, the stat and the unlink of the stale check, the deadline check, *)
(* the unlink of release.  Time passes in ticks, between any two of them.  *)
(*                                                                         *)
(* The lockfile is represented by the process that created it.  The code   *)
(* never looks at that (the pid it writes is never read back), and neither *)
(* does any guard below: only the properties do.                           *)
(***************************************************************************)
EXTENDS Naturals

CONSTANTS
  Procs,        \* the processes that run a sync
  NoFile,       \* the lockfile does not exist
  Timeout,      \* FileLock.timeout, in ticks
  StaleAfter,   \* STALE_AFTER, in ticks
  MaxCrashes    \* bound on the number of crashes

ASSUME FileLockAssumption ==
  /\ NoFile \notin Procs
  /\ Timeout \in Nat
  /\ StaleAfter \in Nat
  /\ MaxCrashes \in Nat

VARIABLES
  pc,           \* pc[p]: where p is in acquire() / release()
  lockfile,     \* the creator of the file on disk, or NoFile
  age,          \* now - st_mtime, saturating above StaleAfter
  waited,       \* waited[p]: time since acquire() began, saturating at Timeout
  crashes,      \* crashes so far
  wentStale     \* history: did an "orphan" or a "live" lock ever get too old?

vars == <<pc, lockfile, age, waited, crashes, wentStale>>

Stages == {"idle", "try", "stat", "unlink", "check", "held"}

\* Types of the variables.  These are all the stages there are: no race of two
\* processes for one file ends acquire() or release() in another exception than
\* LockTimeout, as the file another has just removed is no error to _break_if_stale.
TypeOK ==
  /\ pc \in [Procs -> Stages]
  /\ lockfile \in Procs \cup {NoFile}
  /\ age \in 0..(StaleAfter + 1)
  /\ waited \in [Procs -> 0..Timeout]
  /\ crashes \in 0..MaxCrashes
  /\ wentStale \subseteq {"orphan", "live"}

Init ==
  /\ pc = [p \in Procs |-> "idle"]
  /\ lockfile = NoFile
  /\ age = 0
  /\ waited = [p \in Procs |-> 0]
  /\ crashes = 0
  /\ wentStale = {}

Goto(p, from, to) ==
  /\ pc[p] = from
  /\ pc' = [pc EXCEPT ![p] = to]

\* acquire() begins: the deadline is fixed.
Attempt(p) ==
  /\ Goto(p, "idle", "try")
  /\ waited' = [waited EXCEPT ![p] = 0]
  /\ UNCHANGED <<lockfile, age, crashes, wentStale>>

\* Mutant: os.open without O_EXCL opens the file that is there.
CreateShared(p) ==
  /\ Goto(p, "try", "held")
  /\ lockfile' = p
  /\ age' = 0
  /\ UNCHANGED <<waited, crashes, wentStale>>

\* os.open(O_CREAT | O_EXCL) succeeds: atomic with the check for the file.
Create(p) ==
  /\ Goto(p, "try", "held")
  /\ lockfile = NoFile
  /\ lockfile' = p
  /\ age' = 0
  /\ UNCHANGED <<waited, crashes, wentStale>>

\* os.open raises FileExistsError.
CreateFails(p) ==
  /\ Goto(p, "try", "stat")
  /\ lockfile # NoFile
  /\ UNCHANGED <<lockfile, age, waited, crashes, wentStale>>

\* Mutant: the age is compared with the wrong threshold.
StaleLater == lockfile # NoFile /\ age > StaleAfter + 1

Stale == lockfile # NoFile /\ age > StaleAfter

\* _break_if_stale, its first half: stat.  A missing file counts as not stale.
Stat(p) ==
  /\ Goto(p, "stat", IF Stale THEN "unlink" ELSE "check")
  /\ UNCHANGED <<lockfile, age, waited, crashes, wentStale>>

\* Mutant: _break_if_stale without its second `except FileNotFoundError`.
UnlinkRaises(p) ==
  /\ Goto(p, "unlink", IF lockfile = NoFile THEN "raised" ELSE "check")
  /\ lockfile' = NoFile
  /\ UNCHANGED <<age, waited, crashes, wentStale>>

\* _break_if_stale, its second half: unlink whatever is at the path now.
Unlink(p) ==
  /\ Goto(p, "unlink", "check")
  /\ lockfile' = NoFile
  /\ UNCHANGED <<age, waited, crashes, wentStale>>

\* Mutant: release() also runs when acquire() fails.
GiveUpReleasing(p) ==
  /\ Goto(p, "check", "idle")
  /\ waited[p] >= Timeout
  /\ lockfile' = NoFile
  /\ UNCHANGED <<age, waited, crashes, wentStale>>

\* The deadline has passed: LockTimeout.
GiveUp(p) ==
  /\ Goto(p, "check", "idle")
  /\ waited[p] >= Timeout
  /\ UNCHANGED <<lockfile, age, waited, crashes, wentStale>>

\* Mutant: the deadline is set anew on every round.
SleepAnew(p) ==
  /\ Goto(p, "check", "try")
  /\ waited[p] < Timeout
  /\ waited' = [waited EXCEPT ![p] = 0]
  /\ UNCHANGED <<lockfile, age, crashes, wentStale>>

\* Before the deadline: sleep, then try again.
Sleep(p) ==
  /\ Goto(p, "check", "try")
  /\ waited[p] < Timeout
  /\ UNCHANGED <<lockfile, age, waited, crashes, wentStale>>

\* release(): unlink the path, whoever created the file that is there.
Release(p) ==
  /\ Goto(p, "held", "idle")
  /\ lockfile' = NoFile
  /\ UNCHANGED <<age, waited, crashes, wentStale>>

\* The process dies (or acquire() itself fails after the create: then
\* __exit__ does not run either).  Nothing removes its lockfile.
Crash(p) ==
  /\ pc[p] # "idle"
  /\ crashes < MaxCrashes
  /\ pc' = [pc EXCEPT ![p] = "idle"]
  /\ crashes' = crashes + 1
  /\ UNCHANGED <<lockfile, age, waited, wentStale>>

Waiting(p) == pc[p] \notin {"idle", "held"}

Older == IF age > StaleAfter THEN age ELSE age + 1

\* Time passes.  Nobody refreshes the mtime of a lock in use.
Tick ==
  /\ \/ lockfile # NoFile /\ age <= StaleAfter
     \/ \E p \in Procs : Waiting(p) /\ waited[p] < Timeout
  /\ age' = IF lockfile = NoFile THEN age ELSE Older
  /\ waited' = [p \in Procs |-> IF Waiting(p) /\ waited[p] < Timeout
                                THEN waited[p] + 1 ELSE waited[p]]
  /\ wentStale' = IF lockfile # NoFile /\ Older > StaleAfter
                  THEN wentStale \cup
                       {IF pc[lockfile] = "held" THEN "live" ELSE "orphan"}
                  ELSE wentStale
  /\ UNCHANGED <<pc, lockfile, crashes>>

\* What p does of its own accord once it has called acquire().
Step(p) ==
  \/ Create(p) \/ CreateFails(p) \/ Stat(p) \/ Unlink(p)
  \/ GiveUp(p) \/ Sleep(p) \/ Release(p)

Next == Tick \/ \E p \in Procs : Attempt(p) \/ Step(p) \/ Crash(p)

\* A running process is scheduled and its sync ends; the clock does not stop.
\* Nobody is obliged to start a sync.
Fairness == WF_vars(Tick) /\ \A p \in Procs : WF_vars(Step(p))

Spec == Init /\ [][Next]_vars /\ Fairness

-----------------------------------------------------------------------------
(* Safety *)

Holds(p) == pc[p] = "held"

Exclusive == \A p, q \in Procs : Holds(p) /\ Holds(q) => p = q

\* As long as no lockfile, abandoned or in use, has outlived STALE_AFTER, the
\* lock is exclusive: no interleaving of creates, stale checks, timeouts,
\* releases and crashes lets two syncs run at once.
ExclusiveUntilStale == wentStale = {} => Exclusive

\* lock.py's docstring: after a stale lock is broken "the subsequent re-acquire
\* race is safe because creation is atomic - exactly one contender wins".  So
\* two syncs may overlap only after one of them has itself outlived STALE_AFTER.
RaceHasOneWinner == "live" \notin wentStale => Exclusive

\* Why: such a lock is still on disk when its holder releases it, nobody has
\* decided to break it, and the decision cannot be pending from an older lock.
HolderOwnsFile ==
  wentStale = {} =>
    /\ ~Stale
    /\ \A p \in Procs : /\ Holds(p) => lockfile = p
                       /\ pc[p] # "unlink"

-----------------------------------------------------------------------------
(* Liveness *)

\* acquire() never waits forever: it ends with the lock or with LockTimeout.
AcquireReturns == \A p \in Procs : pc[p] = "try" ~> pc[p] \in {"held", "idle"}

\* The lockfile a crashed sync left behind.
Orphaned == lockfile # NoFile /\ ~Holds(lockfile)

AttemptsContinue == []<>(\E p \in Procs : Waiting(p))

\* If syncs keep being attempted, a crashed sync does not block them forever:
\* one of the attempts breaks the lock it left.
OrphanIsBroken == AttemptsContinue => (Orphaned ~> ~Orphaned)

=============================================================================
