------------------------ MODULE ServerSessionProofs -------------------------
(***************************************************************************)
(* What a server's connection guarantees about its answers, for any number *)
(* of servers, calls and syncs.                                            *)
(***************************************************************************)
EXTENDS ServerSession, TLAPS

\* The write transactions of servers are those of calls about to commit theirs,
\* and only a failed INSERT leaves a transaction open for the next SELECT.
Committing == \A s \in Servers : txn[s] = "write" <=> stage[s] = "commit"
CleanUnlessFailed == \A s \in Servers : ~failed[s] => txn[s] \in {"none", "write"}

\* A sync's transaction is one of the bounded number of them.
SyncCounted == lock = Sync => commits < MaxSyncCommits

TypeInv == TypeOK /\ Committing /\ CleanUnlessFailed /\ SyncCounted

SessionInv == TypeInv /\ FreshWhileRecorded

LEMMA InitSession == Init => SessionInv
<1> SUFFICES ASSUME Init PROVE SessionInv
  OBVIOUS
<1>1. \A s \in Servers : Free # s
  BY ServerSessionAssumption
<1> QED
  BY <1>1, ServerSessionAssumption
  DEF Init, SessionInv, TypeInv, TypeOK, Committing, CleanUnlessFailed, SyncCounted, FreshWhileRecorded

LEMMA SessionStep == SessionInv /\ [Next]_vars => SessionInv'
<1> SUFFICES ASSUME SessionInv, [Next]_vars PROVE SessionInv'
  OBVIOUS
<1> USE ServerSessionAssumption
<1> USE DEF SessionInv, TypeInv, TypeOK, Committing, CleanUnlessFailed, SyncCounted, FreshWhileRecorded
<1>1. CASE SyncBegin
  BY <1>1 DEF SyncBegin
<1>2. CASE SyncCommit
  BY <1>2 DEF SyncCommit
<1>3. CASE SyncRollback
  BY <1>3 DEF SyncRollback
<1>4. ASSUME NEW s \in Servers, Call(s) PROVE SessionInv'
  BY <1>4 DEF Call, Goto
<1>5. ASSUME NEW s \in Servers, Read(s) PROVE SessionInv'
  <2>1. View(s) \in 0..wal /\ (~failed[s] => View(s) = wal)
    BY <1>5 DEF Read, View
  <2>2. AfterReads(s) \in {"record", "idle"}
    BY DEF AfterReads
  <2>3. PICK to \in {"read", "record", "idle"} : stage' = [stage EXCEPT ![s] = to]
    BY <1>5, <2>2 DEF Read
  <2>4. /\ saw' = [saw EXCEPT ![s] = View(s)]
        /\ txn' \in {txn, [txn EXCEPT ![s] = "read"]}
        /\ txn' # txn => txn[s] = "begun"
        /\ snap' \in {snap, [snap EXCEPT ![s] = wal]}
        /\ UNCHANGED <<wal, changed, lock, asked, calls, commits, failed>>
    BY <1>5 DEF Read
  <2>5. stage[s] = "read"
    BY <1>5 DEF Read
  <2> HIDE DEF View
  <2>6. TypeOK'
    BY <2>1, <2>3, <2>4, <2>5
  <2>7. Committing'
    BY <2>3, <2>4, <2>5
  <2>8. CleanUnlessFailed'
    BY <2>4
  <2>9. FreshWhileRecorded'
    BY <2>1, <2>3, <2>4, <2>5
  <2>10. SyncCounted'
    BY <2>4
  <2> QED
    BY <2>6, <2>7, <2>8, <2>9, <2>10
<1>6. ASSUME NEW s \in Servers, Insert(s) PROVE SessionInv'
  BY <1>6 DEF Insert, Goto
<1>7. ASSUME NEW s \in Servers, InsertFails(s) PROVE SessionInv'
  BY <1>7 DEF InsertFails, Goto
<1>8. ASSUME NEW s \in Servers, CommitUsage(s) PROVE SessionInv'
  BY <1>8 DEF CommitUsage, Goto
<1>9. CASE UNCHANGED vars
  BY <1>9 DEF vars
<1> QED
  BY <1>1, <1>2, <1>3, <1>4, <1>5, <1>6, <1>7, <1>8, <1>9 DEF Next, Step

LEMMA SessionInvariant == Spec => []SessionInv
  BY InitSession, SessionStep, PTL DEF Spec

\* The variables of the servers keep their types, and the write lock is a
\* server's exactly while it is about to commit its usage row.
THEOREM ServerSessionTypeCorrect == Spec => []TypeOK
<1>1. SessionInv => TypeOK
  BY DEF SessionInv, TypeInv
<1> QED
  BY <1>1, SessionInvariant, PTL

\* A server none of whose usage rows has failed (record_call) answers from an
\* index at least as recent as the call.
THEOREM ServerSessionFresh == Spec => []FreshWhileRecorded
<1>1. SessionInv => FreshWhileRecorded
  BY DEF SessionInv
<1> QED
  BY <1>1, SessionInvariant, PTL
=============================================================================
