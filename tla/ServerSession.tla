---------------------------- MODULE ServerSession ---------------------------
(***************************************************************************)
(* An MCP server answering from the index while syncs rewrite it           *)
(* (mcp_server/server.py, gain.py, store/sqlite_store.py).  A server keeps *)
(* one SQLite connection for its whole life.  A tool call reads with       *)
(* several statements and, when analytics are on, ends by inserting a row  *)
(* into the usage table.                                                   *)
(*                                                                         *)
(* SQLite in WAL mode and Python's sqlite3 module are external: a SELECT   *)
(* outside a transaction reads the last commit; INSERT first executes      *)
(* BEGIN if no transaction is open; the first SELECT inside a transaction  *)
(* fixes its snapshot; a transaction whose snapshot is not the last commit *)
(* can no longer write; a failed INSERT leaves the transaction open.       *)
(***************************************************************************)
EXTENDS Naturals

CONSTANTS
  Servers,
  Recording,        \* the servers with config.analytics on
  Sync, Free,       \* a syncing process holds the write lock; nobody does
  MaxSyncCommits,   \* bound on the transactions of syncs
  MaxCalls          \* bound on the tool calls

ASSUME ServerSessionAssumption ==
  /\ Recording \subseteq Servers
  /\ Sync \notin Servers /\ Free \notin Servers /\ Sync # Free
  /\ MaxSyncCommits \in Nat /\ MaxCalls \in Nat

VARIABLES
  wal,          \* the number of the last commit
  changed,      \* the last commit that changed the index
  lock,         \* who holds SQLite's write lock
  txn,          \* txn[s]: the transaction open on s's connection
  snap,         \* snap[s]: its snapshot
  stage,        \* stage[s]: where s is in the call
  asked,        \* asked[s]: the index when the call came in
  saw,          \* saw[s]: the commit its last statement read
  calls, commits,
  failed        \* failed[s], history: a usage row of s could not be written

vars == <<wal, changed, lock, txn, snap, stage, asked, saw, calls, commits, failed>>

TypeOK ==
  /\ wal \in Nat
  /\ changed \in 0..wal
  /\ lock \in Servers \cup {Sync, Free}
  /\ txn \in [Servers -> {"none", "begun", "read", "write"}]
  /\ snap \in [Servers -> 0..wal]
  /\ stage \in [Servers -> {"idle", "read", "record", "commit"}]
  /\ asked \in [Servers -> 0..wal]
  /\ saw \in [Servers -> 0..wal]
  /\ calls \in 0..MaxCalls
  /\ commits \in 0..MaxSyncCommits
  /\ failed \in [Servers -> BOOLEAN]
  /\ \A s \in Servers : lock = s <=> txn[s] = "write"

Init ==
  /\ wal = 0
  /\ changed = 0
  /\ lock = Free
  /\ txn = [s \in Servers |-> "none"]
  /\ snap = [s \in Servers |-> 0]
  /\ stage = [s \in Servers |-> "idle"]
  /\ asked = [s \in Servers |-> 0]
  /\ saw = [s \in Servers |-> 0]
  /\ calls = 0
  /\ commits = 0
  /\ failed = [s \in Servers |-> FALSE]

-----------------------------------------------------------------------------
(* The syncs, one transaction after the other *)

SyncBegin ==
  /\ lock = Free
  /\ commits < MaxSyncCommits
  /\ lock' = Sync
  /\ UNCHANGED <<wal, changed, txn, snap, stage, asked, saw, calls, commits, failed>>

SyncCommit ==
  /\ lock = Sync
  /\ lock' = Free
  /\ wal' = wal + 1
  /\ changed' = wal + 1
  /\ commits' = commits + 1
  /\ UNCHANGED <<txn, snap, stage, asked, saw, calls, failed>>

SyncRollback ==
  /\ lock = Sync
  /\ lock' = Free
  /\ commits' = commits + 1
  /\ UNCHANGED <<wal, changed, txn, snap, stage, asked, saw, calls, failed>>

-----------------------------------------------------------------------------
(* A tool call *)

Goto(s, from, to) ==
  /\ stage[s] = from
  /\ stage' = [stage EXCEPT ![s] = to]

Call(s) ==
  /\ Goto(s, "idle", "read")
  /\ calls < MaxCalls
  /\ calls' = calls + 1
  /\ asked' = [asked EXCEPT ![s] = changed]
  /\ UNCHANGED <<wal, changed, lock, txn, snap, saw, commits, failed>>

\* The commit that a SELECT on s's connection sees.
View(s) == IF txn[s] = "read" THEN snap[s] ELSE wal

\* The tool's last SELECT: the wrapper records the call, or it is over.
AfterReads(s) == IF s \in Recording THEN "record" ELSE "idle"

\* Mutant: a connection that opens a transaction for reads, too.
ReadInTransaction(s) ==
  /\ stage[s] = "read"
  /\ \E to \in {"read", AfterReads(s)} : stage' = [stage EXCEPT ![s] = to]
  /\ saw' = [saw EXCEPT ![s] = View(s)]
  /\ txn' = [txn EXCEPT ![s] = "read"]
  /\ snap' = [snap EXCEPT ![s] = View(s)]
  /\ UNCHANGED <<wal, changed, lock, asked, calls, commits, failed>>

\* One SELECT of the tool's handler.
Read(s) ==
  /\ stage[s] = "read"
  /\ \E to \in {"read", AfterReads(s)} : stage' = [stage EXCEPT ![s] = to]
  /\ saw' = [saw EXCEPT ![s] = View(s)]
  /\ IF txn[s] = "begun"
       THEN /\ txn' = [txn EXCEPT ![s] = "read"]
            /\ snap' = [snap EXCEPT ![s] = wal]
       ELSE UNCHANGED <<txn, snap>>
  /\ UNCHANGED <<wal, changed, lock, asked, calls, commits, failed>>

Writable(s) == txn[s] = "read" => snap[s] = wal

\* record_call(): INSERT INTO usage
Insert(s) ==
  /\ Goto(s, "record", "commit")
  /\ lock = Free
  /\ Writable(s)
  /\ lock' = s
  /\ txn' = [txn EXCEPT ![s] = "write"]
  /\ UNCHANGED <<wal, changed, snap, asked, saw, calls, commits, failed>>

\* Mutant: no busy timeout.
InsertWaits(s) ==
  /\ Goto(s, "record", "idle")
  /\ ~Writable(s)
  /\ failed' = [failed EXCEPT ![s] = TRUE]
  /\ UNCHANGED <<wal, changed, lock, txn, snap, asked, saw, calls, commits>>

\* "database is locked": at once when the snapshot is not the last commit,
\* else when a writer outlasts busy_timeout.  The wrapper logs a warning and
\* returns the answer; nothing rolls back.
InsertFails(s) ==
  /\ Goto(s, "record", "idle")
  /\ lock # Free \/ ~Writable(s)
  /\ txn' = [txn EXCEPT ![s] = IF txn[s] = "none" THEN "begun" ELSE txn[s]]
  /\ failed' = [failed EXCEPT ![s] = TRUE]
  /\ UNCHANGED <<wal, changed, lock, snap, asked, saw, calls, commits>>

\* Mutant: the row becomes visible, the transaction stays open.
CommitOpen(s) ==
  /\ Goto(s, "commit", "idle")
  /\ wal' = wal + 1
  /\ lock' = Free
  /\ UNCHANGED <<changed, txn, snap, asked, saw, calls, commits, failed>>

\* store.conn.commit()
CommitUsage(s) ==
  /\ Goto(s, "commit", "idle")
  /\ wal' = wal + 1
  /\ lock' = Free
  /\ txn' = [txn EXCEPT ![s] = "none"]
  /\ UNCHANGED <<changed, snap, asked, saw, calls, commits, failed>>

-----------------------------------------------------------------------------

Step(s) == Read(s) \/ Insert(s) \/ InsertFails(s) \/ CommitUsage(s)

Next ==
  \/ SyncBegin \/ SyncCommit \/ SyncRollback
  \/ \E s \in Servers : Call(s) \/ Step(s)

\* A call goes on until it is answered, and issues finitely many statements;
\* a sync may hold the write lock for as long as it likes.
Fairness ==
  \A s \in Servers : /\ WF_vars(Step(s))
                     /\ SF_vars(Read(s) /\ stage'[s] # "read")

Spec == Init /\ [][Next]_vars /\ Fairness

-----------------------------------------------------------------------------

\* A call on s has read something older than the index it was asked about.
Outdated(s) == stage[s] \in {"record", "commit"} /\ saw[s] < asked[s]

\* A server that has always been able to record its calls, or never does,
\* answers from an index at least as recent as the call: no transaction is
\* left open across calls, whatever syncs and other servers commit meanwhile.
FreshWhileRecorded == \A s \in Servers : ~failed[s] => saw[s] >= asked[s] \/ stage[s] = "read"

\* server.py: "logging can NEVER fail a query": every call is answered, also
\* when a sync holds the database for good.
CallReturns == \A s \in Servers : stage[s] # "idle" ~> stage[s] = "idle"

\* server.py, when a recording fails: "(query unaffected)"; and index_status:
\* "check this if results look stale, then run `sherpa sync`".  So a call that
\* comes after a sync is answered from what that sync wrote.
NeverOutdated == \A s \in Servers : ~Outdated(s)

=============================================================================
