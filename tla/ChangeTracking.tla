--------------------------- MODULE ChangeTracking ---------------------------
(***************************************************************************)
(* How one database file keeps track of what its users change.  Triggers   *)
(* queue each change in the pending table, inside the transaction that     *)
(* makes it; after the commit, wal_callback runs process_pending_changes,  *)
(* which turns the queue into versions and tombstones.  That work is not a *)
(* transaction: every statement commits on its own.  Merges change the     *)
(* same tables, failures and rollbacks empty the queue, and the process    *)
(* may die between any two steps.                                          *)
(*                                                                         *)
(* A connection is a CRDTSQLite object on the file, in a thread of its     *)
(* own; all of them live in one process.                                   *)
(***************************************************************************)
EXTENDS CrdtDatabase

CONSTANTS
  Connection,
  NoConnection,
  Self,        \* the node id of the file's connections
  UserCell,    \* the cells that users write
  Incoming,    \* the remote changes that may be merged
  Faults,      \* what may go wrong: "rollback", "failure", "crash"
  ClockMax,    \* the greatest clock there is: UINT64_MAX in the code
  MaxClock,    \* bound on the clock of the file
  MaxVersion,  \* bound on every col_version
  MaxQueue     \* bound on the pending table when a statement runs

ASSUME ConnectionAssumption == NoConnection \notin Connection
ASSUME SelfAssumption       == Self \in Node
ASSUME CellAssumption       == UserCell \subseteq Cell
ASSUME IncomingAssumption   == Incoming \subseteq Change
ASSUME FaultsAssumption     == Faults \subseteq {"rollback", "failure", "crash"}
ASSUME ClockMaxAssumption   == ClockMax \in Nat \ {0}
ASSUME BoundsAssumption     == {MaxClock, MaxVersion, MaxQueue} \subseteq Nat

VARIABLES
  file,         \* the committed tables
  pending,      \* the committed pending table
  owner,        \* the connection with an open write transaction
  view,         \* the tables as that transaction sees them
  viewPending,  \* the pending table as that transaction sees it
  pc,           \* where each connection is
  plan,         \* plan[c]: pending_changes, what the loop has not done
  turn,         \* turn[c]: the row of the iteration under way, if there is one
  cache,        \* cache[c]: version_cache, the versions it was filled from
  stamp,        \* stamp[c]: current_clock
  overflowed,   \* overflowed[c]: clock_overflow_, in memory only
  wrote,        \* history: what the open transaction changed
  untracked     \* history: committed changes not yet versioned

fileVars == <<file, pending>>
txnVars  == <<owner, view, viewPending, wrote>>
loopVars == <<plan, turn, cache, stamp>>
vars == <<fileVars, txnVars, pc, loopVars, overflowed, untracked>>

-----------------------------------------------------------------------------
Places == {"closed", "idle", "writing", "merging", "scan", "cache", "clock",
           "stamp", "sweep", "enforce", "version", "clear"}

\* A pending table: its rows, and which of them precedes which by rowid, the
\* order in which the SELECT returns them.  In what order a trigger queues the
\* columns of one statement is left open.
Queue == [rows : SUBSET Pending, before : SUBSET (Pending \X Pending)]

EmptyQueue == [rows |-> {}, before |-> {}]

Without(queue, entries) ==
  LET others == queue.rows \ entries
  IN  [rows |-> others, before |-> queue.before \cap (others \X others)]

\* Faulty variant: INSERT OR IGNORE, a row that is there keeps its rowid.
KeptInPlace(queue, entries) ==
  LET new == entries \ queue.rows
  IN  [rows |-> queue.rows \cup new,
       before |-> queue.before \cup (queue.rows \X new)]

\* INSERT OR REPLACE INTO the pending table: a row that is there already is
\* replaced by one with a new rowid, behind all the others.
Enqueue(queue, entries) ==
  LET kept == Without(queue, entries)
  IN  [rows |-> kept.rows \cup entries,
       before |-> kept.before \cup (kept.rows \X entries)]

Firsts(queue) ==
  {p \in queue.rows : \A q \in queue.rows : <<q, p>> \notin queue.before}

Key(p) == [rec |-> p.rec, col |-> p.col]

Keys(rows) == {Key(p) : p \in rows}

Init ==
  /\ file = EmptyDatabase
  /\ pending = EmptyQueue
  /\ owner = NoConnection
  /\ view = EmptyDatabase
  /\ viewPending = EmptyQueue
  /\ pc = [c \in Connection |-> "closed"]
  /\ plan = [c \in Connection |-> EmptyQueue]
  /\ turn = [c \in Connection |-> {}]
  /\ cache = [c \in Connection |-> {}]
  /\ stamp = [c \in Connection |-> 0]
  /\ overflowed = [c \in Connection |-> FALSE]
  /\ wrote = {}
  /\ untracked = {}

Goto(c, place) == pc' = [pc EXCEPT ![c] = place]

\* What a connection keeps in memory is gone.
Forget(c) ==
  /\ plan' = [plan EXCEPT ![c] = EmptyQueue]
  /\ turn' = [turn EXCEPT ![c] = {}]
  /\ cache' = [cache EXCEPT ![c] = {}]
  /\ stamp' = [stamp EXCEPT ![c] = 0]

\* The constructor and enable_crdt.  What exists is left as it is; the
\* commit of create_shadow_tables finds no tracked table and processes
\* nothing.
Open(c) ==
  /\ pc[c] = "closed"
  /\ Goto(c, "idle")
  /\ UNCHANGED <<fileVars, txnVars, loopVars, untracked, overflowed>>

-----------------------------------------------------------------------------
(* Transactions of the user.  An autocommit statement is a transaction of  *)
(* one statement.  The first write takes the write lock; SQLite refuses it *)
(* while another connection has it.                                        *)

WithinBounds ==
  /\ file.clock < MaxClock
  /\ \A v \in file.versions : v.cv < MaxVersion

\* A statement that leaves the rows `rows' and fires triggers for `entries'.
Statement(c, tables, queue, rows, entries) ==
  /\ view' = [tables EXCEPT !.rows = rows]
  /\ viewPending' = Enqueue(queue, entries)
  /\ wrote' = wrote \cup {Key(p) : p \in entries}
  /\ owner' = c
  /\ Goto(c, "writing")
  /\ UNCHANGED <<fileVars, loopVars, untracked, overflowed>>

InsertInto(c, tables, queue) ==
  \E r \in Record, cells \in [Column -> UserCell] :
    Statement(c, tables, queue,
              RowsBut(tables.rows, r) \cup {[rec |-> r, cells |-> cells]},
              [op : {"INSERT"}, rec : {r}, col : Column])

Update(c, tables, queue) ==
  \E row \in tables.rows, cells \in [Column -> Cell] :
    LET changed == {k \in Column : cells[k] # row.cells[k]}
    IN  /\ changed # {}
        /\ \A k \in changed : cells[k] \in UserCell
        /\ Statement(c, tables, queue,
                     RowsBut(tables.rows, row.rec)
                       \cup {[rec |-> row.rec, cells |-> cells]},
                     [op : {"UPDATE"}, rec : {row.rec}, col : changed])

\* Faulty variant: no delete trigger.
DeleteUntracked(c, tables, queue) ==
  \E row \in tables.rows : Statement(c, tables, queue, tables.rows \ {row}, {})

DeleteFrom(c, tables, queue) ==
  \E row \in tables.rows :
    Statement(c, tables, queue, tables.rows \ {row},
              [op : {"DELETE"}, rec : {row.rec}, col : {NoColumn}])

Execute(c, tables, queue) ==
  /\ Cardinality(queue.rows) <= MaxQueue
  /\ \/ InsertInto(c, tables, queue)
     \/ Update(c, tables, queue)
     \/ DeleteFrom(c, tables, queue)

\* execute() refuses once clock_overflow_ is set; a statement that prepare()
\* made does not ask.
FirstStatement(c) ==
  /\ pc[c] = "idle"
  /\ owner = NoConnection
  /\ WithinBounds
  /\ Execute(c, file, pending)

NextStatement(c) ==
  /\ pc[c] = "writing"
  /\ Execute(c, view, viewPending)

\* The end of a transaction, which leaves the tables and the queue so.
EndTransaction(c, tables, queue) ==
  /\ file' = tables
  /\ pending' = queue
  /\ owner' = NoConnection
  /\ view' = EmptyDatabase
  /\ viewPending' = EmptyQueue
  /\ wrote' = {}

\* Faulty variant: wal_callback takes itself to be processing already.
CommitUnprocessed(c) ==
  /\ pc[c] = "writing"
  /\ EndTransaction(c, view, viewPending)
  /\ untracked' = untracked \cup wrote
  /\ Goto(c, "idle")
  /\ UNCHANGED <<loopVars, overflowed>>

\* COMMIT; then wal_callback starts process_pending_changes.
CommitTransaction(c) ==
  /\ pc[c] = "writing"
  /\ EndTransaction(c, view, viewPending)
  /\ untracked' = untracked \cup wrote
  /\ Goto(c, "scan")
  /\ UNCHANGED <<loopVars, overflowed>>

\* ROLLBACK, or a statement that fails.  rollback_callback empties the
\* pending table, the rows of earlier transactions included; that DELETE
\* is a commit, which calls wal_callback.
RollbackTransaction(c) ==
  /\ "rollback" \in Faults
  /\ pc[c] = "writing"
  /\ EndTransaction(c, file, EmptyQueue)
  /\ Goto(c, "scan")
  /\ UNCHANGED <<loopVars, untracked, overflowed>>

-----------------------------------------------------------------------------
(* process_pending_changes.  Reads see the committed file; each write is a *)
(* statement of its own, and a transaction of its own.                     *)

\* Faulty variant: the pending table is emptied as it is read.
ScanAndClear(c) ==
  /\ pc[c] = "scan"
  /\ plan' = [plan EXCEPT ![c] = pending]
  /\ pending' = EmptyQueue
  /\ Goto(c, IF pending.rows = {} THEN "idle" ELSE "cache")
  /\ UNCHANGED <<file, txnVars, turn, cache, stamp, untracked, overflowed>>

ScanPending(c) ==
  /\ pc[c] = "scan"
  /\ plan' = [plan EXCEPT ![c] = pending]
  /\ Goto(c, IF pending.rows = {} THEN "idle" ELSE "cache")
  /\ UNCHANGED <<fileVars, txnVars, turn, cache, stamp, untracked, overflowed>>

\* Faulty variant: the cache stays empty.
ColdCache(c) ==
  /\ pc[c] = "cache"
  /\ Goto(c, "clock")
  /\ UNCHANGED <<fileVars, txnVars, loopVars, untracked, overflowed>>

FillCache(c) ==
  /\ pc[c] = "cache"
  /\ cache' = [cache EXCEPT ![c] = file.versions]
  /\ Goto(c, "clock")
  /\ UNCHANGED <<fileVars, txnVars, plan, turn, stamp, untracked, overflowed>>

\* Faulty variant: the clock is incremented twice.
TickTwice(c) ==
  /\ pc[c] = "clock"
  /\ stamp' = [stamp EXCEPT ![c] = file.clock + 2]
  /\ Goto(c, "stamp")
  /\ UNCHANGED <<fileVars, txnVars, plan, turn, cache, untracked, overflowed>>

\* Faulty variant: a clock of the connection's own, not the one in the file.
OwnReading(c) ==
  /\ pc[c] = "clock"
  /\ stamp' = [stamp EXCEPT ![c] = @ + 1]
  /\ Goto(c, "stamp")
  /\ UNCHANGED <<fileVars, txnVars, plan, turn, cache, untracked, overflowed>>

ReadClock(c) ==
  /\ pc[c] = "clock"
  /\ file.clock < ClockMax
  /\ stamp' = [stamp EXCEPT ![c] = file.clock + 1]
  /\ Goto(c, "stamp")
  /\ UNCHANGED <<fileVars, txnVars, plan, turn, cache, overflowed, untracked>>

\* The clock is used up: the pending table is emptied, and a flag tells the
\* next execute() and merge_changes().
OverflowClock(c) ==
  /\ pc[c] = "clock"
  /\ file.clock >= ClockMax
  /\ owner = NoConnection
  /\ pending' = EmptyQueue
  /\ overflowed' = [overflowed EXCEPT ![c] = TRUE]
  /\ Forget(c)
  /\ Goto(c, "idle")
  /\ UNCHANGED <<file, txnVars, untracked>>

\* Faulty variant: the loop ends after its first row.
StopAtFirst(c) ==
  /\ plan' = [plan EXCEPT ![c] = EmptyQueue]
  /\ turn' = [turn EXCEPT ![c] = {}]

\* The end of an iteration.
Advance(c) ==
  /\ plan' = [plan EXCEPT ![c] = Without(@, turn[c])]
  /\ turn' = [turn EXCEPT ![c] = {}]

EntombRecord(c) ==
  \E p \in Firsts(plan[c]) :
    /\ pc[c] = "stamp"
    /\ owner = NoConnection
    /\ p.op = "DELETE"
    /\ file' = [file EXCEPT !.tombs = {t \in @ : t.rec # p.rec} \cup
                   {[rec |-> p.rec, dv |-> stamp[c], node |-> Self,
                     local |-> stamp[c]]}]
    /\ untracked' = {u \in untracked : u.rec # p.rec}
    /\ turn' = [turn EXCEPT ![c] = {p}]
    /\ Goto(c, "sweep")
    /\ UNCHANGED <<pending, txnVars, plan, cache, stamp, overflowed>>

SweepVersions(c) ==
  \E p \in turn[c] :
    /\ pc[c] = "sweep"
    /\ owner = NoConnection
    /\ file' = [file EXCEPT !.versions = {v \in @ : v.rec # p.rec}]
    /\ Advance(c)
    /\ Goto(c, "stamp")
    /\ UNCHANGED <<pending, txnVars, cache, stamp, untracked, overflowed>>

HasTombstone(d, r) == \E t \in d.tombs : t.rec = r

HasRow(d, r) == \E row \in d.rows : row.rec = r

\* SELECT 1 FROM the tombstones: a statement of its own, like the write that
\* follows it.  Another connection may come in between.
CheckTombstone(c) ==
  \E p \in Firsts(plan[c]) :
    /\ pc[c] = "stamp"
    /\ p.op # "DELETE"
    /\ turn' = [turn EXCEPT ![c] = {p}]
    /\ Goto(c, IF HasTombstone(file, p.rec) THEN "enforce" ELSE "version")
    /\ UNCHANGED <<fileVars, txnVars, plan, cache, stamp, overflowed, untracked>>

\* Faulty variant: a local write brings the record back.
Resurrect(c) ==
  \E p \in turn[c] :
    /\ pc[c] = "enforce"
    /\ owner = NoConnection
    /\ file' = [file EXCEPT !.tombs = {t \in @ : t.rec # p.rec}]
    /\ untracked' = untracked \ {Key(p)}
    /\ Advance(c)
    /\ Goto(c, "stamp")
    /\ UNCHANGED <<pending, txnVars, cache, stamp, overflowed>>

\* The row of a tombstoned record is deleted again, and the delete trigger
\* queues that like any other.  The tombstone covers this deletion too.
EnforceTombstone(c) ==
  \E p \in turn[c] :
    LET again == IF HasRow(file, p.rec)
                   THEN {[op |-> "DELETE", rec |-> p.rec, col |-> NoColumn]}
                   ELSE {}
    IN  /\ pc[c] = "enforce"
        /\ owner = NoConnection
        /\ file' = [file EXCEPT !.rows = RowsBut(@, p.rec)]
        /\ pending' = Enqueue(pending, again)
        /\ untracked' = untracked \ Keys({p} \cup again)
        /\ Advance(c)
        /\ Goto(c, "stamp")
        /\ UNCHANGED <<txnVars, cache, stamp, overflowed>>

\* Faulty variants of the next: INSERT alone and INSERT OR IGNORE.
Appended(versions, v) == versions \cup {v}

KeptOld(versions, v) ==
  IF \E u \in versions : SameKey(u, v) THEN versions ELSE versions \cup {v}

\* INSERT OR REPLACE INTO the versions table.
Replaced(versions, v) == {u \in versions : ~ SameKey(u, v)} \cup {v}

StampedVersion(c, p) ==
  [rec |-> p.rec, col |-> p.col, cv |-> ColVersion(cache[c], p) + 1,
   dv |-> stamp[c], node |-> Self, local |-> stamp[c]]

StampColumn(c) ==
  \E p \in turn[c] :
    /\ pc[c] = "version"
    /\ owner = NoConnection
    /\ file' = [file EXCEPT !.versions = Replaced(@, StampedVersion(c, p))]
    /\ untracked' = untracked \ {Key(p)}
    /\ Advance(c)
    /\ Goto(c, "stamp")
    /\ UNCHANGED <<pending, txnVars, cache, stamp, overflowed>>

AdvanceClock(c) ==
  /\ pc[c] = "stamp"
  /\ plan[c].rows = {}
  /\ owner = NoConnection
  /\ file' = [file EXCEPT !.clock = stamp[c]]
  /\ Goto(c, "clear")
  /\ UNCHANGED <<pending, txnVars, loopVars, untracked, overflowed>>

ClearPending(c) ==
  /\ pc[c] = "clear"
  /\ owner = NoConnection
  /\ pending' = EmptyQueue
  /\ Forget(c)
  /\ Goto(c, "idle")
  /\ UNCHANGED <<file, txnVars, untracked, overflowed>>

AtWrite(c) ==
  \/ pc[c] = "clock" /\ file.clock >= ClockMax
  \/ pc[c] = "stamp" /\ plan[c].rows = {}
  \/ pc[c] = "stamp" /\ \E p \in Firsts(plan[c]) : p.op = "DELETE"
  \/ pc[c] \in {"sweep", "enforce", "version", "clear"}

\* Faulty variant: a busy handler that waits for the lock.
WaitForLock(c) == AtWrite(c) /\ owner # NoConnection /\ UNCHANGED vars

\* The write lock is taken: SQLITE_BUSY, before any transaction begins.
Busy(c) ==
  /\ AtWrite(c)
  /\ owner # NoConnection
  /\ Forget(c)
  /\ Goto(c, "idle")
  /\ UNCHANGED <<fileVars, txnVars, untracked, overflowed>>

\* A write fails.  SQLite rolls its transaction back and calls
\* rollback_callback, whose DELETE may fail for the same reason.
FailProcessing(c) ==
  /\ "failure" \in Faults
  /\ AtWrite(c)
  /\ owner = NoConnection
  /\ pending' \in {EmptyQueue, pending}
  /\ Forget(c)
  /\ Goto(c, "idle")
  /\ UNCHANGED <<file, txnVars, untracked, overflowed>>

-----------------------------------------------------------------------------
(* merge_changes.                                                          *)

BeginMerge(c) ==
  \E x \in Incoming :
    /\ pc[c] = "idle"
    /\ ~ overflowed[c]
    /\ owner = NoConnection
    /\ WithinBounds
    /\ owner' = c
    /\ view' = Merged(file, x)
    /\ viewPending' = pending
    /\ Goto(c, "merging")
    /\ UNCHANGED <<fileVars, loopVars, wrote, untracked, overflowed>>

CommitMerge(c) ==
  /\ pc[c] = "merging"
  /\ view.clock <= ClockMax
  /\ EndTransaction(c, view, viewPending)
  /\ Goto(c, "scan")
  /\ UNCHANGED <<loopVars, untracked, overflowed>>

\* An exception in the loop, or the clock at its end, and the ROLLBACK of the
\* catch block.
AbortMerge(c) ==
  /\ "rollback" \in Faults \/ view.clock > ClockMax
  /\ pc[c] = "merging"
  /\ EndTransaction(c, file, EmptyQueue)
  /\ Goto(c, "scan")
  /\ UNCHANGED <<loopVars, untracked, overflowed>>

-----------------------------------------------------------------------------
\* The process dies, with every connection in it.
Crash ==
  /\ "crash" \in Faults
  /\ \E c \in Connection : pc[c] # "closed"
  /\ EndTransaction(owner, file, pending)
  /\ pc' = [c \in Connection |-> "closed"]
  /\ plan' = [c \in Connection |-> EmptyQueue]
  /\ turn' = [c \in Connection |-> {}]
  /\ cache' = [c \in Connection |-> {}]
  /\ stamp' = [c \in Connection |-> 0]
  /\ overflowed' = [c \in Connection |-> FALSE]
  /\ UNCHANGED untracked

ProcessPendingChanges(c) ==
  \/ ScanPending(c)
  \/ FillCache(c)
  \/ ReadClock(c)
  \/ OverflowClock(c)
  \/ EntombRecord(c)
  \/ SweepVersions(c)
  \/ CheckTombstone(c)
  \/ EnforceTombstone(c)
  \/ StampColumn(c)
  \/ AdvanceClock(c)
  \/ ClearPending(c)
  \/ Busy(c)
  \/ FailProcessing(c)

ConnectionStep(c) ==
  \/ Open(c)
  \/ FirstStatement(c)
  \/ NextStatement(c)
  \/ CommitTransaction(c)
  \/ RollbackTransaction(c)
  \/ ProcessPendingChanges(c)
  \/ BeginMerge(c)
  \/ CommitMerge(c)
  \/ AbortMerge(c)

Next == Crash \/ \E c \in Connection : ConnectionStep(c)

Spec == Init /\ [][Next]_vars

\* The thread that committed runs wal_callback to its end; nothing makes the
\* user commit or roll back a transaction that is open.
FairSpec == Spec /\ \A c \in Connection : WF_vars(ProcessPendingChanges(c))

Processing == {c \in Connection : pc[c] \notin {"closed", "idle", "writing", "merging"}}

-----------------------------------------------------------------------------
(* Properties.                                                             *)

\* Every variable has its type, the primary keys of the tables hold, and the
\* write lock is with a connection that writes or merges.
TypeOK ==
  /\ file \in Database /\ KeysUnique(file)
  /\ view \in Database /\ KeysUnique(view)
  /\ pending \in Queue
  /\ viewPending \in Queue
  /\ pc \in [Connection -> Places]
  /\ plan \in [Connection -> Queue]
  /\ turn \in [Connection -> SUBSET Pending]
  /\ cache \in [Connection -> SUBSET VersionRow]
  /\ stamp \in [Connection -> Nat]
  /\ overflowed \in [Connection -> BOOLEAN]
  /\ wrote \cup untracked \subseteq [rec : Record, col : Column \cup {NoColumn}]
  /\ \A c \in Connection : pc[c] \in {"writing", "merging"} <=> owner = c

Remembered(u) ==
  u \in Keys(pending.rows) \/ \E c \in Connection : u \in Keys(plan[c].rows)

\* Whatever a committed transaction changed and has no version or tombstone
\* yet is still in the pending table, or in the plan of a connection that is
\* processing it: no committed change is forgotten.
ChangesRemembered == \A u \in untracked : Remembered(u)

\* The commit that calls process_pending_changes returns, however long another
\* instance keeps a transaction, and with it the write lock, to itself.
ProcessingEnds == \A c \in Connection : c \in Processing ~> c \notin Processing

\* Every committed change gets its version or tombstone in the end.
ChangesTracked ==
  \A u \in [rec : Record, col : Column \cup {NoColumn}] :
    u \in untracked ~> u \notin untracked

\* The steps that may empty the pending table before all of it is versioned.
\* A failure of the last DELETE is none of them.
Drops ==
  \E c \in Connection :
    \/ RollbackTransaction(c)
    \/ AbortMerge(c)
    \/ FailProcessing(c) /\ pc[c] # "clear"
    \/ OverflowClock(c)

\* A committed change is forgotten by nothing but the DELETE of a rollback, of
\* a failure or of the clock's overflow: whenever the process dies, what was
\* pending or planned is found again in the pending table.
LossesAreDrops ==
  [][(\A u \in untracked' : (u \in untracked => Remembered(u)) => Remembered(u)')
       \/ Drops]_vars

\* A row of r without versions, or versions without a row, are on their way:
\* r is tombstoned or the pending table holds the change.
Matched(r) ==
  LET versioned == \E v \in file.versions : v.rec = r
      queued(op) == \E p \in pending.rows : p.op = op /\ p.rec = r
  IN  ~ HasTombstone(file, r) =>
        /\ HasRow(file, r) /\ ~ versioned => queued("INSERT")
        /\ versioned /\ ~ HasRow(file, r) => queued("DELETE")

\* The rows and the versions of a record come apart by no step but the DELETE
\* of a rollback, of a failure or of the clock's overflow, wherever the
\* processing is interrupted and however often it starts again.
MismatchesAreDrops ==
  [][(\A r \in Record : Matched(r) => Matched(r)') \/ Drops]_vars

\* No stamp in the file is ahead of the clock by more than one, the stamp
\* that processing had not finished with: the next clock that is read
\* dominates the file again.
AheadByOne ==
  /\ \A v \in file.versions : v.dv <= file.clock + 1 /\ v.local <= file.clock + 1
  /\ \A t \in file.tombs : t.dv <= file.clock + 1 /\ t.local <= file.clock + 1

\* The clock of the file never goes back.
ClockAdvances == [][file'.clock >= file.clock]_vars

\* The version of a column never goes back, whatever fails: it stays, grows
\* or is buried under a tombstone.
VersionsAdvance == [][VersionsKept(file, file')]_vars

\* The record of a deletion stays, whoever processes what at the same time.
TombstonesStay ==
  [][\A t \in file.tombs : HasTombstone(file', t.rec)]_vars

-----------------------------------------------------------------------------
(* The atomic file.                                                        *)

\* The file without what connection c has not come to in its plan: versions
\* it will replace are what they were when it filled its cache.
Before(c) ==
  [file EXCEPT
     !.clock = stamp[c] - 1,
     !.versions = {v \in @ : Key(v) \notin Keys(plan[c].rows)}
                    \cup {v \in cache[c] : /\ Key(v) \in Keys(plan[c].rows)
                                           /\ \E u \in file.versions : SameKey(u, v)}]

\* The file as it will be when the processing under way is done.
Settled ==
  IF Processing = {} THEN file
  ELSE LET c == CHOOSE k \in Processing : TRUE
       IN  CASE pc[c] \in {"scan", "cache", "clock"} /\ pending.rows # {} ->
                  ProcessPending(file, Self, pending.rows)
             [] pc[c] \in {"stamp", "sweep", "enforce", "version"} ->
                  ProcessPending(Before(c), Self, plan[c].rows)
             [] OTHER -> file

Atomic == INSTANCE AtomicFile WITH db <- Settled

\* A transaction and the many commits of its processing are one step of the
\* file, whatever rows it left in the pending table and in whatever order;
\* a merge is one step, and a rollback is none.
ProcessingIsAtomic == Atomic!Spec
=============================================================================
