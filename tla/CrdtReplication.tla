--------------------------- MODULE CrdtReplication ---------------------------
(***************************************************************************)
(* Replicas of one tracked table that exchange the changes of              *)
(* get_changes_since over a network that loses, delays, reorders and       *)
(* duplicates them, and merge them with merge_changes.                     *)
(*                                                                         *)
(* Each replica is one CRDTSQLite object on a database file of its own.    *)
(* A committed transaction of the user and the process_pending_changes     *)
(* that wal_callback runs after it are one step here (module               *)
(* ChangeTracking takes them apart).  merge_changes is one step for each   *)
(* change, inside the transaction it opens.                                *)
(***************************************************************************)
EXTENDS CrdtDatabase

CONSTANTS
  UserCell,   \* the cells that users write
  MaxClock,   \* bound on every logical clock (the code's own is UINT64_MAX)
  MaxBatches  \* bound on the batches in flight

\* A table has a column besides its primary key, which is left out here.
ASSUME TableAssumption    == Column # {}
ASSUME UserCellAssumption == UserCell \subseteq Cell
ASSUME BoundAssumption    == MaxClock \in Nat /\ MaxBatches \in Nat

VARIABLES
  db,       \* db[n]: the committed contents of n's database file
  merging,  \* merging[n]: merge_changes has an open transaction
  work,     \* work[n]: the database as that transaction sees it
  batch,    \* batch[n]: the changes passed to merge_changes
  todo,     \* todo[n]: the changes the loop has not reached
  net,      \* the batches in flight
  seen      \* history: the stamps of all that n wrote or merged

vars == <<db, merging, work, batch, todo, net, seen>>

Batch == [to : Node, changes : SUBSET Change]

StampRow == [rec : Record, col : Column \cup {NoColumn}, cv : Nat,
             dv : Nat, node : Node]

Stamps(changes) == {Stamp(x) : x \in changes}

Init ==
  /\ db = [n \in Node |-> EmptyDatabase]
  /\ merging = [n \in Node |-> FALSE]
  /\ work = db
  /\ batch = [n \in Node |-> {}]
  /\ todo = [n \in Node |-> {}]
  /\ net = {}
  /\ seen = [n \in Node |-> {}]

-----------------------------------------------------------------------------
(* Transactions of the user.                                               *)

\* A transaction that leaves the rows `rows' and the pending rows `pend'
\* commits, and wal_callback processes the pending rows.
Commit(n, rows, pend) ==
  LET d == ProcessPending([db[n] EXCEPT !.rows = rows], n, pend)
  IN  /\ ~ merging[n]
      /\ db[n].clock < MaxClock
      /\ db' = [db EXCEPT ![n] = d]
      /\ work' = [work EXCEPT ![n] = d]
      /\ seen' = [seen EXCEPT ![n] = @ \cup Stamps(GetChangesSince(d, 0, {}))]
      /\ UNCHANGED <<merging, batch, todo, net>>

\* INSERT, or INSERT OR REPLACE of a row that is there: the trigger reports
\* every column.
InsertRow(n) ==
  \E r \in Record, cells \in [Column -> UserCell] :
    Commit(n, RowsBut(db[n].rows, r) \cup {[rec |-> r, cells |-> cells]},
           [op : {"INSERT"}, rec : {r}, col : Column])

\* UPDATE: the trigger reports the columns whose value changed.
UpdateRow(n) ==
  \E row \in db[n].rows, cells \in [Column -> Cell] :
    LET changed == {c \in Column : cells[c] # row.cells[c]}
    IN  /\ changed # {}
        /\ \A c \in changed : cells[c] \in UserCell
        /\ Commit(n, RowsBut(db[n].rows, row.rec)
                       \cup {[rec |-> row.rec, cells |-> cells]},
                  [op : {"UPDATE"}, rec : {row.rec}, col : changed])

\* DELETE of a row that was there when the transaction began, or that the
\* transaction inserted itself.
DeleteRow(n) ==
  \E r \in Record :
    Commit(n, RowsBut(db[n].rows, r),
           [op : {"DELETE"}, rec : {r}, col : {NoColumn}])

-----------------------------------------------------------------------------
(* Exchange.  The cursor and the excluded nodes are the caller's choice.   *)

Send(n) ==
  \E m \in Node \ {n}, since \in 0 .. db[n].clock :
    \E excluded \in {{}, {m}} :
      /\ ~ merging[n]
      /\ Cardinality(net) < MaxBatches
      /\ net' = net \cup
           {[to |-> m, changes |-> GetChangesSince(db[n], since, excluded)]}
      /\ UNCHANGED <<db, merging, work, batch, todo, seen>>

Lose ==
  \E b \in net :
    /\ net' = net \ {b}
    /\ UNCHANGED <<db, merging, work, batch, todo, seen>>

-----------------------------------------------------------------------------
(* merge_changes.                                                          *)

\* BEGIN TRANSACTION.  The batch may come again: net keeps it.
BeginMerge(n) ==
  \E b \in net :
    /\ b.to = n
    /\ ~ merging[n]
    /\ db[n].clock < MaxClock
    /\ \A x \in b.changes : x.dv < MaxClock
    /\ merging' = [merging EXCEPT ![n] = TRUE]
    /\ batch' = [batch EXCEPT ![n] = b.changes]
    /\ todo' = [todo EXCEPT ![n] = b.changes]
    /\ UNCHANGED <<db, work, net, seen>>

\* get_changes_since lists the columns, in an order of SQLite's choice,
\* before the deletions.
NextInBatch(n, x) ==
  /\ x \in todo[n]
  /\ x.col = NoColumn => \A y \in todo[n] : y.col = NoColumn

Merge(n, x, d) ==
  /\ work' = [work EXCEPT ![n] = d]
  /\ todo' = [todo EXCEPT ![n] = @ \ {x}]
  /\ UNCHANGED <<db, merging, batch, net, seen>>

MergeColumn(n) ==
  \E x \in todo[n] :
    /\ NextInBatch(n, x)
    /\ x.col # NoColumn
    /\ \/ Accepts(work[n], x) /\ Merge(n, x, ColumnAccepted(work[n], x))
       \/ ~ Accepts(work[n], x) /\ Merge(n, x, Rejected(work[n], x))

MergeDeletion(n) ==
  \E x \in todo[n] :
    /\ NextInBatch(n, x)
    /\ x.col = NoColumn
    /\ \/ /\ ~ IsTombstoned(work[n], x)
          /\ Merge(n, x, DeletionAccepted(work[n], x))
       \/ IsTombstoned(work[n], x) /\ Merge(n, x, Rejected(work[n], x))

\* The clock is advanced and COMMIT makes the transaction's view the file.
CommitMerge(n) ==
  LET d == [work[n] EXCEPT !.clock = @ + 1]
  IN  /\ merging[n]
      /\ todo[n] = {}
      /\ db' = [db EXCEPT ![n] = d]
      /\ work' = [work EXCEPT ![n] = d]
      /\ merging' = [merging EXCEPT ![n] = FALSE]
      /\ batch' = [batch EXCEPT ![n] = {}]
      /\ seen' = [seen EXCEPT ![n] = @ \cup Stamps(batch[n])]
      /\ UNCHANGED <<todo, net>>

\* A statement throws (a constraint, a conversion, a full disk) and the
\* catch block runs ROLLBACK, or the process dies before COMMIT.
AbortMerge(n) ==
  /\ merging[n]
  /\ merging' = [merging EXCEPT ![n] = FALSE]
  /\ work' = [work EXCEPT ![n] = db[n]]
  /\ batch' = [batch EXCEPT ![n] = {}]
  /\ todo' = [todo EXCEPT ![n] = {}]
  /\ UNCHANGED <<db, net, seen>>

-----------------------------------------------------------------------------
NodeStep(n) ==
  \/ InsertRow(n)
  \/ UpdateRow(n)
  \/ DeleteRow(n)
  \/ Send(n)
  \/ BeginMerge(n)
  \/ MergeColumn(n)
  \/ MergeDeletion(n)
  \/ CommitMerge(n)
  \/ AbortMerge(n)

Next == Lose \/ \E n \in Node : NodeStep(n)

Spec == Init /\ [][Next]_vars

-----------------------------------------------------------------------------
(* Properties.                                                             *)

\* Every variable has its type, and the primary keys of the three tables
\* hold in the file and in the view of an open merge.
TypeOK ==
  /\ db \in [Node -> Database]
  /\ work \in [Node -> Database]
  /\ merging \in [Node -> BOOLEAN]
  /\ batch \in [Node -> SUBSET Change]
  /\ todo \in [Node -> SUBSET Change]
  /\ net \in SUBSET Batch
  /\ seen \in [Node -> SUBSET StampRow]
  /\ \A n \in Node : KeysUnique(db[n]) /\ KeysUnique(work[n])

\* No row of a replica carries a logical time beyond the replica's clock, so
\* that get_changes_since(get_clock()) never has a change to return and the
\* next local transaction is later than all the replica has merged.
ClockDominates == \A n \in Node : Dominated(db[n]) /\ Dominated(work[n])

\* The node that x is stamped with has handed the stamp out.
Past(x) == x.dv <= db[x.node].clock

TablesPast(d) == (\A v \in d.versions : Past(v)) /\ (\A t \in d.tombs : Past(t))

\* No stamp of node m, in whatever replica, open merge or batch it is found,
\* lies beyond m's own clock: a stamp that m's next transaction hands out is
\* new in the whole system, which is what makes (db_version, node_id) a
\* version.
StampsFromThePast ==
  /\ \A n \in Node : /\ TablesPast(db[n])
                     /\ TablesPast(work[n])
                     /\ \A x \in batch[n] : Past(x)
                     /\ \A x \in todo[n] : Past(x)
                     /\ \A s \in seen[n] : Past(s)
  /\ \A b \in net : \A x \in b.changes : Past(x)

\* Version rows and stamps: the versions are the greatest of the stamps.
DeletionIn(stamps, r) == \E s \in stamps : s.rec = r /\ s.col = NoColumn

Newest(d, stamps) ==
  /\ \A v \in d.versions : Stamp(v) \in stamps
  /\ \A s \in stamps : ~ DeletionIn(stamps, s.rec) =>
       \E v \in d.versions : SameKey(v, s) /\ AtLeast(v, s)

\* The LWW merge is a join: whatever the order, loss and repetition of the
\* batches, a replica holds for each column of a record the greatest version
\* it ever wrote or was offered, and nothing it was not.  Two replicas that
\* were offered the same changes hold the same versions.  (For records no
\* deletion of which reached the replica.)
HoldsNewest == \A n \in Node : Newest(db[n], seen[n])

HasTombstone(n, r) == \E t \in db[n].tombs : t.rec = r

Undeleted(r) == \A n \in Node : ~ HasTombstone(n, r)

\* Replicas that hold the same version of a column hold the same value of
\* it, up to the text a NULL turns into on the way.  (For records that nobody
\* has deleted: a merged deletion leaves versions without a value, and those
\* are sent on.)
SameVersionSameValue ==
  \A n, m \in Node : \A v \in db[n].versions, u \in db[m].versions :
    Stamp(v) = Stamp(u) /\ Undeleted(v.rec)
      => WireValue(db[n].rows, v) = WireValue(db[m].rows, u)

\* A record without a tombstone is in the table exactly if it has versions:
\* no row escapes get_changes_since and no version is sent without its row.
RowsTracked ==
  \A n \in Node, r \in Record :
    ~ HasTombstone(n, r) =>
      ((\E row \in db[n].rows : row.rec = r)
         <=> (\E v \in db[n].versions : v.rec = r))

\* A row coexists with a tombstone of its record only because a column
\* change later than the tombstone was merged after it.
RowOutlivesTombstone ==
  \A n \in Node : \A row \in db[n].rows, t \in db[n].tombs :
    row.rec = t.rec =>
      \E v \in db[n].versions : v.rec = t.rec /\ ~ NotBefore(t, v)

\* A tombstone is never lost, and replaced only by a later one: a deletion,
\* once known, screens what it screened for ever.
TombstonesAdvance == [][\A n \in Node : TombsKept(db[n], db'[n])]_vars

\* The version of a column never goes back: a step of a replica leaves it,
\* replaces it by a greater one, or buries the record for ever.
VersionsAdvance == [][\A n \in Node : VersionsKept(db[n], db'[n])]_vars

\* The versions that a step adds.
Added(n) == {v \in db'[n].versions : \A u \in db[n].versions : Stamp(u) # Stamp(v)}

\* A peer that keeps get_clock() as its cursor misses nothing that the
\* replica itself writes: a version the step adds under the replica's own
\* node id has a local_db_version beyond any clock read before the step.
OwnWritesPassCursors ==
  [][\A n \in Node : \A v \in Added(n) :
       v.node = n => v.local > db[n].clock]_vars

\* A local deletion screens all that the replica had heard of the record,
\* what it rejected included: whoever merges the tombstone keeps out every
\* change that the one who deleted had known.
DeletionsScreenThePast ==
  [][\A n \in Node : \A t \in db'[n].tombs \ db[n].tombs :
       t.node = n =>
         \A s \in seen[n] : s.rec = t.rec => Screens(t, s)]_vars

-----------------------------------------------------------------------------
(* What the repository says and the code does not do: each of these is the *)
(* one property of a run that shows a violation.                           *)

\* get_changes_since returns the "changes that occurred after
\* last_db_version": whatever appears in the versions table, merged changes
\* included, lies beyond every clock a peer may have kept as its cursor.
NewsPassesCursors ==
  [][\A n \in Node : \A v \in Added(n) : v.local > db[n].clock]_vars

\* Conflict-free replication: replicas that wrote or merged the same changes
\* have the same records in the table.
SameChangesSameRecords ==
  \A n, m \in Node :
    seen[n] = seen[m] =>
      {row.rec : row \in db[n].rows} = {row.rec : row \in db[m].rows}
=============================================================================
