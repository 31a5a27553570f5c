# crdt-sqlite in TLA+

Specifications of the C++ class `CRDTSQLite` (`src/crdt_sqlite.cpp`,
`src/crdt_sqlite.hpp`): a SQLite table whose changes are tracked column by
column, exported with `get_changes_since` and merged with `merge_changes` under
last-write-wins rules.

## The system

| Component | State | Operations |
|---|---|---|
| Shadow tables | `_versions` (record, column -> col_version, db_version, node, local_db_version), `_tombstones`, `_clock`, `_pending`, `_types` | written by all the others |
| Change tracking | triggers, `_pending`, `processing_wal_changes_` | trigger on INSERT/UPDATE/DELETE, `wal_callback`, `process_pending_changes`, `rollback_callback` |
| Export | none | `get_changes_since`, `get_changes_since_excluding` |
| Merge | one SQLite transaction | `merge_changes`, `apply_to_sqlite` |
| Synchronization workflow | the application's cursors and pages | ask, merge, move the cursor |
| Compaction | tombstones | `compact_tombstones` |
| Schema | `cached_columns_`, `column_types_`, triggers, `pending_schema_refresh_` | `enable_crdt`, `execute`, `refresh_schema`, `authorizer_callback`, `TriggerGuard` |
| Values | none | `SQLiteValue::to_string`, `from_string`, `cache_column_types` |
| Clock | `_clock`, `clock_overflow_` | `get_clock`, the overflow branches |
| Swift port | the same tables | its own merge, tracking and export |

A user's transaction fires triggers that queue rows in `_pending`, in the
same transaction. After COMMIT, SQLite calls `wal_callback`, which runs
`process_pending_changes`: it reads `_pending`, assigns one new clock value to
all of it, writes versions and tombstones, stores the clock, and empties
`_pending`. Each of these writes is an autocommit transaction. A rollback of
any transaction calls `rollback_callback`, which empties `_pending`.
`merge_changes` runs in one transaction, with the triggers dropped inside it
and restored from the cached columns. `execute` refreshes triggers and cache
after statements in which the authorizer saw an ALTER TABLE. Nodes share
nothing but the changes that the application carries between them.

What is hard here: delivery in any order and number; ties between nodes;
tombstones against columns, which are compared in different orders; the many
commits of one processing, between which the process can die, a statement can
fail and another connection can write; the shared `_pending` and `_clock`; the
local stamps by which peers decide what they have seen; memory (cache, flags)
that does not roll back with the tables it describes; and values that lose
their type on the wire. `PROJECT.json` lists the hazards with their lines.

What makes each part correct:

- tracking: every committed change gets one version or tombstone, exactly as
  if transaction and processing were one step; clock and versions never go back;
- export: a version stands for one value, and new changes pass every cursor;
- merge: the greatest version wins whatever the delivery, tombstones are
  kept, the tables agree with each other, and the clock is past all of it;
- workflow: cursors leave no gap, the exchange comes to rest, and replicas that
  have come past each other's writes agree; what was deleted stays so after
  compaction;
- schema: triggers and cache describe the table, or the class knows that they
  do not;
- values: what fits its column arrives as it was written.

## Modules

| Module | What it models |
|---|---|
| `CrdtDatabase` | the tables of one file as sets of rows, and as operators: the comparisons, `get_changes_since`, all of `process_pending_changes` on the rows of one transaction, one iteration of the loop of `merge_changes` |
| `CrdtReplication` | nodes with a file each; local transactions, export with any cursor and exclusion, a network that loses, repeats, delays and reorders, and `merge_changes` change by change, with abort |
| `ChangeTracking` | one file at the grain of SQLite transactions: statements of user transactions, the hooks, each read and write of `process_pending_changes`, failures, crashes, the overflow of the clock, several connections |
| `ChangeExport` | `ChangeTracking` with a reader that calls `get_changes_since` whenever it may |
| `AtomicFile` | the promise: a transaction with its processing is one step, a merge is one step |
| `SyncSession` | the loop of the application over the calls of the library: cursors, exclusion, pages that are lost, refused or merged twice, and `compact_tombstones` |
| `TypedValues` | a value on its way: `to_string`, `from_string`, the types `cache_column_types` finds, SQLite's affinity |
| `SchemaRefresh` | ALTER TABLE ADD COLUMN on one file: triggers, cache, authorizer and flag, `refresh_schema` statement by statement, merges into the table, transactions, failures, crash and restart |
| `CrdtDatabaseProofs` | lemmas on the operators of `CrdtDatabase`: types and keys, growth, rows and versions, values |
| `CrdtReplicationProofs` | types, clock, stamps, newest versions and growth of `CrdtReplication` |
| `ReplicaProofs` | the other properties of `CrdtReplication` |
| `TrackingProofs` | types, tombstones, clock and pending table of `ChangeTracking` |
| `ProcessingProofs` | its versions and rows |
| `AtomicProofs` | that it implements `AtomicFile`; what `ChangeExport` returns |
| `SyncProofs` | the safety of `SyncSession` |
| `SchemaRefreshProofs` | cache, triggers and values of `SchemaRefresh` |
| `MCReplication`, `MCTracking`, `MCExport`, `MCSync`, `MCSchema` | model values, remote changes and symmetry for TLC |

How they fit together: `CrdtReplication` and `SyncSession` take a transaction
with its processing for one step (`ProcessPending`). `ChangeTracking` shows
that this is right: its many commits implement `AtomicFile`, whose
`Transaction` applies the same operator (property `ProcessingIsAtomic`, with
the refinement mapping `Settled`, the file as it will be when the processing
under way is done). The refinement holds with one connection and without
crashes and failures; the runs `faults` and `shared_file` say what is left
beyond that, and the violation runs how it breaks. `SyncSession` takes a merge
for one step, which `CrdtReplication` takes apart.

### State and actions

`CrdtDatabase`: `db[n]` / `file` holds `rows`, `versions`, `tombs` and `clock`.

`CrdtReplication`: a merge works on `work[n]` until COMMIT copies it to
`db[n]`; `batch[n]` and `todo[n]` are the changes it was given and those it
has not come to; `net` is what is on its way; `seen` is history. `Send` is
`get_changes_since(_excluding)`, `BeginMerge`, `MergeColumn`, `MergeDeletion`,
`CommitMerge` and `AbortMerge` are `merge_changes`.

`ChangeTracking`: `view` and `viewPending` are the tables as the open
transaction sees them, `owner` is the connection with SQLite's write lock.
`pending` is a set of rows with the relation `before`, the order of their
rowids, since the scan returns them so and INSERT OR REPLACE gives a row a new
rowid behind all the others. Rows that one statement queues are not ordered
among themselves. `pc[c]` is the place in `process_pending_changes`; `plan`,
`cache` and `stamp` are its `pending_changes`, `version_cache` and
`current_clock`; `turn` is the row of the iteration under way; `overflowed` is
`clock_overflow_`. The delete trigger also fires for the row that
`EnforceTombstone` removes, and queues it. `CheckTombstone` and the write that follows it are two
steps, as they are two statements. `wrote` and `untracked` are history.

`SyncSession`: `cursor[m][n]` is the `last_db_version` that m asks n with,
`page[m][n]` the answer on its way. `Ask` is `get_changes_since_excluding`,
`Deliver` a `merge_changes` after which the cursor is the greatest
`local_db_version` of the page, `DeliverAgain` the same with the cursor lost,
`RefusePage` a `merge_changes` that throws. `mourned` is history.

`SchemaRefresh`: `view` is what the connection's transaction sees and `file`
what is committed, triggers included: they are in the file and roll back with
it. `column_types` (`column_types_` and `cached_columns_`) and
`pending_refresh` (`pending_schema_refresh_`) are in memory and do not. `pc`
and `at` say how far `execute` and `refresh_schema` are. `origin` and `blind`
in a cell, and `refused`, are history: the value as it was first written,
whether it was merged under a cache that did not fit, and the change a merge
has just thrown back.

No action reads a history variable. Definitions marked "Faulty variant" are
not part of any specification. Each is a plausible bug put in the place of the
definition it stands before, to see that a property notices it.

### Abstractions

- Values are model values in all modules but `TypedValues` and
  `SchemaRefresh`; what matters elsewhere is whether a value is NULL, that NULL
  travels as the text `NullText`, and (in `SyncSession`, by `Parsed`) that a
  number cannot be made of that text. In `TypedValues` numbers are counted in
  halves, those so small that `std::stod` throws are left out, and texts are
  told apart by what the parsers and C strings see in them: a number, letters
  behind it, the form of a blob, that form torn, a word, a word with a NUL.
- The changes that are merged in `CrdtReplication` and `SyncSession` come of
  `get_changes_since`, which gives each column a text (`Texts`). A caller of
  `merge_changes` may also pass a column without a value (`std::nullopt`): the
  version is written, and no row is inserted (crdt_sqlite.cpp:1364).
  `ApplyColumn` has that too, and `shared_file` merges such a change; a version
  without a row is what follows, so the theorems on rows assume
  `Texts(Incoming)`.
- The column of the primary key is left out: the triggers track it like any
  other, its value is always the record id. Some theorems assume that there is a
  column: `create_triggers` lists every column of the table, and a table has
  one.
- `local_db_version` of a change on the wire is left out where no one reads it;
  `SyncSession` has it, for the cursors.
- A trigger lists the columns in the order of the table; `Enqueue` leaves the
  order within one statement open.
- In `CrdtReplication` and `SyncSession` a transaction is one statement;
  `ChangeTracking` has transactions of several. In `ChangeTracking` a merge has
  one change; the other two have batches.
- A batch is a set in `CrdtReplication`, a sequence in `SyncSession`.
  `get_changes_since` has no ORDER BY, so any order is possible, columns before
  deletions. Pages are whole: there is no LIMIT.
- `get_changes_since` is called outside transactions of its connection.
- `SchemaRefresh` follows the cells of one row. Its merges carry what replicas
  with the same types wrote or stored; that closes the loop of many hops.
- A statement that `execute` refuses because of `clock_overflow_` is not
  told apart from one of `prepare`, which does not ask.

## Runs

Bounds are named constants in the guards: `MaxClock`, `MaxVersion` (clock and
column versions), `MaxBatches` (batches in flight), `MaxQueue` (rows of the
pending table when a statement runs), `MaxWrites` (transactions of users),
`MaxFaults` (lost pages and cursors). `ClockMax` stands for `UINT64_MAX`.

| Run | Instance | Shows |
|---|---|---|
| `replication` | 2 nodes, 1 record, 1 column, clock to 3, 2 batches | all of `CrdtReplication`: `TypeOK`, `ClockDominates`, `StampsFromThePast`, `HoldsNewest`, `SameVersionSameValue`, `RowsTracked`, `RowOutlivesTombstone`, `TombstonesAdvance`, `VersionsAdvance`, `OwnWritesPassCursors`, `DeletionsScreenThePast` |
| `tracking` | 1 connection, 2 columns, rollbacks, merges, a reader | `StampNamesOneValue`, `ChangesRemembered`, `ChangesTracked` (liveness), `ProcessingIsAtomic` (refinement of `AtomicFile`) |
| `faults` | 1 connection, crashes, failures, rollbacks, and `ClockMax` within reach | `TypeOK`, `AheadByOne`, `ClockAdvances`, `VersionsAdvance`, `LossesAreDrops`, `MismatchesAreDrops` |
| `shared_file` | 2 connections, merges of a column with and without a value and of a deletion | `TombstonesStay`, `ProcessingEnds` (liveness) |
| `sync` | 2 nodes, 2 columns, one of them a number, 3 writes, 1 fault, compaction once settled | `TypeOK`, `CursorsLeaveNoGap`, `SyncedReplicasAgree`, `NoResurrection`, `SyncedOrRefused` (liveness) |
| `schema` | 1 column in 5 declared types, values of every class, all faults | `TypeOK`, `CacheLagsWhileDue`, `ConformingValuesArrive`, `ConformingValuesAreTaken`, `MissesAreKnown`, `GhostsAreRollbacks` |

Why this is enough: records do not interact, so one suffices
(`early_compaction` has two, since compaction goes by a version that any
record may have). Two columns show what a partly delivered or partly processed
record does; `replication` makes do with one, because its properties speak of
one column at a time and are proved for any number. Two clock values per node
already give ties and inversions between nodes, a third an update after a
merge; a second batch in flight gives reordering, and since batches stay in the
network until they are lost, one is enough for repetition. The remote changes
of `ChangeTracking` are a first and a second version and a deletion, so that
each branch of the merge is taken before and after local changes; in `faults`
the clock reaches `ClockMax` by transactions and by merges. Three writes give a
record that is inserted, deleted and updated elsewhere, before and after the
exchange; one fault gives a gap or a repetition. In `schema` one column is
added in a type that is any of five and altered in, across and out of
transactions; cache, triggers and table either know it or not, and a second
column adds no third case. Its values are an even and an odd negative number of
halves, a word, a word with a NUL behind it, a number with letters behind it,
the torn text of a blob, a blob, the empty blob and NULL: one for every branch
of `from_string`, and the boundary values of binding.

`sync` has two replicas. Of more, each of which leaves out its own changes only,
two hand the versions of a third back and forth for ever (`handed_back`), so
`SyncedOrRefused` is a statement about two. `SyncedReplicasAgree` and the contract
`"settled"` are therefore stated record by record and ask nothing that three
replicas cannot come to: that all have come past what each *wrote itself* of the
record, and that nobody has anything to send of a *deleted* record. The proofs
cover any number.

What these bounds do not reach, the proofs do for the properties they state: a
first form of `SameVersionSameValue` held in every run with two nodes and
turned out false with three when its proof failed (see below, under what the
code does not do).

Deadlock is checked wherever the model can always go on. `shared_file` and
`two_instances` stop at `MaxClock` with an idle
connection, `sync`, `refused_page` and `early_compaction` when the writes are
used up and all is synced, `handed_back` at `MaxClock`; they say
`CHECK_DEADLOCK FALSE`.

Fairness: in `ChangeTracking` (`FairSpec`) and `ChangeExport`
(`FairExportSpec`) it is weak fairness of `ProcessPendingChanges(c)`, the body of
`wal_callback`, which runs in the committing thread before COMMIT returns. That
another connection commits or rolls back what it has open is not assumed. In
`SyncSession`, `FairSpec` is weak fairness
of `Loops`, all the steps of all the applications together: that somebody goes
on asking and merging. Nothing is assumed of users, transactions, compaction or
the network; their faults are bounded by `MaxFaults` and `MaxWrites`, since a
network that loses everything delivers nothing.

### What the code does not do

Six runs end in a violation, each of one property that the repository states:

| Run | Property | In short |
|---|---|---|
| `merged_news` | `NewsPassesCursors` | merged changes get the clock before the increment as local version and stay behind cursors taken with `get_clock()` |
| `deletion_order` | `SameChangesSameRecords` | a deletion merged after a later insert removes the row, merged before it does not |
| `handed_back` | `NoEcho` | of three replicas two hand the version of the third back and forth, each accepting what it has already (crdt_sqlite.cpp:882) and stamping it as news (898) |
| `two_instances` | `ChangesRemembered` | one instance clears what the other queued |
| `early_compaction` | `NoResurrection` | the documented condition of `compact_tombstones` is met while an older change is still on its way |
| `refused_page` | `EventuallySynced` | a number updated at one node while its record is deleted at another leaves a page that is asked for and refused for ever |

More follow from the same models and have no run of their own:

- `ChangesRemembered` with `Faults = {"failure"}`: a write of
  `process_pending_changes` that fails is rolled back by SQLite, whose rollback
  hook empties the pending table, although the message at crdt_sqlite.cpp:1520
  says "Changes remain in _pending table and will retry on next commit."
  `LossesAreDrops` names it among the ways a change is lost;
- `ChangesRemembered` with `Faults = {"crash", "rollback"}`: the rollback hook
  deletes what a crash left pending;
- `StampNamesOneValue` with `"crash"` in `Faults`: after a crash, new values
  leave under old versions until the next commit, since `enable_crdt` processes
  nothing;
- `ClockAdvances` with two connections (constants of `two_instances`): one
  instance stores the clock it read before the other merged
  (crdt_sqlite.cpp:1294), and stamps repeat;
- an ALTER in a transaction that is rolled back stays in the cache
  (crdt_sqlite.cpp:1315): the next merge creates triggers on a column that is
  not there, and every UPDATE fails. `GhostsAreRollbacks` names the rollback as
  the only way;
- `SameVersionSameValue` without the premise that no node has a tombstone: a
  merged deletion removes the row and leaves the versions, whose values travel
  as the text NULL from then on, and where the equal version is stored they
  are accepted (`>=`, crdt_sqlite.cpp:882) and replace the true value. It takes
  a caller whose cursor is past the tombstone;
- NULL is written as the text NULL (crdt_sqlite.cpp:44) and read as that in a
  TEXT column: the test at test_crdt_sqlite.cpp:494 checks the sender only. An
  INTEGER or REAL column refuses it, with the whole batch: an INSERT of NULL at
  one node is enough;
- the empty blob arrives as NULL: `from_string` makes an empty vector of it
  (crdt_sqlite.cpp:84) and `sqlite3_bind_blob` takes its `data()`, a null
  pointer, for NULL (1409, 1438). A text is cut at its first NUL, when it is read
  (31) and when it is bound (1406, 1435);
- an INTEGER column that holds a fraction (SQLite allows it) arrives truncated,
  a column declared as "blob" in small letters is taken for TEXT, and a text that
  looks like a torn blob makes a merge into a BLOB column throw
  (`Conforms` leaves out these and the former two);
- an ALTER in a transaction that is rolled back takes the refreshed triggers
  back with it, but not the flag, which is down: the column, added again by
  `prepare`, is tracked after the next ALTER, merge or `refresh_schema` only. A
  crash between an ALTER and the refresh leaves the old triggers, for
  `enable_crdt` creates only missing ones. README.md:256 of the repository says
  "Fully supported, automatic". `MissesAreKnown` names these two, and a failed
  `refresh_schema` that the user called, as the only ways;
- DROP TABLE of the tracked table is not blocked: SQLite passes the table as
  the first argument of the authorizer, the code compares the second
  (crdt_sqlite.cpp:1478), although crdt_sqlite.hpp:123 says "blocked".

## Proofs

All theorems are about `Spec` of their module (`ExportSpec` in `ChangeExport`),
for every value of the constants that satisfies the ASSUMEs.

### CrdtReplication

Assumptions: node ids are naturals, `NullText` is a value and `Null` is not,
`NoColumn` is not a column, there is a column. That every column on the wire
comes with a text (`AllTexts`) is part of the invariants, not assumed. All eleven properties of the run
`replication` are proved.

- `TypeCorrect`: `[]TypeOK`, inductive as it stands. The keys of the tables
  rest on the lemmas of `CrdtDatabaseProofs` on `ProcessPending`,
  `ColumnAccepted` and `DeletionAccepted`.
- `ClockCorrect`: `[]ClockDominates`, inductive with `TypeOK`.
- `StampsCorrect`: `[]StampsFromThePast`. It needs `ClockDominates`, by which
  the clock that stamps a transaction is past all that is in the file.
- `NewestCorrect`: `[]HoldsNewest`. The invariant `JoinInv` says of an open
  merge that its view is the newest of what the node had seen and the part of
  the batch it has passed; acceptance, rejection and screening each keep it. A
  local transaction keeps it because its col_version is greater than the stored
  one.
- `AdvanceCorrect`, `VersionsCorrect`: tombstones only advance, and versions
  only grow or are buried. `GrownInv` relates the view of an open merge to the file it began
  with; growth is transitive, so the commit is one growth.
- `DeletionsCorrect`: a deletion screens all its node had heard of. `SeenBehind`
  says that the clock is past everything seen, rejected changes included,
  which the file alone does not show; `HomeInv`, that a node always knows its
  own deletions, so that one that comes back is no new tombstone.
- `CursorsCorrect`: `OwnWritesPassCursors`. `OwnInv` says that a node answers
  every version it ever stamped, by that version, a greater one or a tombstone;
  so no merge brings a version of its own back to it, and each new one is of a
  local transaction.
- `RowsCorrect`, `OutlivingCorrect`: rows and versions agree. `RowsInv` states
  both of committed files and of open merges; the cases are the statements and
  the three outcomes of a change in the loop.
- `ValuesAgree`: `SameVersionSameValue`. The property of two files is not
  inductive, since values travel in batches and open merges. `Said` is the set
  of all statements "this version has this value" made anywhere, and
  `ValuesInv` says that no two of them contradict each other and that a deletion
  under way was committed by somebody. A
  merge adds no statement but on records that somebody has deleted; a
  transaction adds statements about a stamp that `StampsFromThePast` shows to
  be new.

### ChangeTracking

`OneConnection` says that the file has at most one connection. It is a
hypothesis of all but the first two theorems, and needed: with two, the run
`two_instances` violates `ChangesRemembered`, and the clock goes back. Nothing
else is assumed unless it is said: crashes, failures, rollbacks and the overflow
are all in. The theorems rest on a chain of invariants:

| Invariant | Says | Needed by |
|---|---|---|
| `TypeInv` | types and keys; an entry of the queue is a DELETE exactly if it has no column; only a writer or merger has the write lock | all |
| `TombInv` | an open transaction still has the tombstones of the file | `TombstonesCorrect` |
| `ClockInv` | the stamp in memory is one ahead of the clock in the file while the loop runs | clock, `VersionsCorrect` |
| `PlanInv` | what is planned is pending, before the loop it is all that is pending, and an open transaction has added to the queue only | all below |
| `KeptInv` | what is pending and not versioned is planned while the loop runs | `LossesCorrect`, `ChangesCorrect` |
| `LoopInv` | the cache holds the versions of the file but those that the loop has stamped, and nothing else but versions of tombstoned records; the tombstone of the sweep is in the file | `VersionsCorrect`, all below |
| `MatchInv` | a pending row is planned or its record has got its version or tombstone; a record that a transaction inserts or deletes is queued so | `MismatchesCorrect` |
| `RememberInv` | whatever is not versioned is pending, and nothing is between transactions | `ChangesCorrect`, `AtomicCorrect` |
| `OrderInv` | a deletion queued for a row that is there again lies before what brought the row back; an open transaction has queued every difference to the file | `AtomicCorrect` |

- `TypeCorrect`, `TombstonesCorrect`: any number of connections, every fault.
- `AheadCorrect`, `ClockNeverBack`: only the write lock and the single
  connection keep merges out between the read of the clock and its write.
- `LossesCorrect`, `VersionsCorrect`, `MismatchesCorrect`: every fault, one
  connection (and a column). `MismatchesCorrect` assumes `Texts(Incoming)` too: a
  merged column without a value leaves a version without a row. Of the failures, only the ones before the last
  DELETE count as drops: when that one fails, all is versioned.
- `ChangesCorrect`: without failures and crashes, and as long as
  the clock is not used up (`[](file.clock < ClockMax)`).
- `AtomicCorrect`: under the same conditions, and `Texts(Incoming)`, the module
  implements `AtomicFile` under the mapping `Settled`. In the loop `Settled` is
  `Finished(c)`, what the rest of the loop makes of the tables; each kind of
  iteration is shown to leave it as it is (`EntombSettles`, `SweepSettles`,
  `EnforceSettles`, `StampSettles`). `KnownOf` are the versions as if the
  loop had replaced none of those still planned; that they can be told from
  file and cache is `LoopInv`. That a row which the transaction deleted and
  brought back ends as the one-step operator says is `OrderInv`: the last
  entry of the record to be processed is never the deletion. Reading the clock
  starts from all that is pending, storing it ends with nothing planned, and
  the commits of transactions and of merges are the steps of `AtomicFile`.

- `ExportCorrect`: `[]StampNamesOneValue` of `ChangeExport`, under the same
  conditions and if what is merged was written by other nodes and agrees with
  itself (`IncomingHonest`). It follows from the abstract steps: whoever
  calls `get_changes_since` on the only connection does so outside the loop,
  where the file is `Settled`. `Truthful` says that the versions of live records in the
  settled file have the values that anybody has heard of their stamps, and that
  the next stamp is new; a `Transaction` and a `Merge` of `AtomicFile` keep it.

### SyncSession

For any number of replicas, any finite non-empty set of columns and either
contract of `compact_tombstones`, unless it is said. All of it rests on what
`MergeChanges` makes of a page of any length. `Joined(d, changes, e)` says it as
a relation between the file before and the file after: what is kept has come
from the file or from the page, all of the page is covered or screened by
something that is kept, and nothing grows but so. That each of the files
`Views(d, batch)[i]` is the join of the first i changes is shown by the least i
for which it is not (`LeastNatural`, `Steps`), in the place of an induction.

| Invariant | Says | Needed by |
|---|---|---|
| `TypeInv` | `TypeOK`; tables are finite and within their clock, tombstones are mourned; a page lies past its cursor, holds nothing the asker made, and columns come with texts | all |
| `GapInv` | `VersionSeen`, `TombSeen`: of what n wrote itself: m has what lies behind its cursor, and the page has what it will put behind it | all below |
| `HeldInv` | `DeletionHeld`, `VersionHeld`: of every deletion or version that is anywhere, in a page too, the same or a greater one is kept by the node that wrote it, or everybody has had the deletion, or the version's record was deleted | `AgreementCorrect` |
| `PastInv`, `SaidInv` | no version is ahead of the clock of its node; of records never deleted, files and pages say one value for a stamp, and rows and versions agree | `AgreementCorrect` |
| `MindedInv` | a replica that ever had a deletion has a tombstone of it or a later one, or everybody has had the deletion | `ResurrectionCorrect` |
| `ScreenInv` | a column in a page, or past a cursor, that a deletion its receiver ever had screens is screened by a tombstone the receiver still has | `ResurrectionCorrect` |

- `TypeCorrect`: `[]TypeOK`.
- `CursorsCorrect`: `[]CursorsLeaveNoGap`. Between the question and the answer
  the other replica goes on writing: all that is new lies past its clock, hence
  past everything in the page. The property speaks of what a replica wrote
  itself. What it merged gets the clock before the increment as local version
  (crdt_sqlite.cpp:902), which is not past every cursor taken from it; with
  three replicas such news can stay behind a cursor. It is the cause of the
  violation `merged_news` as well. The loop gets it from its author.
- `AgreementCorrect`: `[]SyncedReplicasAgree`, record by record. For the reason
  just given a pull from n may leave out what n merged from a third. So agreement does
  not come from any two replicas alone: whatever one has, the node that wrote
  it or a greater one still has (`HeldInv`), and all have pulled from that node
  (`GapInv`). Of
  two replicas each then covers what the other has, so their versions
  are equal, and `SaidInv` makes the values equal.
- `ResurrectionCorrect`: `NoResurrection`, under the contract `"settled"`. The
  hypothesis is needed: under `"acknowledged"`, which is what
  crdt_sqlite.hpp asks of the caller, the run `early_compaction` violates it.
  A version that enters a replica was in a page. Were it screened by a
  deletion that the replica ever had, a tombstone would still be there
  (`ScreenInv`) and reject it. Compaction keeps this because nothing is under way,
  or past any cursor, of a record that is `Settled`, and the tombstones of the
  others stay (`Forgotten`).

### SchemaRefresh

- `TypeCorrect`, `CacheCorrect`: `[]TypeOK` and `[]CacheLagsWhileDue`, from
  `RefreshInv`, which adds what a refresh has reached at each of its statements.
- `MissesCorrect`: `MissesAreKnown`. The triggers that an unfinished refresh has
  not created yet are those it is about to.
- `GhostsCorrect`: `GhostsAreRollbacks`, from the same invariant: what the cache
  has was in the table when it was filled, and only a ROLLBACK makes the table
  smaller without clearing memory.
- `ValuesCorrect`, `TakenCorrect`: `[]ConformingValuesArrive` and
  `[]ConformingValuesAreTaken`. The lemma `RoundTrip` says that a value which fits its column passes through
  `ToText`, `FromText`, `Bind` and `Affine` unharmed: all numbers (in halves), texts
  without a NUL and blobs that are not empty, which is what `Conforms` asks for;
  the cache has the right type by `CacheLagsWhileDue`, or the cell is `blind`.

### Only model-checked

Liveness (`ChangesTracked`, `ProcessingEnds`, `SyncedOrRefused`) and `ENABLED` are out of the
prover's reach. Every invariant and action property of a passing run is a
theorem, and so is the refinement; those that name a condition (one
connection, no failures, one contract) are model-checked under it too.

## Plan

What remains, the most important first:

1. Pages with LIMIT: which cursors an application may take from a page that is
   cut, and the tombstones that a full page leaves out.
2. UPDATE of the primary key, DROP and RENAME COLUMN, and an ALTER of another
   connection.
3. `LwwRegister`: the abstract register and tombstone per column, implemented
   by `CrdtReplication` as long as nothing is deleted.
4. `SwiftReplication`, `SwiftTracking`: the Swift port, alone and in a fleet
   with the C++ one.

## Not modelled

Record ids (formatting and random generation), validators, lifetimes of
statements, errors and their texts, the Swift port and its wrappers around
SQLite, tests and build. The sign of 64-bit integers in SQLite, which splits
the unsigned clock at 2^63. UPDATEs of the primary key, LIMIT, DROP and RENAME,
reads inside an open transaction, and what callers are told when a COMMIT
reports an error of `wal_callback`. The lookaside and types tables are written
and never decide anything. Performance is not a subject.
