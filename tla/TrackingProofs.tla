--------------------------- MODULE TrackingProofs ---------------------------
(* Types, tombstones, clock and pending table of a file that one           *)
(* connection writes, whatever fails, rolls back and dies in between.      *)
EXTENDS ChangeTracking, CrdtDatabaseProofs

(* Types, for any number of connections.                                   *)

\* The rows that the triggers queue.
Entries == {p \in Pending : p.op = "DELETE" <=> p.col = NoColumn}

Changed == [rec : Record, col : Column \cup {NoColumn}]

TablesOK ==
  /\ file \in Database /\ KeysUnique(file)
  /\ view \in Database /\ KeysUnique(view)
  /\ pending \in Queue /\ pending.rows \subseteq Entries
  /\ viewPending \in Queue /\ viewPending.rows \subseteq Entries

MemoryOK ==
  /\ plan \in [Connection -> Queue]
  /\ turn \in [Connection -> SUBSET Pending]
  /\ cache \in [Connection -> SUBSET VersionRow]
  /\ stamp \in [Connection -> Nat]
  /\ overflowed \in [Connection -> BOOLEAN]
  /\ \A c \in Connection : plan[c].rows \cup turn[c] \subseteq Entries

\* A version is written for a row that names a column.
PlacesOK ==
  /\ pc \in [Connection -> Places]
  /\ \A c \in Connection : pc[c] \in {"writing", "merging"} <=> owner = c
  /\ \A c \in Connection : pc[c] = "version" => \A p \in turn[c] : p.op # "DELETE"

HistoryOK == wrote \cup untracked \subseteq Changed

TypeInv == TablesOK /\ MemoryOK /\ PlacesOK /\ HistoryOK

LEMMA EmptyTypes ==
  /\ EmptyQueue \in Queue /\ EmptyQueue.rows = {}
  /\ EmptyDatabase \in Database /\ KeysUnique(EmptyDatabase)
BY DEF EmptyQueue, Queue, EmptyDatabase, Database, KeysUnique

LEMMA WithoutType ==
  ASSUME NEW queue \in Queue, NEW entries
  PROVE  /\ Without(queue, entries) \in Queue
         /\ Without(queue, entries).rows = queue.rows \ entries
<1>1. queue.rows \in SUBSET Pending /\ queue.before \in SUBSET (Pending \X Pending)
  BY DEF Queue
<1> QED
  BY <1>1 DEF Without, Queue

\* INSERT OR REPLACE: the entries are there, the other rows stay.
LEMMA EnqueueType ==
  ASSUME NEW queue \in Queue, NEW entries \in SUBSET Pending
  PROVE  /\ Enqueue(queue, entries) \in Queue
         /\ Enqueue(queue, entries).rows = queue.rows \cup entries
<1> DEFINE kept == Without(queue, entries)
<1>1. kept \in Queue /\ kept.rows = queue.rows \ entries
  BY WithoutType
<1>2. /\ kept.rows \in SUBSET Pending /\ kept.before \in SUBSET (Pending \X Pending)
      /\ queue.rows \in SUBSET Pending
  BY <1>1 DEF Queue
<1>3. kept.rows \X entries \in SUBSET (Pending \X Pending)
  BY <1>2
<1>4. Enqueue(queue, entries) =
        [rows |-> kept.rows \cup entries,
         before |-> kept.before \cup (kept.rows \X entries)]
  BY DEF Enqueue
<1> HIDE DEF kept
<1>5. kept.rows \cup entries \in SUBSET Pending
      /\ kept.before \cup (kept.rows \X entries) \in SUBSET (Pending \X Pending)
  BY <1>2, <1>3
<1>6. Enqueue(queue, entries) \in Queue
  BY <1>4, <1>5 DEF Queue
<1>7. Enqueue(queue, entries).rows = queue.rows \cup entries
  BY <1>1, <1>4
<1> QED
  BY <1>6, <1>7

\* A statement leaves a table of the right type, and its triggers queue rows
\* of the right form.
LEMMA StatementTypes ==
  ASSUME NEW tables \in Database, KeysUnique(tables),
         NEW queue \in Queue, queue.rows \subseteq Entries,
         NEW c, Execute(c, tables, queue), wrote \subseteq Changed
  PROVE  /\ view' \in Database /\ KeysUnique(view')
         /\ viewPending' \in Queue /\ viewPending'.rows \subseteq Entries
         /\ wrote' \subseteq Changed
<1>1. PICK rows, entries :
        /\ Statement(c, tables, queue, rows, entries)
        /\ rows \subseteq Row
        /\ \A a, b \in rows : a.rec = b.rec => a = b
        /\ entries \subseteq Entries
  <2>0. tables.rows \subseteq Row /\ \A a, b \in tables.rows : a.rec = b.rec => a = b
    BY DEF Database, KeysUnique
  <2>1. CASE InsertInto(c, tables, queue)
    <3>1. PICK r \in Record, cells \in [Column -> UserCell] :
            Statement(c, tables, queue,
                      RowsBut(tables.rows, r) \cup {[rec |-> r, cells |-> cells]},
                      [op : {"INSERT"}, rec : {r}, col : Column])
      BY <2>1 DEF InsertInto
    <3>2. cells \in [Column -> Cell]
      BY CellAssumption
    <3>3. [rec |-> r, cells |-> cells] \in Row
      BY <3>2 DEF Row
    <3>4. RowsBut(tables.rows, r) \cup {[rec |-> r, cells |-> cells]} \subseteq Row
      BY <2>0, <3>3 DEF RowsBut
    <3>5. \A a, b \in RowsBut(tables.rows, r) \cup {[rec |-> r, cells |-> cells]} :
            a.rec = b.rec => a = b
      BY <2>0 DEF RowsBut
    <3>6. [op : {"INSERT"}, rec : {r}, col : Column] \subseteq Entries
      BY ColumnAssumption DEF Entries, Pending
    <3> QED
      BY <3>1, <3>4, <3>5, <3>6
  <2>2. CASE Update(c, tables, queue)
    <3>1. PICK row \in tables.rows, cells \in [Column -> Cell], changed \in SUBSET Column :
            Statement(c, tables, queue,
                      RowsBut(tables.rows, row.rec)
                        \cup {[rec |-> row.rec, cells |-> cells]},
                      [op : {"UPDATE"}, rec : {row.rec}, col : changed])
      BY <2>2 DEF Update
    <3>2. row.rec \in Record /\ [rec |-> row.rec, cells |-> cells] \in Row
      BY <2>0 DEF Row
    <3>4. RowsBut(tables.rows, row.rec) \cup {[rec |-> row.rec, cells |-> cells]}
            \subseteq Row
      BY <2>0, <3>2 DEF RowsBut
    <3>5. \A a, b \in RowsBut(tables.rows, row.rec)
                        \cup {[rec |-> row.rec, cells |-> cells]} :
            a.rec = b.rec => a = b
      BY <2>0 DEF RowsBut
    <3>6. [op : {"UPDATE"}, rec : {row.rec}, col : changed] \subseteq Entries
      BY <3>2, ColumnAssumption DEF Entries, Pending
    <3> QED
      BY <3>1, <3>4, <3>5, <3>6
  <2>3. CASE DeleteFrom(c, tables, queue)
    <3>1. PICK row \in tables.rows :
            Statement(c, tables, queue, tables.rows \ {row},
                      [op : {"DELETE"}, rec : {row.rec}, col : {NoColumn}])
      BY <2>3 DEF DeleteFrom
    <3>2. row.rec \in Record
      BY <2>0 DEF Row
    <3>3. [op : {"DELETE"}, rec : {row.rec}, col : {NoColumn}] \subseteq Entries
      BY <3>2 DEF Entries, Pending
    <3>4. /\ tables.rows \ {row} \subseteq Row
          /\ \A a, b \in tables.rows \ {row} : a.rec = b.rec => a = b
      BY <2>0
    <3> QED
      BY <3>1, <3>3, <3>4
  <2> QED
    BY <2>1, <2>2, <2>3 DEF Execute
<1>2. view' \in Database /\ KeysUnique(view')
  BY <1>1, PutRows DEF Statement
<1>3. entries \in SUBSET Pending
  BY <1>1 DEF Entries
<1>4. viewPending' \in Queue /\ viewPending'.rows = queue.rows \cup entries
  BY <1>1, <1>3, EnqueueType DEF Statement
<1>5. {Key(p) : p \in entries} \subseteq Changed
  BY <1>3 DEF Key, Changed, Pending
<1> QED
  BY <1>1, <1>2, <1>4, <1>5 DEF Statement

LEMMA UserTypes ==
  ASSUME TypeInv, NEW c \in Connection, FirstStatement(c) \/ NextStatement(c)
  PROVE  TypeInv'
<1>1. PICK tables \in Database, queue \in Queue :
        /\ KeysUnique(tables) /\ queue.rows \subseteq Entries
        /\ Execute(c, tables, queue)
        /\ owner \in {NoConnection, c}
  BY ConnectionAssumption
  DEF FirstStatement, NextStatement, TypeInv, TablesOK, PlacesOK
<1>2. /\ view' \in Database /\ KeysUnique(view')
      /\ viewPending' \in Queue /\ viewPending'.rows \subseteq Entries
      /\ wrote' \subseteq Changed
  BY <1>1, StatementTypes DEF TypeInv, HistoryOK
<1>3. /\ owner' = c /\ pc' = [pc EXCEPT ![c] = "writing"]
      /\ UNCHANGED <<file, pending, plan, turn, cache, stamp, overflowed, untracked>>
  BY <1>1 DEF Execute, InsertInto, Update, DeleteFrom, Statement, Goto,
              fileVars, loopVars
<1>4. TablesOK'
  BY <1>2, <1>3 DEF TypeInv, TablesOK
<1>5. MemoryOK'
  BY <1>3 DEF TypeInv, MemoryOK
<1>6. PlacesOK'
  <2>1. pc' \in [Connection -> Places] /\ pc'[c] = "writing"
    BY <1>3 DEF TypeInv, PlacesOK, Places
  <2>2. \A k \in Connection \ {c} : pc'[k] = pc[k] /\ pc[k] \notin {"writing", "merging"}
    BY <1>1, <1>3, ConnectionAssumption DEF TypeInv, PlacesOK
  <2> QED
    BY <1>3, <2>1, <2>2 DEF TypeInv, PlacesOK
<1> QED
  BY <1>2, <1>3, <1>4, <1>5, <1>6 DEF TypeInv, HistoryOK

LEMMA EndTypes ==
  ASSUME TypeInv, NEW c \in Connection,
         \/ CommitTransaction(c) \/ RollbackTransaction(c)
         \/ CommitMerge(c) \/ AbortMerge(c)
  PROVE  TypeInv'
<1>1. /\ owner' = NoConnection /\ pc' = [pc EXCEPT ![c] = "scan"] /\ owner = c
      /\ view' = EmptyDatabase /\ viewPending' = EmptyQueue /\ wrote' = {}
      /\ UNCHANGED <<plan, turn, cache, stamp, overflowed>>
      /\ file' \in {file, view} /\ pending' \in {EmptyQueue, viewPending}
      /\ untracked' \in {untracked, untracked \cup wrote}
  BY DEF CommitTransaction, RollbackTransaction, CommitMerge, AbortMerge,
         EndTransaction, Goto, loopVars, TypeInv, PlacesOK
<1>2. TablesOK'
  BY <1>1, EmptyTypes DEF TypeInv, TablesOK
<1>3. MemoryOK'
  BY <1>1 DEF TypeInv, MemoryOK
<1>4. PlacesOK'
  <2>1. pc' \in [Connection -> Places] /\ pc'[c] = "scan"
    BY <1>1 DEF TypeInv, PlacesOK, Places
  <2>2. \A k \in Connection \ {c} : pc'[k] = pc[k] /\ pc[k] \notin {"writing", "merging"}
    BY <1>1 DEF TypeInv, PlacesOK
  <2>3. \A k \in Connection : pc'[k] \notin {"writing", "merging"} /\ owner' # k
    BY <1>1, <2>1, <2>2, ConnectionAssumption
  <2> QED
    BY <1>1, <2>1, <2>2, <2>3 DEF TypeInv, PlacesOK
<1>5. HistoryOK'
  BY <1>1 DEF TypeInv, HistoryOK
<1> QED
  BY <1>2, <1>3, <1>4, <1>5 DEF TypeInv

LEMMA MergeTypes ==
  ASSUME TypeInv, NEW c \in Connection, BeginMerge(c)
  PROVE  TypeInv'
<1>1. PICK x \in Incoming : view' = Merged(file, x)
  BY DEF BeginMerge
<1>2. view' \in Database /\ KeysUnique(view')
  BY <1>1, MergedType, IncomingAssumption DEF TypeInv, TablesOK
<1>3. /\ owner = NoConnection /\ owner' = c /\ pc' = [pc EXCEPT ![c] = "merging"]
      /\ viewPending' = pending
      /\ UNCHANGED <<file, pending, plan, turn, cache, stamp, overflowed, wrote,
                     untracked>>
  BY DEF BeginMerge, Goto, fileVars, loopVars
<1>4. TablesOK'
  BY <1>2, <1>3 DEF TypeInv, TablesOK
<1>5. MemoryOK' /\ HistoryOK'
  BY <1>3 DEF TypeInv, MemoryOK, HistoryOK
<1>6. PlacesOK'
  <2>1. pc' \in [Connection -> Places] /\ pc'[c] = "merging"
    BY <1>3 DEF TypeInv, PlacesOK, Places
  <2>2. \A k \in Connection \ {c} : pc'[k] = pc[k] /\ pc[k] \notin {"writing", "merging"}
    BY <1>3, ConnectionAssumption DEF TypeInv, PlacesOK
  <2> QED
    BY <1>3, <2>1, <2>2 DEF TypeInv, PlacesOK
<1> QED
  BY <1>4, <1>5, <1>6 DEF TypeInv

\* The processing moves only its own connection, which has no transaction
\* open, and leaves the transactions of the others alone.
LEMMA ProcessingMoves ==
  ASSUME TypeInv, NEW c \in Connection,
         Open(c) \/ ProcessPendingChanges(c)
  PROVE  /\ UNCHANGED <<owner, view, viewPending, wrote>>
         /\ pc[c] \notin {"writing", "merging"}
         /\ \E place \in Places \ {"writing", "merging"} : pc' = [pc EXCEPT ![c] = place]
         /\ pc' \in [Connection -> Places]
         /\ \A k \in Connection \ {c} : pc'[k] = pc[k]
         /\ \A k \in Connection : pc'[k] \in {"writing", "merging"} <=> owner' = k
<1>1. UNCHANGED <<owner, view, viewPending, wrote>>
  BY DEF Open, ProcessPendingChanges, ScanPending, FillCache, ReadClock,
         OverflowClock, EntombRecord, SweepVersions, CheckTombstone,
         EnforceTombstone, StampColumn, AdvanceClock, ClearPending, Busy,
         FailProcessing, txnVars
<1>2. pc[c] \notin {"writing", "merging"}
  BY DEF Open, ProcessPendingChanges, ScanPending, FillCache, ReadClock,
         OverflowClock, EntombRecord, SweepVersions, CheckTombstone,
         EnforceTombstone, StampColumn, AdvanceClock, ClearPending, Busy,
         FailProcessing, AtWrite
<1>3. \E place \in Places \ {"writing", "merging"} : pc' = [pc EXCEPT ![c] = place]
  BY DEF Open, ProcessPendingChanges, ScanPending, FillCache, ReadClock,
         OverflowClock, EntombRecord, SweepVersions, CheckTombstone,
         EnforceTombstone, StampColumn, AdvanceClock, ClearPending, Busy,
         FailProcessing, Goto, Places
<1>4. pc' \in [Connection -> Places] /\ \A k \in Connection \ {c} : pc'[k] = pc[k]
  BY <1>3 DEF TypeInv, PlacesOK
<1>5. pc'[c] \notin {"writing", "merging"}
  BY <1>3 DEF TypeInv, PlacesOK
<1> QED
  BY <1>1, <1>2, <1>3, <1>4, <1>5 DEF TypeInv, PlacesOK

LEMMA ProcessingTables ==
  ASSUME TypeInv, NEW c \in Connection,
         Open(c) \/ ProcessPendingChanges(c)
  PROVE  /\ file' \in Database /\ KeysUnique(file')
         /\ pending' \in Queue /\ pending'.rows \subseteq Entries
<1>0. /\ file \in Database /\ KeysUnique(file)
      /\ pending \in Queue /\ pending.rows \subseteq Entries
  BY DEF TypeInv, TablesOK
<1>1. CASE EntombRecord(c)
  <2>1. PICK p \in Firsts(plan[c]) :
          file' = [file EXCEPT !.tombs = {t \in file.tombs : t.rec # p.rec} \cup
                     {[rec |-> p.rec, dv |-> stamp[c], node |-> Self,
                       local |-> stamp[c]]}]
    BY <1>1 DEF EntombRecord
  <2>2. p \in Pending /\ stamp[c] \in Nat
    BY DEF Firsts, TypeInv, MemoryOK, Queue
  <2> DEFINE new == [rec |-> p.rec, dv |-> stamp[c], node |-> Self,
                     local |-> stamp[c]]
             tombs == {t \in file.tombs : t.rec # p.rec} \cup {new}
  <2>3. new \in TombRow
    BY <2>2, SelfAssumption DEF TombRow, Pending
  <2>4. tombs \in SUBSET TombRow /\ \A a, b \in tombs : a.rec = b.rec => a = b
    BY <1>0, <2>3 DEF Database, KeysUnique
  <2>5. file' = [file EXCEPT !.tombs = tombs]
    BY <2>1
  <2> HIDE DEF tombs
  <2>6. file' \in Database /\ KeysUnique(file')
    BY <1>0, <2>4, <2>5, PutTombs
  <2>7. pending' = pending
    BY <1>1 DEF EntombRecord
  <2> QED
    BY <1>0, <2>6, <2>7
<1>2. CASE SweepVersions(c)
  <2>1. PICK p \in turn[c] :
          file' = [file EXCEPT !.versions = {v \in file.versions : v.rec # p.rec}]
    BY <1>2 DEF SweepVersions
  <2>2. /\ {v \in file.versions : v.rec # p.rec} \in SUBSET VersionRow
        /\ \A a, b \in {v \in file.versions : v.rec # p.rec} :
             a.rec = b.rec /\ a.col = b.col => a = b
    BY <1>0 DEF Database, KeysUnique
  <2>3. file' \in Database /\ KeysUnique(file')
    BY <1>0, <2>1, <2>2, PutVersions
  <2>4. pending' = pending
    BY <1>2 DEF SweepVersions
  <2> QED
    BY <1>0, <2>3, <2>4
<1>3. CASE EnforceTombstone(c)
  <2>0. PICK p \in turn[c] :
          /\ file' = [file EXCEPT !.rows = RowsBut(file.rows, p.rec)]
          /\ \E again \in SUBSET {[op |-> "DELETE", rec |-> p.rec, col |-> NoColumn]} :
               pending' = Enqueue(pending, again)
    BY <1>3 DEF EnforceTombstone
  <2>1. PICK again \in SUBSET {[op |-> "DELETE", rec |-> p.rec, col |-> NoColumn]} :
          /\ file' = [file EXCEPT !.rows = RowsBut(file.rows, p.rec)]
          /\ pending' = Enqueue(pending, again)
    BY <2>0
  <2>2. /\ RowsBut(file.rows, p.rec) \in SUBSET Row
        /\ \A a, b \in RowsBut(file.rows, p.rec) : a.rec = b.rec => a = b
    BY <1>0 DEF Database, KeysUnique, RowsBut
  <2>3. file' \in Database /\ KeysUnique(file')
    BY <1>0, <2>1, <2>2, PutRows
  <2>4. p \in Pending
    BY DEF TypeInv, MemoryOK
  <2>5. again \subseteq Entries /\ again \in SUBSET Pending
    BY <2>1, <2>4 DEF Entries, Pending
  <2> QED
    BY <1>0, <2>1, <2>3, <2>5, EnqueueType
<1>4. CASE StampColumn(c)
  <2>1. PICK p \in turn[c] :
          file' = [file EXCEPT !.versions =
                     Replaced(file.versions, StampedVersion(c, p))]
    BY <1>4 DEF StampColumn
  <2>2. p \in Entries /\ p.op # "DELETE" /\ stamp[c] \in Nat
    BY <1>4 DEF StampColumn, TypeInv, MemoryOK, PlacesOK
  <2>3. p.rec \in Record /\ p.col \in Column
    BY <2>2 DEF Entries, Pending
  <2> DEFINE v == StampedVersion(c, p)
  <2>4. ColVersion(cache[c], p) \in Nat
    BY ColVersionType DEF TypeInv, MemoryOK
  <2>5. v \in VersionRow
    BY <2>2, <2>3, <2>4, SelfAssumption DEF StampedVersion, VersionRow
  <2> HIDE DEF v
  <2>6. /\ Replaced(file.versions, v) \in SUBSET VersionRow
        /\ \A a, b \in Replaced(file.versions, v) :
             a.rec = b.rec /\ a.col = b.col => a = b
    BY <1>0, <2>5 DEF Replaced, SameKey, Database, KeysUnique
  <2>7. file' = [file EXCEPT !.versions = Replaced(file.versions, v)]
    BY <2>1 DEF v
  <2>8. file' \in Database /\ KeysUnique(file')
    BY <1>0, <2>6, <2>7, PutVersions
  <2>9. pending' = pending
    BY <1>4 DEF StampColumn
  <2> QED
    BY <1>0, <2>8, <2>9
<1>5. CASE AdvanceClock(c)
  <2>1. file' = [file EXCEPT !.clock = stamp[c]] /\ pending' = pending
    BY <1>5 DEF AdvanceClock
  <2>2. stamp[c] \in Nat
    BY DEF TypeInv, MemoryOK
  <2> QED
    BY <1>0, <2>1, <2>2, PutClock
<1>6. CASE \/ Open(c) \/ ScanPending(c) \/ FillCache(c) \/ ReadClock(c)
           \/ OverflowClock(c) \/ CheckTombstone(c) \/ ClearPending(c) \/ Busy(c)
           \/ FailProcessing(c)
  <2>1. file' = file /\ pending' \in {EmptyQueue, pending}
    BY <1>6 DEF Open, ScanPending, FillCache, ReadClock, OverflowClock,
                CheckTombstone, ClearPending, Busy, FailProcessing, fileVars
  <2> QED
    BY <1>0, <2>1, EmptyTypes
<1> QED
  BY <1>1, <1>2, <1>3, <1>4, <1>5, <1>6 DEF ProcessPendingChanges

LEMMA ProcessingMemory ==
  ASSUME TypeInv, NEW c \in Connection,
         Open(c) \/ ProcessPendingChanges(c)
  PROVE  /\ MemoryOK'
         /\ \A k \in Connection \ {c} : turn'[k] = turn[k]
<1>0. /\ plan[c] \in Queue /\ plan[c].rows \subseteq Entries
      /\ turn[c] \in SUBSET Pending /\ turn[c] \subseteq Entries
      /\ file \in Database /\ pending \in Queue /\ pending.rows \subseteq Entries
  BY DEF TypeInv, MemoryOK, TablesOK
<1>1. \E q \in Queue : q.rows \subseteq Entries /\ plan' = [plan EXCEPT ![c] = q]
  <2>1. CASE Advance(c)
    <3>1. Without(plan[c], turn[c]) \in Queue
          /\ Without(plan[c], turn[c]).rows \subseteq Entries
      BY <1>0, WithoutType
    <3> QED
      BY <2>1, <3>1 DEF Advance
  <2>2. CASE ScanPending(c)
    BY <1>0, <2>2 DEF ScanPending
  <2>3. CASE Forget(c)
    BY <2>3, EmptyTypes DEF Forget
  <2>4. CASE plan' = plan
    BY <1>0, <2>4 DEF TypeInv, MemoryOK
  <2> QED
    BY <2>1, <2>2, <2>3, <2>4
    DEF Open, ProcessPendingChanges, ScanPending, FillCache, ReadClock,
        OverflowClock, EntombRecord, SweepVersions, CheckTombstone,
        EnforceTombstone, StampColumn, AdvanceClock, ClearPending, Busy,
        FailProcessing, loopVars
<1>2. \E ps \in SUBSET Entries : turn' = [turn EXCEPT ![c] = ps]
  <2>1. CASE turn' = [turn EXCEPT ![c] = {}]
    BY <2>1
  <2>2. CASE turn' = turn
    BY <1>0, <2>2 DEF TypeInv, MemoryOK
  <2>3. CASE \E p \in Firsts(plan[c]) : turn' = [turn EXCEPT ![c] = {p}]
    <3>1. PICK p \in Firsts(plan[c]) : turn' = [turn EXCEPT ![c] = {p}]
      BY <2>3
    <3>2. {p} \in SUBSET Entries
      BY <1>0, <3>1 DEF Firsts
    <3> QED
      BY <3>1, <3>2
  <2> QED
    BY <2>1, <2>2, <2>3
    DEF Open, ProcessPendingChanges, ScanPending, FillCache, ReadClock,
        OverflowClock, EntombRecord, SweepVersions, CheckTombstone,
        EnforceTombstone, StampColumn, AdvanceClock, ClearPending, Busy,
        FailProcessing, Forget, Advance, loopVars
<1>3. \E known \in SUBSET VersionRow : cache' = [cache EXCEPT ![c] = known]
  <2>1. CASE FillCache(c)
    BY <1>0, <2>1 DEF FillCache, Database
  <2>2. CASE cache' = [cache EXCEPT ![c] = {}]
    BY <2>2
  <2>3. CASE cache' = cache
    BY <2>3 DEF TypeInv, MemoryOK
  <2> QED
    BY <2>1, <2>2, <2>3
    DEF Open, ProcessPendingChanges, ScanPending, ReadClock,
        OverflowClock, EntombRecord, SweepVersions, CheckTombstone,
        EnforceTombstone, StampColumn, AdvanceClock, ClearPending, Busy,
        FailProcessing, Forget, loopVars
<1>4. \E n \in Nat : stamp' = [stamp EXCEPT ![c] = n]
  <2>1. CASE ReadClock(c)
    <3>1. file.clock + 1 \in Nat
      BY <1>0 DEF Database
    <3> QED
      BY <2>1, <3>1 DEF ReadClock
  <2>2. CASE stamp' = [stamp EXCEPT ![c] = 0]
    BY <2>2
  <2>3. CASE stamp' = stamp
    BY <2>3 DEF TypeInv, MemoryOK
  <2> QED
    BY <2>1, <2>2, <2>3
    DEF Open, ProcessPendingChanges, ScanPending, FillCache,
        OverflowClock, EntombRecord, SweepVersions, CheckTombstone,
        EnforceTombstone, StampColumn, AdvanceClock, ClearPending, Busy,
        FailProcessing, Forget, loopVars
<1>5. overflowed' \in [Connection -> BOOLEAN]
  BY DEF Open, ProcessPendingChanges, ScanPending, FillCache, ReadClock,
         OverflowClock, EntombRecord, SweepVersions, CheckTombstone,
         EnforceTombstone, StampColumn, AdvanceClock, ClearPending, Busy,
         FailProcessing, TypeInv, MemoryOK
<1>6. plan' \in [Connection -> Queue] /\ \A k \in Connection : plan'[k].rows \subseteq Entries
  BY <1>1 DEF TypeInv, MemoryOK
<1>7. /\ turn' \in [Connection -> SUBSET Pending]
      /\ \A k \in Connection : turn'[k] \subseteq Entries
      /\ \A k \in Connection \ {c} : turn'[k] = turn[k]
  <2>1. \A ps \in SUBSET Entries : ps \in SUBSET Pending
    BY DEF Entries
  <2> QED
    BY <1>2, <2>1 DEF TypeInv, MemoryOK
<1>8. cache' \in [Connection -> SUBSET VersionRow] /\ stamp' \in [Connection -> Nat]
  BY <1>3, <1>4 DEF TypeInv, MemoryOK
<1> QED
  BY <1>5, <1>6, <1>7, <1>8 DEF MemoryOK

LEMMA ProcessingTypes ==
  ASSUME TypeInv, NEW c \in Connection,
         Open(c) \/ ProcessPendingChanges(c)
  PROVE  TypeInv'
<1>1. TablesOK'
  BY ProcessingMoves, ProcessingTables DEF TypeInv, TablesOK
<1>2. MemoryOK'
  BY ProcessingMemory
<1>3. PlacesOK'
  <2>1. pc'[c] = "version" => \A p \in turn'[c] : p.op # "DELETE"
    <3>1. CASE CheckTombstone(c)
      <4>1. \E p \in Firsts(plan[c]) : p.op # "DELETE" /\ turn' = [turn EXCEPT ![c] = {p}]
        BY <3>1 DEF CheckTombstone
      <4> QED
        BY <4>1 DEF TypeInv, MemoryOK
    <3>2. CASE ~ CheckTombstone(c)
      <4>1. \E place \in Places \ {"version"} : pc' = [pc EXCEPT ![c] = place]
        BY <3>2
        DEF Open, ProcessPendingChanges, ScanPending, FillCache, ReadClock,
            OverflowClock, EntombRecord, SweepVersions,
            EnforceTombstone, StampColumn, AdvanceClock, ClearPending, Busy,
            FailProcessing, Goto, Places
      <4> QED
        BY <4>1 DEF TypeInv, PlacesOK
    <3> QED
      BY <3>1, <3>2
  <2> QED
    BY <2>1, ProcessingMoves, ProcessingMemory DEF TypeInv, PlacesOK
<1>4. HistoryOK'
  <2>1. untracked' \subseteq untracked
    BY DEF Open, ProcessPendingChanges, ScanPending, FillCache, ReadClock,
           OverflowClock, EntombRecord, SweepVersions, CheckTombstone,
           EnforceTombstone, StampColumn, AdvanceClock, ClearPending, Busy,
           FailProcessing
  <2> QED
    BY <2>1, ProcessingMoves DEF TypeInv, HistoryOK
<1> QED
  BY <1>1, <1>2, <1>3, <1>4 DEF TypeInv

LEMMA CrashTypes ==
  ASSUME TypeInv, Crash
  PROVE  TypeInv'
<1>1. /\ file' = file /\ pending' = pending /\ owner' = NoConnection
      /\ view' = EmptyDatabase /\ viewPending' = EmptyQueue /\ wrote' = {}
      /\ pc' = [c \in Connection |-> "closed"]
      /\ plan' = [c \in Connection |-> EmptyQueue]
      /\ turn' = [c \in Connection |-> {}] /\ cache' = [c \in Connection |-> {}]
      /\ stamp' = [c \in Connection |-> 0]
      /\ overflowed' = [c \in Connection |-> FALSE] /\ untracked' = untracked
  BY DEF Crash, EndTransaction
<1>2. TablesOK' /\ MemoryOK' /\ HistoryOK'
  BY <1>1, EmptyTypes DEF TypeInv, TablesOK, MemoryOK, HistoryOK
<1>3. PlacesOK'
  BY <1>1, ConnectionAssumption DEF PlacesOK, Places
<1> QED
  BY <1>2, <1>3 DEF TypeInv

LEMMA TypeStep ==
  ASSUME TypeInv, [Next]_vars
  PROVE  TypeInv'
<1>1. CASE UNCHANGED vars
  BY <1>1 DEF vars, fileVars, txnVars, loopVars, TypeInv, TablesOK, MemoryOK,
              PlacesOK, HistoryOK
<1>2. ASSUME NEW c \in Connection, ConnectionStep(c)
      PROVE  TypeInv'
  BY <1>2, UserTypes, EndTypes, MergeTypes, ProcessingTypes DEF ConnectionStep
<1> QED
  BY <1>1, <1>2, CrashTypes DEF Next

LEMMA TypeInvariant == Spec => []TypeInv
<1>1. Init => TypeInv
  <2> SUFFICES ASSUME Init PROVE TypeInv
    OBVIOUS
  <2>1. TablesOK /\ MemoryOK /\ HistoryOK
    BY EmptyTypes DEF Init, TablesOK, MemoryOK, HistoryOK
  <2>2. PlacesOK
    BY ConnectionAssumption DEF Init, PlacesOK, Places
  <2> QED
    BY <2>1, <2>2 DEF TypeInv
<1>2. TypeInv /\ [Next]_vars => TypeInv'
  BY TypeStep
<1> QED
  BY <1>1, <1>2, PTL DEF Spec

\* Every variable has its type and every primary key of the tables holds, and
\* the write lock is with the one connection that writes or merges, for any
\* number of connections and whatever fails.
THEOREM TypeCorrect == Spec => []TypeOK
<1>1. TypeInv => TypeOK
  BY DEF TypeInv, TypeOK, TablesOK, MemoryOK, PlacesOK, HistoryOK, Changed
<1> QED
  BY <1>1, TypeInvariant, PTL

-----------------------------------------------------------------------------
(* Tombstones, for any number of connections.                              *)

TombInv ==
  owner # NoConnection => \A t \in file.tombs : HasTombstone(view, t.rec)

TombsStay == \A t \in file.tombs : HasTombstone(file', t.rec)

LEMMA TombsInMerge ==
  ASSUME NEW d \in Database, NEW x \in Change
  PROVE  \A t \in d.tombs : HasTombstone(Merged(d, x), t.rec)
<1> DEFINE later == WithTombstone(d.tombs, x, Later(d.clock, x.dv))
           Ticked(e) == [e EXCEPT !.clock = @ + 1]
<1>1. /\ Rejected(d, x).tombs = d.tombs
      /\ ColumnAccepted(d, x).tombs = d.tombs
      /\ DeletionAccepted(d, x).tombs = later
  BY RejectedType DEF ColumnAccepted, DeletionAccepted
<1>2. Merged(d, x).tombs \in {d.tombs, later}
  <2>1. \A e \in Database : Ticked(e).tombs = e.tombs
    BY DEF Database
  <2>2. /\ Rejected(d, x) \in Database
        /\ x.col # NoColumn => ColumnAccepted(d, x) \in Database
        /\ DeletionAccepted(d, x) \in Database
    BY RejectedType, ColumnAcceptedType, DeletionAcceptedType DEF Change
  <2>3. \/ Merged(d, x) = Ticked(Rejected(d, x))
        \/ x.col # NoColumn /\ Merged(d, x) = Ticked(ColumnAccepted(d, x))
        \/ Merged(d, x) = Ticked(DeletionAccepted(d, x))
    BY DEF Merged
  <2> HIDE DEF Ticked, later
  <2>4. CASE Merged(d, x) = Ticked(Rejected(d, x))
    BY <1>1, <2>1, <2>2, <2>4
  <2>5. CASE x.col # NoColumn /\ Merged(d, x) = Ticked(ColumnAccepted(d, x))
    BY <1>1, <2>1, <2>2, <2>5
  <2>6. CASE Merged(d, x) = Ticked(DeletionAccepted(d, x))
    BY <1>1, <2>1, <2>2, <2>6
  <2> QED
    BY <2>3, <2>4, <2>5, <2>6
<1> HIDE DEF Ticked
<1>3. \A t \in d.tombs : \E u \in later : u.rec = t.rec
  <2> TAKE t \in d.tombs
  <2> DEFINE new == [rec |-> x.rec, dv |-> x.dv, node |-> x.node,
                     local |-> Later(d.clock, x.dv)]
  <2>1. later = {u \in d.tombs : u.rec # x.rec} \cup {new} /\ new.rec = x.rec
    BY DEF WithTombstone
  <2> HIDE DEF later, new
  <2> QED
    BY <2>1
<1> QED
  BY <1>2, <1>3 DEF HasTombstone

LEMMA TombStep ==
  ASSUME TypeInv, TombInv, [Next]_vars
  PROVE  TombInv' /\ TombsStay
<1>0. file \in Database /\ view \in Database
  BY DEF TypeInv, TablesOK
<1>1. CASE UNCHANGED vars \/ Crash
  BY <1>1, ConnectionAssumption
  DEF vars, fileVars, txnVars, Crash, EndTransaction, TombInv, TombsStay, HasTombstone
<1>2. ASSUME NEW c \in Connection, FirstStatement(c) \/ NextStatement(c)
      PROVE  TombInv' /\ TombsStay
  <2>1. file' = file
    BY <1>2 DEF FirstStatement, NextStatement, Execute, InsertInto, Update,
                DeleteFrom, Statement, fileVars
  <2>2. CASE FirstStatement(c)
    <3>1. \E rows : view' = [file EXCEPT !.rows = rows]
      BY <2>2 DEF FirstStatement, Execute, InsertInto, Update, DeleteFrom, Statement
    <3>2. view'.tombs = file.tombs
      BY <1>0, <3>1 DEF Database
    <3> QED
      BY <2>1, <3>2 DEF TombInv, TombsStay, HasTombstone
  <2>3. CASE NextStatement(c)
    <3>1. \E rows : view' = [view EXCEPT !.rows = rows]
      BY <2>3 DEF NextStatement, Execute, InsertInto, Update, DeleteFrom, Statement
    <3>2. view'.tombs = view.tombs
      BY <1>0, <3>1 DEF Database
    <3>3. owner # NoConnection
      BY <2>3, ConnectionAssumption DEF NextStatement, TypeInv, PlacesOK
    <3> QED
      BY <2>1, <3>2, <3>3 DEF TombInv, TombsStay, HasTombstone
  <2> QED
    BY <1>2, <2>2, <2>3
<1>3. ASSUME NEW c \in Connection,
             \/ CommitTransaction(c) \/ RollbackTransaction(c)
             \/ CommitMerge(c) \/ AbortMerge(c)
      PROVE  TombInv' /\ TombsStay
  <2>1. file' \in {file, view} /\ owner' = NoConnection /\ owner # NoConnection
    BY <1>3, ConnectionAssumption
    DEF CommitTransaction, RollbackTransaction, CommitMerge, AbortMerge,
        EndTransaction, TypeInv, PlacesOK
  <2> QED
    BY <2>1 DEF TombInv, TombsStay, HasTombstone
<1>4. ASSUME NEW c \in Connection, BeginMerge(c)
      PROVE  TombInv' /\ TombsStay
  <2>1. PICK x \in Incoming : view' = Merged(file, x)
    BY <1>4 DEF BeginMerge
  <2>2. file' = file
    BY <1>4 DEF BeginMerge, fileVars
  <2>3. x \in Change
    BY IncomingAssumption
  <2> QED
    BY <1>0, <2>1, <2>2, <2>3, TombsInMerge DEF TombInv, TombsStay, HasTombstone
<1>5. ASSUME NEW c \in Connection, Open(c) \/ ProcessPendingChanges(c)
      PROVE  TombInv' /\ TombsStay
  <2>1. owner' = owner /\ view' = view
    BY <1>5, ProcessingMoves
  <2>2. CASE EntombRecord(c)
    <3>1. PICK p \in Firsts(plan[c]) :
            file' = [file EXCEPT !.tombs = {t \in file.tombs : t.rec # p.rec} \cup
                       {[rec |-> p.rec, dv |-> stamp[c], node |-> Self,
                         local |-> stamp[c]]}]
      BY <2>2 DEF EntombRecord
    <3>2. file'.tombs = {t \in file.tombs : t.rec # p.rec} \cup
                          {[rec |-> p.rec, dv |-> stamp[c], node |-> Self,
                            local |-> stamp[c]]}
      BY <1>0, <3>1 DEF Database
    <3>3. TombsStay
      <4>1. SUFFICES ASSUME NEW t \in file.tombs
                     PROVE  \E u \in file'.tombs : u.rec = t.rec
        BY DEF TombsStay, HasTombstone
      <4> DEFINE new == [rec |-> p.rec, dv |-> stamp[c], node |-> Self,
                         local |-> stamp[c]]
      <4>2. CASE t.rec = p.rec
        <5>1. new \in file'.tombs
          BY <3>2
        <5>2. new.rec = p.rec
          OBVIOUS
        <5> QED
          BY <4>2, <5>1, <5>2
      <4>3. CASE t.rec # p.rec
        BY <3>2, <4>3
      <4> QED
        BY <4>2, <4>3
    <3>4. owner = NoConnection
      BY <2>2 DEF EntombRecord
    <3> QED
      BY <2>1, <3>3, <3>4 DEF TombInv
  <2>3. CASE ~ EntombRecord(c)
    <3>1. \/ file' = file
          \/ \E rows : file' = [file EXCEPT !.rows = rows]
          \/ \E versions : file' = [file EXCEPT !.versions = versions]
          \/ \E clock : file' = [file EXCEPT !.clock = clock]
      BY <1>5, <2>3
      DEF Open, ProcessPendingChanges, ScanPending, FillCache, ReadClock,
          OverflowClock, SweepVersions, CheckTombstone, EnforceTombstone,
          StampColumn, AdvanceClock, ClearPending, Busy, FailProcessing, fileVars
    <3>2. file'.tombs = file.tombs
      BY <1>0, <3>1 DEF Database
    <3> QED
      BY <2>1, <3>2 DEF TombInv, TombsStay, HasTombstone
  <2> QED
    BY <2>2, <2>3
<1> QED
  BY <1>1, <1>2, <1>3, <1>4, <1>5 DEF Next, ConnectionStep

\* No step takes a tombstone out of the file, for any number of connections
\* that process and merge at the same time, whatever fails and dies: neither a
\* commit over a deletion nor a version written after the check for it.
THEOREM TombstonesCorrect == Spec => TombstonesStay
<1>1. Init => TombInv
  BY DEF Init, TombInv
<1>2. TypeInv /\ TombInv /\ [Next]_vars => TombInv' /\ [TombsStay]_vars
  BY TombStep
<1> QED
  BY <1>1, <1>2, TypeInvariant, PTL DEF Spec, TombstonesStay, TombsStay

-----------------------------------------------------------------------------
(* The clock, with one connection.                                         *)

OneConnection == \A c, k \in Connection : c = k

-----------------------------------------------------------------------------
\* A file none of whose stamps is ahead of its clock by more than one.
Ahead(d) ==
  /\ d = [rows |-> d.rows, versions |-> d.versions, tombs |-> d.tombs,
          clock |-> d.clock]
  /\ d.clock \in Nat
  /\ \A y \in d.versions \cup d.tombs :
       /\ y.dv \in Nat /\ y.local \in Nat
       /\ y.dv <= d.clock + 1 /\ y.local <= d.clock + 1

Stamping == {"stamp", "sweep", "enforce", "version"}

ClockInv ==
  /\ Ahead(file)
  /\ pc \in [Connection -> Places] /\ stamp \in [Connection -> Nat]
  /\ owner # NoConnection => Ahead(view) /\ view.clock >= file.clock
  /\ \A c \in Connection : pc[c] \in {"writing", "merging"} => owner # NoConnection
  /\ \A c \in Connection : pc[c] \in Stamping => stamp[c] = file.clock + 1

Advances == file'.clock >= file.clock

LEMMA AheadRows ==
  ASSUME NEW d, Ahead(d), NEW rows
  PROVE  /\ Ahead([d EXCEPT !.rows = rows])
         /\ [d EXCEPT !.rows = rows].clock = d.clock
<1> DEFINE e == [d EXCEPT !.rows = rows]
<1>1. e = [rows |-> rows, versions |-> d.versions, tombs |-> d.tombs,
           clock |-> d.clock]
  BY DEF Ahead
<1>2. e.rows = rows /\ e.versions = d.versions /\ e.tombs = d.tombs
      /\ e.clock = d.clock
  BY <1>1
<1> HIDE DEF e
<1>3. Ahead(e)
  BY <1>1, <1>2 DEF Ahead
<1> QED
  BY <1>2, <1>3 DEF e

\* merge_changes leaves the clock past the change and where it was.
LEMMA AheadMerged ==
  ASSUME NEW d, Ahead(d), NEW x \in Change
  PROVE  Ahead(Merged(d, x)) /\ Merged(d, x).clock >= d.clock
<1> DEFINE now == Later(d.clock, x.dv)
<1>1. now \in Nat /\ now >= d.clock /\ now >= x.dv /\ x.dv \in Nat
  BY DEF Later, Ahead, Change
<1> HIDE DEF now
<1>2. ASSUME NEW rows, NEW versions, NEW tombs, NEW e,
             e = [rows |-> rows, versions |-> versions, tombs |-> tombs,
                  clock |-> now + 1],
             \A y \in versions \cup tombs :
               y \in d.versions \cup d.tombs \/ (y.dv = x.dv /\ y.local = now)
      PROVE  Ahead(e) /\ e.clock >= d.clock
  <2>1. /\ e.rows = rows /\ e.versions = versions /\ e.tombs = tombs
        /\ e.clock = now + 1
    BY <1>2
  <2>2. e = [rows |-> e.rows, versions |-> e.versions, tombs |-> e.tombs,
             clock |-> e.clock]
    BY <1>2, <2>1
  <2>3. \A y \in versions \cup tombs :
          /\ y.dv \in Nat /\ y.local \in Nat
          /\ y.dv <= now + 2 /\ y.local <= now + 2
    BY <1>1, <1>2 DEF Ahead
  <2>4. e.clock \in Nat /\ e.clock + 1 = now + 2 /\ e.clock >= d.clock
    BY <1>1, <2>1 DEF Ahead
  <2> QED
    BY <2>1, <2>2, <2>3, <2>4 DEF Ahead
<1>3. CASE Merged(d, x) = [Rejected(d, x) EXCEPT !.clock = @ + 1]
  <2>1. Rejected(d, x) = [rows |-> d.rows, versions |-> d.versions,
                          tombs |-> d.tombs, clock |-> now]
    BY DEF Rejected, Ahead, now
  <2>2. Merged(d, x) = [rows |-> d.rows, versions |-> d.versions,
                        tombs |-> d.tombs, clock |-> now + 1]
    BY <1>3, <2>1
  <2> QED
    BY <1>2, <2>2
<1>4. CASE Merged(d, x) = [ColumnAccepted(d, x) EXCEPT !.clock = @ + 1]
  <2> DEFINE versions == WithVersion(d.versions, x, now)
             rows == ApplyColumn(d.rows, x)
  <2>1. ColumnAccepted(d, x) = [rows |-> rows, versions |-> versions,
                                tombs |-> d.tombs, clock |-> now]
    BY DEF ColumnAccepted, now
  <2>2. \A y \in versions : y \in d.versions \/ (y.dv = x.dv /\ y.local = now)
    BY DEF WithVersion
  <2> HIDE DEF versions, rows
  <2>3. Merged(d, x) = [rows |-> rows, versions |-> versions,
                        tombs |-> d.tombs, clock |-> now + 1]
    BY <1>4, <2>1
  <2> QED
    BY <1>2, <2>2, <2>3
<1>5. CASE Merged(d, x) = [DeletionAccepted(d, x) EXCEPT !.clock = @ + 1]
  <2> DEFINE tombs == WithTombstone(d.tombs, x, now)
             rows == RowsBut(d.rows, x.rec)
  <2>1. DeletionAccepted(d, x) = [rows |-> rows, versions |-> d.versions,
                                  tombs |-> tombs, clock |-> now]
    BY DEF DeletionAccepted, now
  <2>2. \A y \in tombs : y \in d.tombs \/ (y.dv = x.dv /\ y.local = now)
    BY DEF WithTombstone
  <2> HIDE DEF tombs, rows
  <2>3. Merged(d, x) = [rows |-> rows, versions |-> d.versions,
                        tombs |-> tombs, clock |-> now + 1]
    BY <1>5, <2>1
  <2> QED
    BY <1>2, <2>2, <2>3
<1> QED
  BY <1>3, <1>4, <1>5 DEF Merged

-----------------------------------------------------------------------------
\* A step of the processing that writes tables stamped with the connection's
\* stamp and leaves the clock.
LEMMA AheadWritten ==
  ASSUME NEW d, Ahead(d), NEW rows, NEW versions, NEW tombs, NEW e,
         e = [rows |-> rows, versions |-> versions, tombs |-> tombs,
              clock |-> d.clock],
         \A y \in versions \cup tombs :
           \/ y \in d.versions \cup d.tombs
           \/ y.dv = d.clock + 1 /\ y.local = d.clock + 1
  PROVE  Ahead(e) /\ e.clock = d.clock
<1>1. /\ e.rows = rows /\ e.versions = versions /\ e.tombs = tombs
      /\ e.clock = d.clock
  OBVIOUS
<1>2. \A y \in versions \cup tombs :
        /\ y.dv \in Nat /\ y.local \in Nat
        /\ y.dv <= d.clock + 1 /\ y.local <= d.clock + 1
  BY DEF Ahead
<1> QED
  BY <1>1, <1>2 DEF Ahead

LEMMA UserStep ==
  ASSUME OneConnection, ClockInv, NEW c \in Connection,
         FirstStatement(c) \/ NextStatement(c)
  PROVE  ClockInv' /\ Advances
<1>1. PICK tables, rows :
        /\ view' = [tables EXCEPT !.rows = rows]
        /\ Ahead(tables) /\ tables.clock >= file.clock
  <2>1. CASE FirstStatement(c)
    <3>1. file.clock >= file.clock
      BY DEF ClockInv, Ahead
    <3>2. \E rows : view' = [file EXCEPT !.rows = rows]
      BY <2>1 DEF FirstStatement, Execute, InsertInto, Update, DeleteFrom, Statement
    <3> QED
      BY <3>1, <3>2 DEF ClockInv
  <2>2. CASE NextStatement(c)
    <3>1. Ahead(view) /\ view.clock >= file.clock
      BY <2>2 DEF NextStatement, ClockInv
    <3>2. \E rows : view' = [view EXCEPT !.rows = rows]
      BY <2>2 DEF NextStatement, Execute, InsertInto, Update, DeleteFrom, Statement
    <3> QED
      BY <3>1, <3>2
  <2> QED
    BY <2>1, <2>2
<1>2. Ahead(view') /\ view'.clock >= file.clock
  BY <1>1, AheadRows
<1>3. owner' = c /\ file' = file /\ stamp' = stamp /\ pc' = [pc EXCEPT ![c] = "writing"]
  BY DEF FirstStatement, NextStatement, Execute, InsertInto, Update, DeleteFrom,
         Statement, Goto, fileVars, loopVars
<1>4. \A k \in Connection : pc'[k] = "writing"
  BY <1>3 DEF ClockInv, OneConnection
<1>5. pc' \in [Connection -> Places] /\ owner' # NoConnection
  BY <1>3, ConnectionAssumption DEF ClockInv, Places
<1> QED
  BY <1>2, <1>3, <1>4, <1>5 DEF ClockInv, Stamping, Advances, Ahead

LEMMA EndStep ==
  ASSUME OneConnection, ClockInv, NEW c \in Connection,
         \/ CommitTransaction(c) \/ RollbackTransaction(c)
         \/ CommitMerge(c) \/ AbortMerge(c)
  PROVE  ClockInv' /\ Advances
<1>1. owner # NoConnection /\ file.clock \in Nat
  BY DEF ClockInv, Ahead, CommitTransaction, RollbackTransaction, CommitMerge,
         AbortMerge
<1>2. Ahead(file') /\ file'.clock >= file.clock
  BY <1>1 DEF ClockInv, CommitTransaction, RollbackTransaction, CommitMerge,
              AbortMerge, EndTransaction
<1>3. owner' = NoConnection /\ stamp' = stamp /\ pc' = [pc EXCEPT ![c] = "scan"]
  BY DEF CommitTransaction, RollbackTransaction, CommitMerge, AbortMerge,
         EndTransaction, Goto, loopVars
<1>4. \A k \in Connection : pc'[k] = "scan"
  BY <1>3 DEF ClockInv, OneConnection
<1>5. pc' \in [Connection -> Places]
  BY <1>3 DEF ClockInv, Places
<1> QED
  BY <1>2, <1>3, <1>4, <1>5 DEF ClockInv, Stamping, Advances

LEMMA BeginMergeStep ==
  ASSUME OneConnection, ClockInv, NEW c \in Connection, BeginMerge(c)
  PROVE  ClockInv' /\ Advances
<1>1. PICK x \in Incoming : view' = Merged(file, x)
  BY DEF BeginMerge
<1>2. Ahead(view') /\ view'.clock >= file.clock
  BY <1>1, AheadMerged, IncomingAssumption DEF ClockInv
<1>3. owner' = c /\ file' = file /\ stamp' = stamp
      /\ pc' = [pc EXCEPT ![c] = "merging"]
  BY DEF BeginMerge, Goto, fileVars, loopVars
<1>4. \A k \in Connection : pc'[k] = "merging"
  BY <1>3 DEF ClockInv, OneConnection
<1>5. pc' \in [Connection -> Places] /\ owner' # NoConnection
  BY <1>3, ConnectionAssumption DEF ClockInv, Places
<1> QED
  BY <1>2, <1>3, <1>4, <1>5 DEF ClockInv, Stamping, Advances, Ahead

\* The steps of the processing that leave the tables as they are.
LEMMA QuietStep ==
  ASSUME OneConnection, ClockInv, NEW c \in Connection,
         \/ Open(c) \/ ScanPending(c) \/ FillCache(c) \/ OverflowClock(c)
         \/ CheckTombstone(c) \/ ClearPending(c) \/ Busy(c) \/ FailProcessing(c)
  PROVE  ClockInv' /\ Advances
<1>1. file' = file /\ owner' = owner /\ view' = view
  BY DEF Open, ScanPending, FillCache, OverflowClock, CheckTombstone, ClearPending,
         Busy, FailProcessing, fileVars, txnVars
<1>2. \E place \in {"idle", "cache", "clock", "enforce", "version"} :
        pc' = [pc EXCEPT ![c] = place]
  BY DEF Open, ScanPending, FillCache, OverflowClock, CheckTombstone, ClearPending,
         Busy, FailProcessing, Goto
<1>3. pc'[c] \in {"idle", "cache", "clock", "enforce", "version"}
      /\ pc' \in [Connection -> Places]
  BY <1>2 DEF ClockInv, Places
<1>4. stamp' = stamp \/ stamp' = [stamp EXCEPT ![c] = 0]
  BY DEF Open, ScanPending, FillCache, OverflowClock, CheckTombstone, ClearPending,
         Busy, FailProcessing, Forget, loopVars
<1>5. stamp' \in [Connection -> Nat]
  BY <1>4 DEF ClockInv
<1>6. pc'[c] \in Stamping => stamp'[c] = file'.clock + 1
  <2>1. CASE CheckTombstone(c)
    BY <1>1, <2>1 DEF CheckTombstone, loopVars, ClockInv, Stamping
  <2>2. CASE ~ CheckTombstone(c)
    <3>1. \E place \in {"idle", "cache", "clock"} : pc' = [pc EXCEPT ![c] = place]
      BY <2>2 DEF Open, ScanPending, FillCache, OverflowClock, ClearPending, Busy,
                  FailProcessing, Goto
    <3> QED
      BY <3>1 DEF ClockInv, Stamping
  <2> QED
    BY <2>1, <2>2
<1>7. \A k \in Connection : k = c
  BY DEF OneConnection
<1> QED
  BY <1>1, <1>3, <1>5, <1>6, <1>7 DEF ClockInv, Advances, Ahead

LEMMA ReadClockStep ==
  ASSUME OneConnection, ClockInv, NEW c \in Connection, ReadClock(c)
  PROVE  ClockInv' /\ Advances
<1>1. file' = file /\ owner' = owner /\ view' = view
      /\ pc' = [pc EXCEPT ![c] = "stamp"]
      /\ stamp' = [stamp EXCEPT ![c] = file.clock + 1]
  BY DEF ReadClock, Goto, fileVars, txnVars
<1>2. /\ pc' \in [Connection -> Places] /\ stamp' \in [Connection -> Nat]
      /\ pc'[c] = "stamp" /\ stamp'[c] = file.clock + 1
  BY <1>1 DEF ClockInv, Places, Ahead
<1>3. \A k \in Connection : k = c
  BY DEF OneConnection
<1> QED
  BY <1>1, <1>2, <1>3 DEF ClockInv, Advances, Ahead

\* What a loop step of the processing writes carries its stamp.
LEMMA LoopStep ==
  ASSUME OneConnection, ClockInv, NEW c \in Connection,
         \/ EntombRecord(c) \/ SweepVersions(c)
         \/ EnforceTombstone(c) \/ StampColumn(c)
  PROVE  ClockInv' /\ Advances
<1>0. pc[c] \in Stamping
  BY DEF EntombRecord, SweepVersions, EnforceTombstone, StampColumn, Stamping
<1>1. stamp[c] = file.clock + 1
  BY <1>0 DEF ClockInv
<1>2. Ahead(file') /\ file'.clock = file.clock
  <2>0. file = [rows |-> file.rows, versions |-> file.versions,
                tombs |-> file.tombs, clock |-> file.clock]
    BY DEF ClockInv, Ahead
  <2>1. CASE EntombRecord(c)
    <3>0. PICK p \in Firsts(plan[c]) :
            file' = [file EXCEPT !.tombs = {t \in file.tombs : t.rec # p.rec} \cup
                       {[rec |-> p.rec, dv |-> stamp[c], node |-> Self,
                         local |-> stamp[c]]}]
      BY <2>1 DEF EntombRecord
    <3> DEFINE tombs == {t \in file.tombs : t.rec # p.rec} \cup
                          {[rec |-> p.rec, dv |-> stamp[c], node |-> Self,
                            local |-> stamp[c]]}
    <3>1. file' = [file EXCEPT !.tombs = tombs]
      BY <3>0
    <3>2. \A y \in tombs : y \in file.tombs
                           \/ (y.dv = file.clock + 1 /\ y.local = file.clock + 1)
      BY <1>1
    <3> HIDE DEF tombs
    <3>3. file' = [rows |-> file.rows, versions |-> file.versions,
                   tombs |-> tombs, clock |-> file.clock]
      BY <2>0, <3>1
    <3> QED
      BY <3>2, <3>3, AheadWritten DEF ClockInv
  <2>2. CASE SweepVersions(c)
    <3>1. PICK p \in turn[c] : file' = [file EXCEPT !.versions =
                                         {v \in file.versions : v.rec # p.rec}]
      BY <2>2 DEF SweepVersions
    <3>2. file' = [rows |-> file.rows,
                   versions |-> {v \in file.versions : v.rec # p.rec},
                   tombs |-> file.tombs, clock |-> file.clock]
      BY <2>0, <3>1
    <3> QED
      BY <3>2, AheadWritten DEF ClockInv
  <2>3. CASE EnforceTombstone(c)
    <3>1. \E p \in turn[c] : file' = [file EXCEPT !.rows = RowsBut(file.rows, p.rec)]
      BY <2>3 DEF EnforceTombstone
    <3> QED
      BY <3>1, AheadRows DEF ClockInv
  <2>4. CASE StampColumn(c)
    <3>0. PICK p \in turn[c] :
            file' = [file EXCEPT !.versions =
                       Replaced(file.versions, StampedVersion(c, p))]
      BY <2>4 DEF StampColumn
    <3> DEFINE v == StampedVersion(c, p)
               versions == Replaced(file.versions, v)
    <3>1. file' = [file EXCEPT !.versions = versions]
      BY <3>0
    <3>2. v.dv = file.clock + 1 /\ v.local = file.clock + 1
      BY <1>1 DEF StampedVersion
    <3>3. \A y \in versions : y \in file.versions \/ y = v
      BY DEF Replaced
    <3> HIDE DEF v, versions
    <3>4. file' = [rows |-> file.rows, versions |-> versions,
                   tombs |-> file.tombs, clock |-> file.clock]
      BY <2>0, <3>1
    <3> QED
      BY <3>2, <3>3, <3>4, AheadWritten DEF ClockInv
  <2> QED
    BY <2>1, <2>2, <2>3, <2>4
<1>3. owner' = owner /\ view' = view /\ stamp' = stamp
  BY DEF EntombRecord, SweepVersions, EnforceTombstone, StampColumn, txnVars, loopVars
<1>4. \E place \in {"stamp", "sweep"} : pc' = [pc EXCEPT ![c] = place]
  BY DEF EntombRecord, SweepVersions, EnforceTombstone, StampColumn, Goto
<1>5. pc' \in [Connection -> Places] /\ pc'[c] \in {"stamp", "sweep"}
  BY <1>4 DEF ClockInv, Places
<1>6. \A k \in Connection : k = c
  BY DEF OneConnection
<1> QED
  BY <1>1, <1>2, <1>3, <1>5, <1>6 DEF ClockInv, Advances, Ahead

LEMMA AdvanceClockStep ==
  ASSUME OneConnection, ClockInv, NEW c \in Connection, AdvanceClock(c)
  PROVE  ClockInv' /\ Advances
<1>1. stamp[c] = file.clock + 1 /\ file.clock \in Nat
  BY DEF AdvanceClock, ClockInv, Stamping, Ahead
<1>2. file' = [rows |-> file.rows, versions |-> file.versions,
               tombs |-> file.tombs, clock |-> stamp[c]]
  <2>1. file = [rows |-> file.rows, versions |-> file.versions,
                tombs |-> file.tombs, clock |-> file.clock]
    BY DEF ClockInv, Ahead
  <2>2. file' = [file EXCEPT !.clock = stamp[c]]
    BY DEF AdvanceClock
  <2> QED
    BY <2>1, <2>2
<1>3. /\ file'.rows = file.rows /\ file'.versions = file.versions
      /\ file'.tombs = file.tombs /\ file'.clock = file.clock + 1
  BY <1>1, <1>2
<1>4. Ahead(file')
  <2>1. \A y \in file.versions \cup file.tombs :
          /\ y.dv \in Nat /\ y.local \in Nat
          /\ y.dv <= file.clock + 1 /\ y.local <= file.clock + 1
    BY DEF ClockInv, Ahead
  <2>2. file'.clock \in Nat /\ file'.clock + 1 >= file.clock + 1
    BY <1>1, <1>3
  <2>3. \A y \in file'.versions \cup file'.tombs :
          /\ y.dv \in Nat /\ y.local \in Nat
          /\ y.dv <= file'.clock + 1 /\ y.local <= file'.clock + 1
    BY <1>1, <1>3, <2>1
  <2>4. file' = [rows |-> file'.rows, versions |-> file'.versions,
                 tombs |-> file'.tombs, clock |-> file'.clock]
    BY <1>1, <1>2, <1>3
  <2> QED
    BY <2>2, <2>3, <2>4 DEF Ahead
<1>5. /\ owner' = owner /\ view' = view /\ stamp' = stamp
      /\ pc' = [pc EXCEPT ![c] = "clear"] /\ owner = NoConnection
  BY DEF AdvanceClock, txnVars, loopVars, Goto
<1>6. pc' \in [Connection -> Places] /\ pc'[c] = "clear"
  BY <1>5 DEF ClockInv, Places
<1>7. \A k \in Connection : k = c
  BY DEF OneConnection
<1> QED
  BY <1>1, <1>3, <1>4, <1>5, <1>6, <1>7 DEF ClockInv, Stamping, Advances

LEMMA CrashStep ==
  ASSUME ClockInv, Crash
  PROVE  ClockInv' /\ Advances
<1>1. /\ file' = file /\ owner' = NoConnection
      /\ pc' = [c \in Connection |-> "closed"] /\ stamp' = [c \in Connection |-> 0]
  BY DEF Crash, EndTransaction
<1> QED
  BY <1>1 DEF ClockInv, Places, Stamping, Advances, Ahead

LEMMA ClockStep ==
  ASSUME OneConnection, ClockInv, [Next]_vars
  PROVE  ClockInv' /\ Advances
<1>1. CASE UNCHANGED vars
  BY <1>1 DEF vars, fileVars, txnVars, loopVars, ClockInv, Advances, Ahead
<1>2. ASSUME NEW c \in Connection, ConnectionStep(c)
      PROVE  ClockInv' /\ Advances
  BY <1>2, UserStep, EndStep, BeginMergeStep, QuietStep, ReadClockStep, LoopStep,
     AdvanceClockStep DEF ConnectionStep, ProcessPendingChanges
<1> QED
  BY <1>1, <1>2, CrashStep DEF Next

LEMMA ClockInvariant ==
  ASSUME OneConnection
  PROVE  Spec => []ClockInv
<1>1. Init => ClockInv
  BY DEF Init, ClockInv, EmptyDatabase, Ahead, Places, Stamping
<1>2. ClockInv /\ [Next]_vars => ClockInv'
  BY ClockStep
<1> QED
  BY <1>1, <1>2, PTL DEF Spec

\* With one connection, whatever fails, rolls back or dies, no stamp in the
\* file is ahead of the clock by more than one.
THEOREM AheadCorrect ==
  ASSUME OneConnection
  PROVE  Spec => []AheadByOne
<1>1. ClockInv => AheadByOne
  BY DEF ClockInv, Ahead, AheadByOne
<1>2. Spec => []ClockInv
  BY ClockInvariant
<1> QED
  BY <1>1, <1>2, PTL

\* With one connection, whatever fails, rolls back or dies, the clock of the
\* file never goes back.
THEOREM ClockNeverBack ==
  ASSUME OneConnection
  PROVE  Spec => ClockAdvances
<1>1. ClockInv /\ [Next]_vars => [file'.clock >= file.clock]_vars
  BY ClockStep DEF Advances
<1>2. Spec => []ClockInv
  BY ClockInvariant
<1> QED
  BY <1>1, <1>2, PTL DEF Spec, ClockAdvances

-----------------------------------------------------------------------------
(* The pending table of a file that one connection has open, through       *)
(* transactions, merges, failures and crashes: what the processing has not *)
(* come to is always in its plan, and the plan always in the table.        *)

-----------------------------------------------------------------------------
(* What each action does to the connection that takes it.                  *)

\* A statement of the user turns the rows of `tables' into `rows' and queues
\* `entries'.
Fires(tables, rows, entries) ==
  \/ \E r \in Record, cells \in [Column -> Cell] :
       /\ rows = RowsBut(tables.rows, r) \cup {[rec |-> r, cells |-> cells]}
       /\ entries = [op : {"INSERT"}, rec : {r}, col : Column]
  \/ \E row \in tables.rows, cells \in [Column -> Cell] :
       /\ rows = RowsBut(tables.rows, row.rec) \cup {[rec |-> row.rec, cells |-> cells]}
       /\ \E k \in Column : cells[k] # row.cells[k]
       /\ entries = [op : {"UPDATE"}, rec : {row.rec},
                     col : {k \in Column : cells[k] # row.cells[k]}]
  \/ \E row \in tables.rows :
       /\ rows = tables.rows \ {row}
       /\ entries = [op : {"DELETE"}, rec : {row.rec}, col : {NoColumn}]

LEMMA FiresTypes ==
  ASSUME NEW tables \in Database, NEW rows, NEW entries, Fires(tables, rows, entries)
  PROVE  entries \in SUBSET Pending /\ entries \subseteq Entries
<1>1. \A row \in tables.rows : row.rec \in Record
  BY DEF Database, Row
<1>2. \A r \in Record, cols \in SUBSET Column :
        /\ [op : {"INSERT"}, rec : {r}, col : cols] \subseteq Entries
        /\ [op : {"UPDATE"}, rec : {r}, col : cols] \subseteq Entries
  BY ColumnAssumption DEF Entries, Pending
<1>3. \A r \in Record : [op : {"DELETE"}, rec : {r}, col : {NoColumn}] \subseteq Entries
  BY DEF Entries, Pending
<1>4. entries \subseteq Entries
  <2>1. CASE \E r \in Record : entries = [op : {"INSERT"}, rec : {r}, col : Column]
    BY <1>2, <2>1
  <2>2. CASE \E r \in Record, cols \in SUBSET Column :
               entries = [op : {"UPDATE"}, rec : {r}, col : cols]
    BY <1>2, <2>2
  <2>3. CASE \E r \in Record : entries = [op : {"DELETE"}, rec : {r}, col : {NoColumn}]
    BY <1>3, <2>3
  <2> QED
    BY <1>1, <2>1, <2>2, <2>3 DEF Fires
<1> QED
  BY <1>4 DEF Entries

LEMMA ExecuteFires ==
  ASSUME NEW tables, NEW queue, NEW c, Execute(c, tables, queue)
  PROVE  /\ owner' = c /\ pc' = [pc EXCEPT ![c] = "writing"]
         /\ UNCHANGED <<file, pending, plan, turn, cache, stamp, overflowed, untracked>>
         /\ \E rows, entries :
              /\ Fires(tables, rows, entries)
              /\ view' = [tables EXCEPT !.rows = rows]
              /\ viewPending' = Enqueue(queue, entries)
              /\ wrote' = wrote \cup Keys(entries)
<1> DEFINE Done(rows, entries) ==
             /\ view' = [tables EXCEPT !.rows = rows]
             /\ viewPending' = Enqueue(queue, entries)
             /\ wrote' = wrote \cup Keys(entries)
<1>1. \E rows, entries : Statement(c, tables, queue, rows, entries)
  BY DEF Execute, InsertInto, Update, DeleteFrom
<1>2. \A rows, entries : Statement(c, tables, queue, rows, entries) => Done(rows, entries)
  BY DEF Statement, Keys
<1>3. \E rows, entries : Fires(tables, rows, entries)
                         /\ Statement(c, tables, queue, rows, entries)
  <2>1. CASE InsertInto(c, tables, queue)
    <3>1. PICK r \in Record, cells \in [Column -> UserCell] :
            Statement(c, tables, queue,
                      RowsBut(tables.rows, r) \cup {[rec |-> r, cells |-> cells]},
                      [op : {"INSERT"}, rec : {r}, col : Column])
      BY <2>1 DEF InsertInto
    <3>2. cells \in [Column -> Cell]
      BY CellAssumption
    <3>3. Fires(tables, RowsBut(tables.rows, r) \cup {[rec |-> r, cells |-> cells]},
                [op : {"INSERT"}, rec : {r}, col : Column])
      BY <3>2 DEF Fires
    <3> QED
      BY <3>1, <3>3
  <2>2. CASE Update(c, tables, queue)
    <3>1. PICK row \in tables.rows, cells \in [Column -> Cell] :
            /\ {k \in Column : cells[k] # row.cells[k]} # {}
            /\ Statement(c, tables, queue,
                         RowsBut(tables.rows, row.rec)
                           \cup {[rec |-> row.rec, cells |-> cells]},
                         [op : {"UPDATE"}, rec : {row.rec},
                          col : {k \in Column : cells[k] # row.cells[k]}])
      BY <2>2 DEF Update
    <3>2. Fires(tables,
                RowsBut(tables.rows, row.rec) \cup {[rec |-> row.rec, cells |-> cells]},
                [op : {"UPDATE"}, rec : {row.rec},
                 col : {k \in Column : cells[k] # row.cells[k]}])
      <4>1. \E k \in Column : cells[k] # row.cells[k]
        BY <3>1
      <4> QED
        BY <4>1 DEF Fires
    <3> QED
      BY <3>1, <3>2
  <2>3. CASE DeleteFrom(c, tables, queue)
    <3>1. PICK row \in tables.rows :
            Statement(c, tables, queue, tables.rows \ {row},
                      [op : {"DELETE"}, rec : {row.rec}, col : {NoColumn}])
      BY <2>3 DEF DeleteFrom
    <3>2. Fires(tables, tables.rows \ {row},
                [op : {"DELETE"}, rec : {row.rec}, col : {NoColumn}])
      BY DEF Fires
    <3> QED
      BY <3>1, <3>2
  <2> QED
    BY <2>1, <2>2, <2>3 DEF Execute
<1>4. \E rows, entries : Fires(tables, rows, entries) /\ Done(rows, entries)
  BY <1>2, <1>3
<1>5. /\ owner' = c /\ pc' = [pc EXCEPT ![c] = "writing"]
      /\ UNCHANGED <<file, pending, plan, turn, cache, stamp, overflowed, untracked>>
  BY <1>1 DEF Statement, Goto, fileVars, loopVars
<1> QED
  BY <1>4, <1>5

\* The first statement of a transaction, or a later one.
LEMMA UserEffect ==
  ASSUME TypeInv, NEW c \in Connection, FirstStatement(c) \/ NextStatement(c)
  PROVE  /\ owner' = c /\ pc'[c] = "writing"
         /\ UNCHANGED <<file, pending, plan, turn, cache, stamp, overflowed, untracked>>
         /\ \E tables, queue, rows, entries :
              /\ \/ pc[c] = "idle" /\ owner = NoConnection
                    /\ tables = file /\ queue = pending
                 \/ pc[c] = "writing" /\ owner = c
                    /\ tables = view /\ queue = viewPending
              /\ Fires(tables, rows, entries)
              /\ view' = [tables EXCEPT !.rows = rows]
              /\ viewPending' = Enqueue(queue, entries)
              /\ wrote' = wrote \cup Keys(entries)
<1>1. pc' = [pc EXCEPT ![c] = "writing"] => pc'[c] = "writing"
  BY DEF TypeInv, PlacesOK
<1>2. CASE FirstStatement(c)
  <2>1. pc[c] = "idle" /\ owner = NoConnection /\ Execute(c, file, pending)
    BY <1>2 DEF FirstStatement
  <2> QED
    BY <1>1, <2>1, ExecuteFires
<1>3. CASE NextStatement(c)
  <2>1. pc[c] = "writing" /\ owner = c /\ Execute(c, view, viewPending)
    BY <1>3 DEF NextStatement, TypeInv, PlacesOK
  <2> QED
    BY <1>1, <2>1, ExecuteFires
<1> QED
  BY <1>2, <1>3

\* The end of a transaction or of a merge.
LEMMA EndEffect ==
  ASSUME TypeInv, NEW c \in Connection
  PROVE  /\ CommitTransaction(c) =>
              /\ pc[c] = "writing" /\ file' = view /\ pending' = viewPending
              /\ untracked' = untracked \cup wrote
         /\ RollbackTransaction(c) =>
              /\ pc[c] = "writing" /\ file' = file /\ pending' = EmptyQueue
              /\ untracked' = untracked
         /\ CommitMerge(c) =>
              /\ pc[c] = "merging" /\ file' = view /\ pending' = viewPending
              /\ untracked' = untracked
         /\ AbortMerge(c) =>
              /\ pc[c] = "merging" /\ file' = file /\ pending' = EmptyQueue
              /\ untracked' = untracked
         /\ (CommitTransaction(c) \/ RollbackTransaction(c)
             \/ CommitMerge(c) \/ AbortMerge(c))
              => /\ owner = c /\ owner' = NoConnection /\ pc'[c] = "scan"
                 /\ view' = EmptyDatabase /\ viewPending' = EmptyQueue /\ wrote' = {}
                 /\ UNCHANGED <<plan, turn, cache, stamp, overflowed>>
<1>1. pc' = [pc EXCEPT ![c] = "scan"] => pc'[c] = "scan"
  BY DEF TypeInv, PlacesOK
<1>2. pc[c] \in {"writing", "merging"} => owner = c
  BY DEF TypeInv, PlacesOK
<1> QED
  BY <1>1, <1>2 DEF CommitTransaction, RollbackTransaction, CommitMerge, AbortMerge,
                    EndTransaction, Goto, loopVars

LEMMA MergeEffect ==
  ASSUME TypeInv, NEW c \in Connection, BeginMerge(c)
  PROVE  /\ pc[c] = "idle" /\ owner = NoConnection /\ owner' = c /\ pc'[c] = "merging"
         /\ \E x \in Incoming : view' = Merged(file, x)
         /\ viewPending' = pending
         /\ UNCHANGED <<file, pending, plan, turn, cache, stamp, overflowed, wrote,
                        untracked>>
<1>1. pc' = [pc EXCEPT ![c] = "merging"] => pc'[c] = "merging"
  BY DEF TypeInv, PlacesOK
<1> QED
  BY <1>1 DEF BeginMerge, Goto, fileVars, loopVars

\* What the steps of process_pending_changes do that leave the tables alone.
LEMMA ReadEffect ==
  ASSUME TypeInv, NEW c \in Connection
  PROVE  /\ Open(c) =>
              /\ pc[c] = "closed" /\ pc'[c] = "idle"
              /\ UNCHANGED <<file, pending, plan, turn, cache, stamp, untracked>>
         /\ ScanPending(c) =>
              /\ pc[c] = "scan" /\ plan'[c] = pending
              /\ pc'[c] = IF pending.rows = {} THEN "idle" ELSE "cache"
              /\ UNCHANGED <<file, pending, turn, cache, stamp, untracked>>
         /\ FillCache(c) =>
              /\ pc[c] = "cache" /\ pc'[c] = "clock" /\ cache'[c] = file.versions
              /\ UNCHANGED <<file, pending, plan, turn, stamp, untracked>>
         /\ ReadClock(c) =>
              /\ pc[c] = "clock" /\ pc'[c] = "stamp" /\ stamp'[c] = file.clock + 1
              /\ UNCHANGED <<file, pending, plan, turn, cache, untracked>>
         /\ CheckTombstone(c) =>
              /\ pc[c] = "stamp"
              /\ UNCHANGED <<file, pending, plan, cache, stamp, untracked>>
              /\ \E p \in Firsts(plan[c]) :
                   /\ p.op # "DELETE" /\ turn'[c] = {p}
                   /\ pc'[c] = IF HasTombstone(file, p.rec) THEN "enforce" ELSE "version"
BY DEF Open, ScanPending, FillCache, ReadClock, CheckTombstone, Goto, fileVars,
       txnVars, loopVars, TypeInv, MemoryOK, PlacesOK

\* What the steps do that end the processing.
LEMMA StopEffect ==
  ASSUME TypeInv, NEW c \in Connection
  PROVE  /\ OverflowClock(c) => pc[c] = "clock" /\ file.clock >= ClockMax
         /\ ClearPending(c) => pc[c] = "clear" /\ pending' = EmptyQueue
         /\ Busy(c) => AtWrite(c) /\ owner # NoConnection /\ pending' = pending
         /\ FailProcessing(c) =>
              AtWrite(c) /\ "failure" \in Faults /\ pending' \in {EmptyQueue, pending}
         /\ OverflowClock(c) \/ ClearPending(c) \/ Busy(c) \/ FailProcessing(c) =>
              /\ file' = file /\ untracked' = untracked /\ pc'[c] = "idle"
              /\ pending' \in {EmptyQueue, pending}
              /\ plan'[c] = EmptyQueue /\ turn'[c] = {} /\ cache'[c] = {}
              /\ stamp'[c] = 0
BY DEF OverflowClock, ClearPending, Busy, FailProcessing, Forget, Goto, fileVars,
       txnVars, TypeInv, MemoryOK, PlacesOK

\* What the steps do that write, one row of the plan at a time.
LEMMA WriteEffect ==
  ASSUME TypeInv, NEW c \in Connection
  PROVE  /\ EntombRecord(c) => \E p \in Firsts(plan[c]) :
              /\ pc[c] = "stamp" /\ pc'[c] = "sweep" /\ p.op = "DELETE"
              /\ file' = [file EXCEPT !.tombs =
                            {t \in file.tombs : t.rec # p.rec} \cup
                              {[rec |-> p.rec, dv |-> stamp[c], node |-> Self,
                                local |-> stamp[c]]}]
              /\ untracked' = {u \in untracked : u.rec # p.rec}
              /\ turn'[c] = {p} /\ UNCHANGED <<pending, plan, cache, stamp>>
         /\ SweepVersions(c) => \E p \in turn[c] :
              /\ pc[c] = "sweep"
              /\ file' = [file EXCEPT !.versions = {v \in file.versions : v.rec # p.rec}]
              /\ UNCHANGED <<pending, untracked>>
         /\ EnforceTombstone(c) => \E p \in turn[c] :
              /\ pc[c] = "enforce"
              /\ file' = [file EXCEPT !.rows = RowsBut(file.rows, p.rec)]
              /\ \E again \in SUBSET {[op |-> "DELETE", rec |-> p.rec, col |-> NoColumn]} :
                   /\ pending' = Enqueue(pending, again)
                   /\ untracked' = untracked \ Keys({p} \cup again)
         /\ StampColumn(c) => \E p \in turn[c] :
              /\ pc[c] = "version"
              /\ file' = [file EXCEPT !.versions =
                            Replaced(file.versions, StampedVersion(c, p))]
              /\ untracked' = untracked \ {Key(p)}
              /\ pending' = pending
         /\ SweepVersions(c) \/ EnforceTombstone(c) \/ StampColumn(c) =>
              /\ pc'[c] = "stamp" /\ turn'[c] = {}
              /\ plan'[c] = Without(plan[c], turn[c])
              /\ UNCHANGED <<cache, stamp>>
         /\ AdvanceClock(c) =>
              /\ pc[c] = "stamp" /\ pc'[c] = "clear" /\ plan[c].rows = {}
              /\ file' = [file EXCEPT !.clock = stamp[c]]
              /\ UNCHANGED <<pending, plan, turn, cache, stamp, untracked>>
<1>0. /\ pc \in [Connection -> Places] /\ plan \in [Connection -> Queue]
      /\ turn \in [Connection -> SUBSET Pending]
  BY DEF TypeInv, MemoryOK, PlacesOK
<1>1. EntombRecord(c) => \E p \in Firsts(plan[c]) :
        /\ pc[c] = "stamp" /\ pc'[c] = "sweep" /\ p.op = "DELETE"
        /\ file' = [file EXCEPT !.tombs =
                      {t \in file.tombs : t.rec # p.rec} \cup
                        {[rec |-> p.rec, dv |-> stamp[c], node |-> Self,
                          local |-> stamp[c]]}]
        /\ untracked' = {u \in untracked : u.rec # p.rec}
        /\ turn'[c] = {p} /\ UNCHANGED <<pending, plan, cache, stamp>>
  BY <1>0 DEF EntombRecord, Goto
<1>2. SweepVersions(c) => \E p \in turn[c] :
        /\ pc[c] = "sweep"
        /\ file' = [file EXCEPT !.versions = {v \in file.versions : v.rec # p.rec}]
        /\ UNCHANGED <<pending, untracked>>
  BY DEF SweepVersions
<1>3. EnforceTombstone(c) => \E p \in turn[c] :
        /\ pc[c] = "enforce"
        /\ file' = [file EXCEPT !.rows = RowsBut(file.rows, p.rec)]
        /\ \E again \in SUBSET {[op |-> "DELETE", rec |-> p.rec, col |-> NoColumn]} :
             /\ pending' = Enqueue(pending, again)
             /\ untracked' = untracked \ Keys({p} \cup again)
  BY DEF EnforceTombstone
<1>4. StampColumn(c) => \E p \in turn[c] :
        /\ pc[c] = "version"
        /\ file' = [file EXCEPT !.versions =
                      Replaced(file.versions, StampedVersion(c, p))]
        /\ untracked' = untracked \ {Key(p)}
        /\ pending' = pending
  BY DEF StampColumn
<1>5. SweepVersions(c) \/ EnforceTombstone(c) \/ StampColumn(c) =>
        /\ pc'[c] = "stamp" /\ turn'[c] = {}
        /\ plan'[c] = Without(plan[c], turn[c])
        /\ UNCHANGED <<cache, stamp>>
  BY <1>0 DEF SweepVersions, EnforceTombstone, StampColumn, Advance, Goto
<1>6. AdvanceClock(c) =>
        /\ pc[c] = "stamp" /\ pc'[c] = "clear" /\ plan[c].rows = {}
        /\ file' = [file EXCEPT !.clock = stamp[c]]
        /\ UNCHANGED <<pending, plan, turn, cache, stamp, untracked>>
  BY <1>0 DEF AdvanceClock, Goto, loopVars
<1> QED
  BY <1>1, <1>2, <1>3, <1>4, <1>5, <1>6

LEMMA CrashEffect ==
  ASSUME Crash
  PROVE  /\ UNCHANGED <<file, pending, untracked>>
         /\ owner' = NoConnection /\ view' = EmptyDatabase
         /\ viewPending' = EmptyQueue /\ wrote' = {}
         /\ \A k \in Connection :
              /\ pc'[k] = "closed" /\ plan'[k] = EmptyQueue /\ turn'[k] = {}
              /\ cache'[k] = {} /\ stamp'[k] = 0
BY DEF Crash, EndTransaction

-----------------------------------------------------------------------------
(* The plan of the loop.                                                   *)

\* Places at which the loop's plan is empty.
Unplanned == {"closed", "idle", "writing", "merging", "scan", "clear"}

\* Places at which an iteration is under way.
Turning == {"sweep", "enforce", "version"}

PlanOf(c) ==
  /\ plan[c].rows \subseteq pending.rows
  /\ pc[c] \in Unplanned => plan[c].rows = {}
  /\ pc[c] \in {"cache", "clock"} => plan[c] = pending /\ pending.rows # {}
  /\ turn[c] \subseteq plan[c].rows
  /\ \A p, q \in turn[c] : p = q
  /\ turn[c] # {} => pc[c] \in Turning

\* What the open transaction has queued it has not forgotten.
Queued ==
  /\ owner \in Connection \cup {NoConnection}
  /\ owner = NoConnection => wrote = {}
  /\ owner # NoConnection => /\ pending.rows \subseteq viewPending.rows
                             /\ wrote \subseteq Keys(viewPending.rows)
  /\ \A c \in Connection : pc[c] = "merging" => viewPending = pending /\ wrote = {}

PlanInv == Queued /\ \A c \in Connection : PlanOf(c)

LEMMA WithoutTurn ==
  ASSUME TypeInv, NEW c \in Connection
  PROVE  Without(plan[c], turn[c]).rows = plan[c].rows \ turn[c]
BY WithoutType DEF TypeInv, MemoryOK

LEMMA PlanStep ==
  ASSUME OneConnection, TypeInv, PlanInv, [Next]_vars
  PROVE  PlanInv'
<1>0. EmptyQueue.rows = {} /\ pc \in [Connection -> Places]
  BY EmptyTypes DEF TypeInv, PlacesOK
<1>1. CASE UNCHANGED vars
  BY <1>1 DEF vars, fileVars, txnVars, loopVars, PlanInv, Queued, PlanOf
<1>2. CASE Crash
  BY <1>0, <1>2, CrashEffect DEF PlanInv, Queued, PlanOf, Unplanned
<1>3. ASSUME NEW c \in Connection, ConnectionStep(c)
      PROVE  PlanInv'
  <2>0. \A k \in Connection : k = c
    BY DEF OneConnection
  <2> SUFFICES Queued' /\ PlanOf(c)'
    BY <2>0 DEF PlanInv
  <2>1. CASE FirstStatement(c) \/ NextStatement(c)
    <3>1. PICK tables, queue, rows, entries :
            /\ \/ pc[c] = "idle" /\ owner = NoConnection
                  /\ tables = file /\ queue = pending
               \/ pc[c] = "writing" /\ owner = c
                  /\ tables = view /\ queue = viewPending
            /\ Fires(tables, rows, entries)
            /\ viewPending' = Enqueue(queue, entries)
            /\ wrote' = wrote \cup Keys(entries)
      BY <2>1, UserEffect
    <3>2. entries \in SUBSET Pending /\ queue \in Queue
      BY <3>1, FiresTypes DEF TypeInv, TablesOK
    <3>3. viewPending'.rows = queue.rows \cup entries
      BY <3>1, <3>2, EnqueueType
    <3>4. /\ owner' = c /\ pc'[c] = "writing"
          /\ UNCHANGED <<file, pending, plan, turn, cache, stamp, untracked>>
      BY <2>1, UserEffect
    <3>5. wrote \subseteq Keys(queue.rows) /\ pending.rows \subseteq queue.rows
      BY <3>1, ConnectionAssumption DEF PlanInv, Queued
    <3>6. Queued'
      <4>1. wrote' \subseteq Keys(viewPending'.rows)
        BY <3>1, <3>3, <3>5 DEF Keys
      <4>2. pending'.rows \subseteq viewPending'.rows
        BY <3>3, <3>4, <3>5
      <4> QED
        BY <2>0, <3>4, <4>1, <4>2, ConnectionAssumption DEF Queued
    <3>7. PlanOf(c)'
      BY <3>1, <3>4 DEF PlanInv, PlanOf, Unplanned, Turning
    <3> QED
      BY <3>6, <3>7
  <2>2. CASE \/ CommitTransaction(c) \/ RollbackTransaction(c)
             \/ CommitMerge(c) \/ AbortMerge(c)
    <3>0. pc[c] \in {"writing", "merging"}
      <4>1. CASE CommitTransaction(c) \/ RollbackTransaction(c)
        BY <4>1, EndEffect
      <4>2. CASE CommitMerge(c) \/ AbortMerge(c)
        BY <4>2, EndEffect
      <4> QED
        BY <2>2, <4>1, <4>2
    <3>1. /\ owner' = NoConnection /\ pc'[c] = "scan" /\ wrote' = {}
          /\ UNCHANGED <<plan, turn>>
      BY <2>2, EndEffect
    <3>2. Queued'
      BY <2>0, <3>1 DEF Queued
    <3>3. PlanOf(c)'
      BY <3>0, <3>1 DEF PlanInv, PlanOf, Unplanned, Turning
    <3> QED
      BY <3>2, <3>3
  <2>3. CASE BeginMerge(c)
    <3>1. /\ pc[c] = "idle" /\ owner = NoConnection /\ owner' = c /\ pc'[c] = "merging"
          /\ viewPending' = pending
          /\ UNCHANGED <<file, pending, plan, turn, wrote>>
      BY <2>3, MergeEffect
    <3>2. wrote' = {}
      BY <3>1 DEF PlanInv, Queued
    <3>3. Queued'
      BY <2>0, <3>1, <3>2, ConnectionAssumption DEF Queued
    <3>4. PlanOf(c)'
      BY <3>1 DEF PlanInv, PlanOf, Unplanned, Turning
    <3> QED
      BY <3>3, <3>4
  <2>4. CASE Open(c) \/ ProcessPendingChanges(c)
    <3>0. /\ UNCHANGED <<owner, viewPending, wrote>>
          /\ pc[c] \notin {"writing", "merging"}
          /\ pc'[c] \notin {"writing", "merging"}
      BY <2>4, ProcessingMoves DEF TypeInv, PlacesOK
    <3>1. owner = NoConnection
      BY <2>0, <3>0 DEF PlanInv, Queued, TypeInv, PlacesOK
    <3>2. Queued'
      BY <2>0, <3>0, <3>1 DEF PlanInv, Queued
    <3>3. PlanOf(c)'
      <4>1. CASE Open(c) \/ FillCache(c) \/ ReadClock(c)
        BY <4>1, ReadEffect DEF PlanInv, PlanOf, Unplanned, Turning
      <4>2. CASE ScanPending(c)
        BY <4>2, ReadEffect DEF PlanInv, PlanOf, Unplanned, Turning
      <4>3. CASE CheckTombstone(c)
        <5>1. PICK p \in Firsts(plan[c]) :
                /\ turn'[c] = {p} /\ pc'[c] \in Turning
                /\ UNCHANGED <<pending, plan>>
          BY <4>3, ReadEffect DEF Turning
        <5>2. p \in plan[c].rows
          BY DEF Firsts
        <5> QED
          BY <5>1, <5>2 DEF PlanInv, PlanOf, Unplanned, Turning
      <4>4. CASE OverflowClock(c) \/ ClearPending(c) \/ Busy(c) \/ FailProcessing(c)
        BY <1>0, <4>4, StopEffect DEF PlanOf, Unplanned, Turning
      <4>5. CASE EntombRecord(c)
        <5>1. PICK p \in Firsts(plan[c]) :
                /\ pc[c] = "stamp" /\ pc'[c] = "sweep"
                /\ turn'[c] = {p} /\ UNCHANGED <<pending, plan>>
          BY <4>5, WriteEffect
        <5>2. p \in plan[c].rows
          BY DEF Firsts
        <5> QED
          BY <5>1, <5>2 DEF PlanInv, PlanOf, Unplanned, Turning
      <4>6. CASE SweepVersions(c) \/ EnforceTombstone(c) \/ StampColumn(c)
        <5>1. /\ pc'[c] = "stamp" /\ turn'[c] = {}
              /\ plan'[c].rows = plan[c].rows \ turn[c]
          BY <4>6, WriteEffect, WithoutTurn
        <5>2. pending.rows \subseteq pending'.rows
          <6>1. CASE SweepVersions(c) \/ StampColumn(c)
            BY <6>1, WriteEffect
          <6>2. CASE EnforceTombstone(c)
            <7>1. PICK p \in turn[c] :
                    \E again \in SUBSET {[op |-> "DELETE", rec |-> p.rec,
                                          col |-> NoColumn]} :
                      pending' = Enqueue(pending, again)
              BY <6>2, WriteEffect
            <7>2. PICK again \in SUBSET {[op |-> "DELETE", rec |-> p.rec,
                                          col |-> NoColumn]} :
                    pending' = Enqueue(pending, again)
              BY <7>1
            <7>3. p \in Pending /\ pending \in Queue
              BY DEF TypeInv, MemoryOK, TablesOK
            <7>4. again \in SUBSET Pending
              BY <7>3 DEF Pending
            <7> QED
              BY <7>2, <7>3, <7>4, EnqueueType
          <6> QED
            BY <4>6, <6>1, <6>2
        <5> QED
          BY <5>1, <5>2 DEF PlanInv, PlanOf, Unplanned, Turning
      <4>7. CASE AdvanceClock(c)
        BY <4>7, WriteEffect DEF PlanInv, PlanOf, Unplanned, Turning
      <4> QED
        BY <2>4, <4>1, <4>2, <4>3, <4>4, <4>5, <4>6, <4>7 DEF ProcessPendingChanges
    <3> QED
      BY <3>2, <3>3
  <2> QED
    BY <1>3, <2>1, <2>2, <2>3, <2>4 DEF ConnectionStep
<1> QED
  BY <1>1, <1>2, <1>3 DEF Next

LEMMA PlanInvariant ==
  ASSUME OneConnection
  PROVE  Spec => [](TypeInv /\ PlanInv)
<1>1. Init => PlanInv
  BY EmptyTypes DEF Init, PlanInv, Queued, PlanOf, Unplanned, Turning
<1>2. TypeInv /\ PlanInv /\ [Next]_vars => PlanInv'
  BY PlanStep
<1> QED
  BY <1>1, <1>2, TypeInvariant, PTL DEF Spec

-----------------------------------------------------------------------------
(* What is not yet versioned is still in the plan.                         *)

Kept(c) ==
  /\ pc[c] \in Stamping =>
       \A u \in untracked : u \in Keys(pending.rows) => u \in Keys(plan[c].rows)
  /\ pc[c] = "clear" => \A u \in untracked : u \notin Keys(pending.rows)
  /\ pc[c] = "sweep" => \A u \in untracked, p \in turn[c] : u.rec # p.rec

KeptInv == \A c \in Connection : Kept(c)

\* A change that is remembered stays so, unless it is new and dropped.
Remembers ==
  \A u \in untracked' : (u \in untracked => Remembered(u)) => Remembered(u)'

LEMMA RememberedPending ==
  ASSUME PlanInv, NEW u, Remembered(u)
  PROVE  u \in Keys(pending.rows)
BY DEF PlanInv, PlanOf, Remembered, Keys

\* An iteration takes its row out of the plan and what it settles out of the
\* changes that are not versioned.
LEMMA IterationKeeps ==
  ASSUME TypeInv, PlanInv, KeptInv, NEW c \in Connection,
         SweepVersions(c) \/ EnforceTombstone(c) \/ StampColumn(c)
  PROVE  /\ Kept(c)'
         /\ untracked' \subseteq untracked
         /\ pending.rows \subseteq pending'.rows
<1>0. /\ pc'[c] = "stamp" /\ plan'[c].rows = plan[c].rows \ turn[c]
      /\ pc[c] \in Stamping
  BY WriteEffect, WithoutTurn DEF Stamping
<1>1. CASE SweepVersions(c)
  <2>1. PICK p \in turn[c] : pc[c] = "sweep" /\ UNCHANGED <<pending, untracked>>
    BY <1>1, WriteEffect
  <2>2. turn[c] = {p}
    BY DEF PlanInv, PlanOf
  <2>3. ASSUME NEW u \in untracked, u \in Keys(pending.rows)
        PROVE  u \in Keys(plan'[c].rows)
    <3>1. PICK q \in plan[c].rows : u = Key(q)
      BY <1>0, <2>3 DEF KeptInv, Kept, Keys
    <3>2. u.rec # p.rec
      BY <2>1 DEF KeptInv, Kept
    <3>3. q # p
      BY <3>1, <3>2 DEF Key
    <3> QED
      BY <1>0, <2>2, <3>1, <3>3 DEF Keys
  <2> QED
    BY <1>0, <2>1, <2>3 DEF Kept
<1>2. CASE StampColumn(c)
  <2>1. PICK p \in turn[c] : untracked' = untracked \ {Key(p)} /\ pending' = pending
    BY <1>2, WriteEffect
  <2>2. turn[c] = {p}
    BY DEF PlanInv, PlanOf
  <2>3. ASSUME NEW u \in untracked', u \in Keys(pending.rows)
        PROVE  u \in Keys(plan'[c].rows)
    <3>1. PICK q \in plan[c].rows : u = Key(q)
      BY <1>0, <2>1, <2>3 DEF KeptInv, Kept, Keys
    <3> QED
      BY <1>0, <2>1, <2>2, <3>1 DEF Keys
  <2> QED
    BY <1>0, <2>1, <2>3 DEF Kept
<1>3. CASE EnforceTombstone(c)
  <2>0. PICK p \in turn[c] :
          \E again \in SUBSET {[op |-> "DELETE", rec |-> p.rec, col |-> NoColumn]} :
            /\ pending' = Enqueue(pending, again)
            /\ untracked' = untracked \ Keys({p} \cup again)
    BY <1>3, WriteEffect
  <2>1. PICK again \in SUBSET {[op |-> "DELETE", rec |-> p.rec, col |-> NoColumn]} :
          /\ pending' = Enqueue(pending, again)
          /\ untracked' = untracked \ Keys({p} \cup again)
    BY <2>0
  <2>2. turn[c] = {p} /\ p \in Pending /\ pending \in Queue
    BY DEF PlanInv, PlanOf, TypeInv, MemoryOK, TablesOK
  <2>3. again \in SUBSET Pending
    BY <2>2 DEF Pending
  <2>4. pending'.rows = pending.rows \cup again
    BY <2>1, <2>2, <2>3, EnqueueType
  <2>5. Key(p) \notin untracked' /\ \A q \in again : Key(q) \notin untracked'
    BY <2>1 DEF Keys
  <2>6. ASSUME NEW u \in untracked', u \in Keys(pending'.rows)
        PROVE  u \in Keys(plan'[c].rows)
    <3>1. u \in untracked /\ u \in Keys(pending.rows)
      BY <2>1, <2>4, <2>5, <2>6 DEF Keys
    <3>2. PICK q \in plan[c].rows : u = Key(q)
      BY <1>0, <3>1 DEF KeptInv, Kept, Keys
    <3> QED
      BY <1>0, <2>2, <2>5, <3>2 DEF Keys
  <2> QED
    BY <1>0, <2>1, <2>4, <2>6 DEF Kept
<1> QED
  BY <1>1, <1>2, <1>3

LEMMA KeptStep ==
  ASSUME OneConnection, TypeInv, PlanInv, KeptInv, [Next]_vars
  PROVE  KeptInv'
<1>0. EmptyQueue.rows = {} /\ pc \in [Connection -> Places]
  BY EmptyTypes DEF TypeInv, PlacesOK
<1>1. CASE UNCHANGED vars
  BY <1>1 DEF vars, fileVars, txnVars, loopVars, KeptInv, Kept
<1>2. CASE Crash
  BY <1>2, CrashEffect DEF KeptInv, Kept, Stamping
<1>3. ASSUME NEW c \in Connection, ConnectionStep(c)
      PROVE  KeptInv'
  <2>0. \A k \in Connection : k = c
    BY DEF OneConnection
  <2> SUFFICES Kept(c)'
    BY <2>0 DEF KeptInv
  <2>1. CASE FirstStatement(c) \/ NextStatement(c)
    BY <2>1, UserEffect DEF Kept, Stamping
  <2>2. CASE \/ CommitTransaction(c) \/ RollbackTransaction(c)
             \/ CommitMerge(c) \/ AbortMerge(c)
    <3>1. pc'[c] = "scan"
      BY <2>2, EndEffect
    <3> QED
      BY <3>1 DEF Kept, Stamping
  <2>3. CASE BeginMerge(c)
    BY <2>3, MergeEffect DEF Kept, Stamping
  <2>4. CASE Open(c) \/ ScanPending(c) \/ FillCache(c)
    BY <2>4, ReadEffect DEF Kept, Stamping
  <2>5. CASE ReadClock(c)
    BY <2>5, ReadEffect DEF PlanInv, PlanOf, Kept, Stamping
  <2>6. CASE CheckTombstone(c)
    <3>1. /\ pc[c] = "stamp" /\ pc'[c] \in {"enforce", "version"}
          /\ UNCHANGED <<pending, plan, untracked>>
      BY <2>6, ReadEffect
    <3> QED
      BY <3>1 DEF KeptInv, Kept, Stamping
  <2>7. CASE OverflowClock(c) \/ ClearPending(c) \/ Busy(c) \/ FailProcessing(c)
    BY <2>7, StopEffect DEF Kept, Stamping
  <2>8. CASE EntombRecord(c)
    <3>1. PICK p \in Firsts(plan[c]) :
            /\ pc[c] = "stamp" /\ pc'[c] = "sweep"
            /\ untracked' = {u \in untracked : u.rec # p.rec}
            /\ turn'[c] = {p} /\ UNCHANGED <<pending, plan>>
      BY <2>8, WriteEffect
    <3> QED
      BY <3>1 DEF KeptInv, Kept, Stamping
  <2>9. CASE SweepVersions(c) \/ EnforceTombstone(c) \/ StampColumn(c)
    BY <2>9, IterationKeeps
  <2>10. CASE AdvanceClock(c)
    <3>1. /\ pc[c] = "stamp" /\ pc'[c] = "clear" /\ plan[c].rows = {}
          /\ UNCHANGED <<pending, plan, untracked>>
      BY <2>10, WriteEffect
    <3> QED
      BY <3>1 DEF KeptInv, Kept, Stamping, Keys
  <2> QED
    BY <1>3, <2>1, <2>2, <2>3, <2>4, <2>5, <2>6, <2>7, <2>8, <2>9, <2>10
    DEF ConnectionStep, ProcessPendingChanges
<1> QED
  BY <1>1, <1>2, <1>3 DEF Next

LEMMA KeptInvariant ==
  ASSUME OneConnection
  PROVE  Spec => [](TypeInv /\ PlanInv /\ KeptInv)
<1>1. Init => KeptInv
  BY DEF Init, KeptInv, Kept, Stamping
<1>2. TypeInv /\ PlanInv /\ KeptInv /\ [Next]_vars => KeptInv'
  BY KeptStep
<1> QED
  BY <1>1, <1>2, PlanInvariant, PTL DEF Spec

LEMMA RemembersStep ==
  ASSUME OneConnection, TypeInv, PlanInv, KeptInv, [Next]_vars
  PROVE  Remembers \/ Drops \/ UNCHANGED vars
<1>1. CASE Crash
  <2>1. UNCHANGED <<pending, untracked>>
    BY <1>1, CrashEffect
  <2> QED
    BY <2>1, RememberedPending DEF Remembers, Remembered
<1>2. ASSUME NEW c \in Connection, ConnectionStep(c), ~ Drops
      PROVE  Remembers
  <2>0. \A k \in Connection : k = c
    BY DEF OneConnection
  <2>1. CASE pending.rows \subseteq pending'.rows /\ untracked' \subseteq untracked
    <3>1. \A u \in untracked : Remembered(u) => u \in Keys(pending.rows)
      BY RememberedPending
    <3>2. Keys(pending.rows) \subseteq Keys(pending'.rows)
      BY <2>1 DEF Keys
    <3> QED
      BY <2>1, <3>1, <3>2 DEF Remembers, Remembered
  <2>2. CASE FirstStatement(c) \/ NextStatement(c) \/ BeginMerge(c)
    <3>1. UNCHANGED <<pending, untracked>>
      BY <2>2, UserEffect, MergeEffect
    <3> QED
      BY <2>1, <3>1
  <2>3. CASE CommitTransaction(c)
    <3>1. /\ owner = c /\ pending' = viewPending /\ untracked' = untracked \cup wrote
      BY <2>3, EndEffect
    <3>2. /\ pending.rows \subseteq pending'.rows
          /\ wrote \subseteq Keys(pending'.rows)
      BY <3>1, ConnectionAssumption DEF PlanInv, Queued
    <3>3. Keys(pending.rows) \subseteq Keys(pending'.rows)
      BY <3>2 DEF Keys
    <3>4. \A u \in untracked' : (u \in untracked => Remembered(u)) =>
            u \in Keys(pending'.rows)
      BY <3>1, <3>2, <3>3, RememberedPending
    <3> QED
      BY <3>4 DEF Remembers, Remembered
  <2>4. CASE CommitMerge(c)
    <3>1. /\ owner = c /\ pending' = viewPending /\ untracked' = untracked
      BY <2>4, EndEffect
    <3>2. pending.rows \subseteq pending'.rows
      BY <3>1, ConnectionAssumption DEF PlanInv, Queued
    <3> QED
      BY <2>1, <3>1, <3>2
  <2>5. CASE RollbackTransaction(c) \/ AbortMerge(c) \/ OverflowClock(c)
    BY <1>2, <2>5 DEF Drops
  <2>6. CASE \/ Open(c) \/ ScanPending(c) \/ FillCache(c) \/ ReadClock(c)
             \/ CheckTombstone(c)
    <3>1. UNCHANGED <<pending, untracked>>
      BY <2>6, ReadEffect
    <3> QED
      BY <2>1, <3>1
  <2>7. CASE Busy(c)
    BY <2>1, <2>7, StopEffect
  <2>8. CASE ClearPending(c) \/ FailProcessing(c)
    <3>1. pc[c] = "clear" /\ untracked' = untracked
      BY <1>2, <2>8, StopEffect DEF Drops
    <3>2. \A u \in untracked : ~ Remembered(u)
      BY <3>1, RememberedPending DEF KeptInv, Kept
    <3> QED
      BY <3>1, <3>2 DEF Remembers
  <2>9. CASE EntombRecord(c) \/ AdvanceClock(c)
    <3>1. pending' = pending /\ untracked' \subseteq untracked
      BY <2>9, WriteEffect
    <3> QED
      BY <2>1, <3>1
  <2>10. CASE SweepVersions(c) \/ EnforceTombstone(c) \/ StampColumn(c)
    BY <2>1, <2>10, IterationKeeps
  <2> QED
    BY <1>2, <2>2, <2>3, <2>4, <2>5, <2>6, <2>7, <2>8, <2>9, <2>10
    DEF ConnectionStep, ProcessPendingChanges
<1> QED
  BY <1>1, <1>2 DEF Next

\* With one connection, nothing but the DELETE of a rollback, of a failure or
\* of the clock's overflow makes the database forget a committed change: not a
\* crash at any step, not a processing that stops half way and begins again,
\* not a merge in between.
THEOREM LossesCorrect ==
  ASSUME OneConnection
  PROVE  Spec => LossesAreDrops
<1>1. TypeInv /\ PlanInv /\ KeptInv /\ [Next]_vars => [Remembers \/ Drops]_vars
  BY RemembersStep
<1>2. Spec => [](TypeInv /\ PlanInv /\ KeptInv)
  BY KeptInvariant
<1> QED
  BY <1>1, <1>2, PTL DEF Spec, LossesAreDrops, Remembers

-----------------------------------------------------------------------------
(* As long as nothing fails, nothing is forgotten.                         *)

Sound == "failure" \notin Faults /\ "crash" \notin Faults

\* Between transactions the pending table is empty.
RememberInv ==
  /\ untracked \subseteq Keys(pending.rows)
  /\ \A c \in Connection :
       pc[c] \in {"closed", "idle", "writing", "merging"} => pending.rows = {}

\* With one connection the write lock is free for the processing.
LEMMA NeverBusy ==
  ASSUME OneConnection, TypeInv, PlanInv, NEW c \in Connection
  PROVE  ~ Busy(c)
<1>1. ASSUME Busy(c) PROVE FALSE
  <2>1. AtWrite(c) /\ owner \in Connection
    BY <1>1, StopEffect DEF PlanInv, Queued
  <2>2. pc[c] \notin {"writing", "merging"}
    BY <2>1 DEF AtWrite
  <2>3. owner = c
    BY <2>1 DEF OneConnection
  <2> QED
    BY <2>2, <2>3 DEF TypeInv, PlacesOK
<1> QED
  BY <1>1

LEMMA RememberStep ==
  ASSUME OneConnection, Sound, TypeInv, PlanInv, KeptInv, RememberInv,
         file.clock < ClockMax, [Next]_vars
  PROVE  RememberInv'
<1>0. EmptyQueue.rows = {} /\ file.clock \in Nat
  BY EmptyTypes DEF TypeInv, TablesOK, Database
<1>1. CASE UNCHANGED vars
  BY <1>1 DEF vars, fileVars, txnVars, loopVars, RememberInv
<1>2. ASSUME NEW c \in Connection, ConnectionStep(c)
      PROVE  RememberInv'
  <2>0. \A k \in Connection : k = c
    BY DEF OneConnection
  <2>1. CASE FirstStatement(c) \/ NextStatement(c)
    <3>1. UNCHANGED <<pending, untracked>> /\ pc[c] \in {"idle", "writing"}
      BY <2>1, UserEffect
    <3> QED
      BY <2>0, <3>1 DEF RememberInv
  <2>2. CASE CommitTransaction(c) \/ CommitMerge(c)
    <3>1. /\ owner = c /\ pending' = viewPending /\ pc'[c] = "scan"
          /\ untracked' \in {untracked, untracked \cup wrote}
      BY <2>2, EndEffect
    <3>2. pending.rows \subseteq pending'.rows /\ wrote \subseteq Keys(pending'.rows)
      BY <3>1, ConnectionAssumption DEF PlanInv, Queued
    <3>3. Keys(pending.rows) \subseteq Keys(pending'.rows)
      BY <3>2 DEF Keys
    <3> QED
      BY <2>0, <3>1, <3>2, <3>3 DEF RememberInv
  <2>3. CASE RollbackTransaction(c) \/ AbortMerge(c)
    <3>1. /\ pc[c] \in {"writing", "merging"} /\ pending' = EmptyQueue
          /\ untracked' = untracked /\ pc'[c] = "scan"
      BY <2>3, EndEffect
    <3>2. untracked = {}
      BY <3>1 DEF RememberInv, Keys
    <3> QED
      BY <2>0, <3>1, <3>2 DEF RememberInv
  <2>4. CASE BeginMerge(c)
    <3>1. UNCHANGED <<pending, untracked>> /\ pc[c] = "idle"
      BY <2>4, MergeEffect
    <3> QED
      BY <2>0, <3>1 DEF RememberInv
  <2>5. CASE Open(c) \/ ScanPending(c)
    <3>1. /\ UNCHANGED <<pending, untracked>>
          /\ pc[c] = "closed" \/ pending.rows = {} \/ pc'[c] = "cache"
      BY <2>5, ReadEffect
    <3> QED
      BY <2>0, <3>1 DEF RememberInv
  <2>6. CASE FillCache(c) \/ ReadClock(c) \/ CheckTombstone(c)
    <3>1. /\ UNCHANGED <<pending, untracked>>
          /\ pc'[c] \in {"clock", "stamp", "enforce", "version"}
      BY <2>6, ReadEffect
    <3> QED
      BY <2>0, <3>1 DEF RememberInv
  <2>7. CASE OverflowClock(c) \/ Busy(c) \/ FailProcessing(c)
    BY <1>0, <2>7, StopEffect, NeverBusy, ClockMaxAssumption DEF Sound
  <2>8. CASE ClearPending(c)
    <3>1. /\ pc[c] = "clear" /\ pending'.rows = {} /\ untracked' = untracked
      BY <1>0, <2>8, StopEffect
    <3>2. untracked = {}
      BY <3>1 DEF RememberInv, KeptInv, Kept
    <3> QED
      BY <2>0, <3>1, <3>2 DEF RememberInv
  <2>9. CASE EntombRecord(c) \/ AdvanceClock(c)
    <3>1. /\ pending' = pending /\ untracked' \subseteq untracked
          /\ pc'[c] \in {"sweep", "clear"}
      BY <2>9, WriteEffect
    <3> QED
      BY <2>0, <3>1 DEF RememberInv
  <2>10. CASE SweepVersions(c) \/ EnforceTombstone(c) \/ StampColumn(c)
    <3>1. /\ pending.rows \subseteq pending'.rows /\ untracked' \subseteq untracked
          /\ pc'[c] = "stamp"
      BY <2>10, IterationKeeps, WriteEffect
    <3>2. Keys(pending.rows) \subseteq Keys(pending'.rows)
      BY <3>1 DEF Keys
    <3> QED
      BY <2>0, <3>1, <3>2 DEF RememberInv
  <2> QED
    BY <1>2, <2>1, <2>2, <2>3, <2>4, <2>5, <2>6, <2>7, <2>8, <2>9, <2>10
    DEF ConnectionStep, ProcessPendingChanges
<1> QED
  BY <1>1, <1>2 DEF Next, Sound, Crash

LEMMA RememberInvariant ==
  ASSUME OneConnection, Sound
  PROVE  Spec /\ [](file.clock < ClockMax) =>
           [](TypeInv /\ PlanInv /\ KeptInv /\ RememberInv)
<1>1. Init => RememberInv
  BY EmptyTypes DEF Init, RememberInv, Keys
<1>2. /\ TypeInv /\ PlanInv /\ KeptInv /\ RememberInv /\ file.clock < ClockMax
      /\ [Next]_vars
      => RememberInv'
  BY RememberStep
<1> QED
  BY <1>1, <1>2, KeptInvariant, PTL DEF Spec

\* With one connection, and rollbacks the only thing that goes wrong, every
\* committed change is versioned or still in the pending table or the plan,
\* in every state, as long as the clock is not used up.
THEOREM ChangesCorrect ==
  ASSUME OneConnection, "failure" \notin Faults, "crash" \notin Faults
  PROVE  Spec /\ [](file.clock < ClockMax) => []ChangesRemembered
<1>1. RememberInv => ChangesRemembered
  BY DEF RememberInv, ChangesRemembered, Remembered
<1>2. Spec /\ [](file.clock < ClockMax) => []RememberInv
  BY RememberInvariant, PTL DEF Sound
<1> QED
  BY <1>1, <1>2, PTL
=============================================================================
