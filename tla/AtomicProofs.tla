---------------------------- MODULE AtomicProofs ----------------------------
(* A transaction and the many commits of its processing implement one step *)
(* of AtomicFile: the proof follows `Settled', the file as it will be when *)
(* the processing under way is done, from statement to statement.  What    *)
(* readers get of the file follows from the abstract steps alone.          *)
EXTENDS ProcessingProofs, ChangeExport

-----------------------------------------------------------------------------
(* The operators of AtomicFile are those of CrdtDatabase.                  *)

LEMMA AtomicOperators ==
  ASSUME NEW d, NEW x, NEW pend
  PROVE  /\ Atomic!EmptyDatabase = EmptyDatabase
         /\ Atomic!ProcessPending(d, Self, pend) = ProcessPending(d, Self, pend)
         /\ Atomic!Merged(d, x) = Merged(d, x)
         /\ Atomic!Entry = Entries
<1>1. Atomic!EmptyDatabase = EmptyDatabase
  BY DEF Atomic!EmptyDatabase, EmptyDatabase
<1>2. Atomic!ProcessPending(d, Self, pend) = ProcessPending(d, Self, pend)
  BY DEF Atomic!ProcessPending, Atomic!Written, Atomic!Buried, Atomic!Deleted,
         Atomic!NextVersion, Atomic!NextTombstone, Atomic!ColVersion, Atomic!CvOf,
         Atomic!SameKey, ProcessPending, Written, Buried, Deleted, NextVersion,
         NextTombstone, ColVersion, CvOf, SameKey
<1>3. Atomic!Merged(d, x) = Merged(d, x)
  BY DEF Atomic!Merged, Atomic!IsTombstoned, Atomic!Screens, Atomic!Rejected,
         Atomic!DeletionAccepted, Atomic!Accepts, Atomic!ColumnAccepted,
         Atomic!RemoteWins, Atomic!SameKey, Atomic!Later, Atomic!RowsBut,
         Atomic!WithTombstone, Atomic!WithVersion, Atomic!ApplyColumn,
         Merged, IsTombstoned, Screens, Rejected, DeletionAccepted, Accepts,
         ColumnAccepted, RemoteWins, SameKey, Later, RowsBut, WithTombstone,
         WithVersion, ApplyColumn
<1>4. Atomic!Entry = Entries
  BY DEF Atomic!Entry, Atomic!Pending, Entries, Pending
<1> QED
  BY <1>1, <1>2, <1>3, <1>4

\* A table with one row for each record id is one that AtomicFile can have.
LEMMA TablesAreContents ==
  ASSUME NEW rows \in SUBSET Row, \A a, b \in rows : a.rec = b.rec => a = b
  PROVE  rows \in Atomic!Contents
<1> DEFINE present == {row.rec : row \in rows}
           Of(r) == CHOOSE row \in rows : row.rec = r
           cells == [r \in present |-> Of(r).cells]
           made == {[rec |-> r, cells |-> cells[r]] : r \in present}
<1>1. \A r \in present : Of(r) \in rows /\ Of(r).rec = r
  OBVIOUS
<1>2. present \in SUBSET Record
  BY DEF Row
<1>3. \A row \in rows : row = [rec |-> row.rec, cells |-> row.cells]
                        /\ row.cells \in [Column -> Cell]
  BY DEF Row
<1> HIDE DEF Of, present
<1>4. cells \in [present -> [Column -> Cell]]
  BY <1>1, <1>3
<1>5. \A r \in present : cells[r] = Of(r).cells
  OBVIOUS
<1> HIDE DEF cells
<1>6. \A row \in rows : row.rec \in present /\ Of(row.rec) = row
  BY <1>1 DEF present
<1>7. \A r \in present : [rec |-> r, cells |-> cells[r]] = Of(r)
  BY <1>1, <1>3, <1>5
<1>8. made = rows
  <2>1. \A row \in rows : row \in made
    BY <1>6, <1>7
  <2>2. \A row \in made : row \in rows
    BY <1>1, <1>7
  <2> QED
    BY <2>1, <2>2
<1>9. made \in {{[rec |-> r, cells |-> f[r]] : r \in present} :
                  f \in [present -> [Column -> Atomic!Cell]]}
  BY <1>4 DEF Atomic!Cell, Cell
<1> HIDE DEF made
<1> QED
  BY <1>2, <1>8, <1>9 DEF Atomic!Contents

-----------------------------------------------------------------------------
(* What an open transaction has queued.                                    *)

\* A deletion that is queued for a row that is there again came before what
\* brought the row back.
Ordered(queue, rows) ==
  \A p \in queue.rows :
    p.op = "DELETE" /\ (\E row \in rows : row.rec = p.rec) =>
      \E q \in queue.rows : /\ q.op # "DELETE" /\ q.rec = p.rec
                            /\ <<p, q>> \in queue.before

\* The queue tells every row that went and every column that came or changed.
QueueTells(pend, before, after) ==
  /\ \A row \in before : (~ \E new \in after : new.rec = row.rec) =>
       \E p \in pend : p.op = "DELETE" /\ p.rec = row.rec
  /\ \A row \in after, k \in Column :
       (~ \E old \in before : old.rec = row.rec /\ old.cells[k] = row.cells[k])
         => \E p \in pend : p.rec = row.rec /\ p.col = k

OrderOf(c) ==
  /\ pc[c] = "writing" => /\ viewPending.rows # {}
                          /\ Ordered(viewPending, view.rows)
                          /\ QueueTells(viewPending.rows, file.rows, view.rows)
  /\ pc[c] = "scan" => Ordered(pending, file.rows)
  /\ Ordered(plan[c], file.rows)

OrderInv == \A c \in Connection : OrderOf(c)

\* INSERT and UPDATE put one row and tell of its new cells, DELETE takes one.
Puts(tables, rows, entries, r, cells, op, cols) ==
  /\ op # "DELETE"
  /\ rows = RowsBut(tables.rows, r) \cup {[rec |-> r, cells |-> cells]}
  /\ entries = [op : {op}, rec : {r}, col : cols]
  /\ \A k \in Column : k \in cols \/
       \E old \in tables.rows : old.rec = r /\ old.cells[k] = cells[k]

Takes(tables, rows, entries, row) ==
  /\ rows = tables.rows \ {row}
  /\ entries = [op : {"DELETE"}, rec : {row.rec}, col : {NoColumn}]

LEMMA FiresShape ==
  ASSUME NEW tables, NEW rows, NEW entries, Fires(tables, rows, entries)
  PROVE  \/ \E r, cells, op, cols : Puts(tables, rows, entries, r, cells, op, cols)
         \/ \E row \in tables.rows : Takes(tables, rows, entries, row)
<1>1. ASSUME NEW r \in Record, NEW cells \in [Column -> Cell],
             rows = RowsBut(tables.rows, r) \cup {[rec |-> r, cells |-> cells]},
             entries = [op : {"INSERT"}, rec : {r}, col : Column]
      PROVE  Puts(tables, rows, entries, r, cells, "INSERT", Column)
  BY <1>1 DEF Puts
<1>2. ASSUME NEW row \in tables.rows, NEW cells \in [Column -> Cell],
             rows = RowsBut(tables.rows, row.rec)
                      \cup {[rec |-> row.rec, cells |-> cells]},
             entries = [op : {"UPDATE"}, rec : {row.rec},
                        col : {k \in Column : cells[k] # row.cells[k]}]
      PROVE  Puts(tables, rows, entries, row.rec, cells, "UPDATE",
                  {k \in Column : cells[k] # row.cells[k]})
  BY <1>2 DEF Puts
<1> QED
  BY <1>1, <1>2, Zenon DEF Fires, Takes

\* A statement touches one record, and its entries are of one kind.
Touches(tables, rows, entries, r) ==
  /\ \A e \in entries : e.rec = r
  /\ \A row : row.rec # r => (row \in rows <=> row \in tables.rows)
  /\ \/ \A e \in entries : e.op # "DELETE"
     \/ (\A e \in entries : e.op = "DELETE") /\ \A row \in rows : row.rec # r

\* Every cell of the rows that it leaves is old or told.
Covers(tables, rows, entries) ==
  \A row \in rows, k \in Column :
    \/ \E old \in tables.rows : old.rec = row.rec /\ old.cells[k] = row.cells[k]
    \/ \E p \in entries : p.rec = row.rec /\ p.col = k

LEMMA FiresOne ==
  ASSUME NEW tables, NEW rows, NEW entries, KeysUnique(tables),
         Fires(tables, rows, entries)
  PROVE  /\ \E r : Touches(tables, rows, entries, r)
         /\ Covers(tables, rows, entries)
<1>1. ASSUME NEW r, NEW cells, NEW op, NEW cols,
             Puts(tables, rows, entries, r, cells, op, cols)
      PROVE  /\ Touches(tables, rows, entries, r)
             /\ Covers(tables, rows, entries)
  <2>1. /\ \A e \in entries : e.op = op /\ e.rec = r
        /\ \A k \in cols : \E e \in entries : e.col = k
    <3> DEFINE told == [op : {op}, rec : {r}, col : cols]
    <3>1. \A e \in told : e.op = op /\ e.rec = r
      OBVIOUS
    <3>2. ASSUME NEW k \in cols PROVE \E e \in told : e.col = k
      <4>1. [op |-> op, rec |-> r, col |-> k] \in told
        OBVIOUS
      <4> QED
        BY <4>1
    <3>3. entries = told
      BY <1>1 DEF Puts
    <3> QED
      BY <3>1, <3>2, <3>3
  <2> DEFINE new == [rec |-> r, cells |-> cells]
  <2>2. new.rec = r /\ new.cells = cells /\ rows = RowsBut(tables.rows, r) \cup {new}
    BY <1>1 DEF Puts
  <2> HIDE DEF new
  <2>3. \A row : row.rec # r => (row \in rows <=> row \in tables.rows)
    BY <2>2 DEF RowsBut
  <2>4. \A e \in entries : e.op # "DELETE"
    BY <1>1, <2>1 DEF Puts
  <2>5. Touches(tables, rows, entries, r)
    BY <2>1, <2>3, <2>4 DEF Touches
  <2>6. \A row \in rows : row \in tables.rows \/ row = new
    BY <2>2 DEF RowsBut
  <2>7. \A k \in Column :
          \/ \E old \in tables.rows : old.rec = new.rec /\ old.cells[k] = new.cells[k]
          \/ \E p \in entries : p.rec = new.rec /\ p.col = k
    BY <1>1, <2>1, <2>2 DEF Puts
  <2>8. Covers(tables, rows, entries)
    BY <2>6, <2>7 DEF Covers
  <2> QED
    BY <2>5, <2>8
<1>2. ASSUME NEW row \in tables.rows, Takes(tables, rows, entries, row)
      PROVE  /\ Touches(tables, rows, entries, row.rec)
             /\ Covers(tables, rows, entries)
  <2>1. \A e \in entries : e.op = "DELETE" /\ e.rec = row.rec
    BY <1>2, EntriesOf DEF Takes
  <2>2. \A other \in rows : other.rec # row.rec
    BY <1>2 DEF KeysUnique, Takes
  <2>3. \A other : other.rec # row.rec => (other \in rows <=> other \in tables.rows)
    BY <1>2 DEF Takes
  <2>4. Covers(tables, rows, entries)
    BY <1>2 DEF Takes, Covers
  <2> QED
    BY <2>1, <2>2, <2>3, <2>4 DEF Touches
<1> QED
  BY <1>1, <1>2, FiresShape, Zenon

\* What is queued behind the rest is ordered, and what stays keeps its order.
LEMMA EnqueueOrdered ==
  ASSUME NEW queue \in Queue, NEW tables, NEW rows, NEW entries, entries # {},
         NEW r, Touches(tables, rows, entries, r), Ordered(queue, tables.rows)
  PROVE  Ordered(Enqueue(queue, entries), rows)
<1> DEFINE kept == queue.rows \ entries
           before == (queue.before \cap (kept \X kept)) \cup (kept \X entries)
           new == Enqueue(queue, entries)
<1>1. new.rows = kept \cup entries /\ new.before = before
  BY DEF Enqueue, Without
<1>2. ASSUME NEW p \in kept, p.op = "DELETE", NEW row \in rows, row.rec = p.rec
      PROVE  \E q \in kept \cup entries : /\ q.op # "DELETE" /\ q.rec = p.rec
                                          /\ <<p, q>> \in before
  <2>1. CASE p.rec = r
    <3>1. \A e \in entries : e.op # "DELETE" /\ e.rec = p.rec /\ <<p, e>> \in before
      BY <1>2, <2>1 DEF Touches
    <3> QED
      BY <3>1
  <2>2. CASE p.rec # r
    <3>1. PICK q \in queue.rows :
            q.op # "DELETE" /\ q.rec = p.rec /\ <<p, q>> \in queue.before
      BY <1>2, <2>2 DEF Ordered, Touches
    <3>2. q \in kept
      BY <2>2, <3>1 DEF Touches
    <3> QED
      BY <3>1, <3>2
  <2> QED
    BY <2>1, <2>2
<1>3. ASSUME NEW p \in entries, p.op = "DELETE"
      PROVE  \A row \in rows : row.rec # p.rec
  BY <1>3 DEF Touches
<1> HIDE DEF kept, before, new
<1>4. Ordered(new, rows)
  BY <1>1, <1>2, <1>3 DEF Ordered
<1> QED
  BY <1>4 DEF new

LEMMA StatementOrders ==
  ASSUME Column # {}, TypeInv, RememberInv, MatchInv, OrderInv, NEW c \in Connection,
         FirstStatement(c) \/ NextStatement(c)
  PROVE  /\ viewPending'.rows # {}
         /\ Ordered(viewPending', view'.rows)
         /\ QueueTells(viewPending'.rows, file.rows, view'.rows)
<1>1. PICK tables, queue, rows, entries :
        /\ \/ pc[c] = "idle" /\ tables = file /\ queue = pending
           \/ pc[c] = "writing" /\ tables = view /\ queue = viewPending
        /\ Fires(tables, rows, entries)
        /\ view' = [tables EXCEPT !.rows = rows]
        /\ viewPending' = Enqueue(queue, entries)
  BY UserEffect
<1>2. tables \in Database /\ KeysUnique(tables) /\ queue \in Queue
  BY <1>1 DEF TypeInv, TablesOK
<1>3. Ordered(queue, tables.rows) /\ QueueTells(queue.rows, file.rows, tables.rows)
  <2>1. CASE pc[c] = "idle" /\ tables = file /\ queue = pending
    <3>1. queue.rows = {}
      BY <2>1 DEF RememberInv
    <3>2. QueueTells({}, file.rows, file.rows)
      BY DEF QueueTells
    <3>3. QueueTells(queue.rows, file.rows, tables.rows)
      BY <2>1, <3>1, <3>2
    <3>4. Ordered(queue, tables.rows)
      BY <3>1 DEF Ordered
    <3> QED
      BY <3>3, <3>4
  <2>2. CASE pc[c] = "writing" /\ tables = view /\ queue = viewPending
    BY <2>2 DEF OrderInv, OrderOf
  <2> QED
    BY <1>1, <2>1, <2>2
<1>4. entries \in SUBSET Pending /\ entries # {}
  BY <1>1, <1>2, FiresTypes, FiresTell
<1>5. viewPending'.rows = queue.rows \cup entries
  BY <1>1, <1>2, <1>4, EnqueueType
<1>6. view'.rows = rows
  BY <1>1, <1>2, FileFields
<1>7. Ordered(viewPending', rows)
  <2>1. PICK r : Touches(tables, rows, entries, r)
    BY <1>1, <1>2, FiresOne
  <2>2. Ordered(Enqueue(queue, entries), rows)
    BY <1>2, <1>3, <1>4, <2>1, EnqueueOrdered
  <2> QED
    BY <1>1, <2>2
<1>8. ASSUME NEW row \in file.rows, ~ \E new \in rows : new.rec = row.rec
      PROVE  \E p \in viewPending'.rows : p.op = "DELETE" /\ p.rec = row.rec
  <2>1. HasRow(file, row.rec) /\ ~ HasRow(view', row.rec)
    BY <1>6, <1>8 DEF HasRow
  <2> QED
    BY <2>1, StatementTells DEF Asks
<1>9. ASSUME NEW row \in rows, NEW k \in Column,
             ~ \E old \in file.rows : old.rec = row.rec /\ old.cells[k] = row.cells[k]
      PROVE  \E p \in viewPending'.rows : p.rec = row.rec /\ p.col = k
  <2>1. \/ \E old \in tables.rows : old.rec = row.rec /\ old.cells[k] = row.cells[k]
        \/ \E p \in entries : p.rec = row.rec /\ p.col = k
    BY <1>1, <1>2, FiresOne DEF Covers
  <2>2. CASE \E old \in tables.rows : old.rec = row.rec /\ old.cells[k] = row.cells[k]
    <3>1. PICK old \in tables.rows : old.rec = row.rec /\ old.cells[k] = row.cells[k]
      BY <2>2
    <3>2. ~ \E older \in file.rows :
              older.rec = old.rec /\ older.cells[k] = old.cells[k]
      BY <1>9, <3>1
    <3>3. \E p \in queue.rows : p.rec = old.rec /\ p.col = k
      BY <1>3, <3>2 DEF QueueTells
    <3> QED
      BY <1>5, <3>1, <3>3
  <2> QED
    BY <1>5, <2>1, <2>2
<1>10. QueueTells(viewPending'.rows, file.rows, view'.rows)
  BY <1>6, <1>8, <1>9 DEF QueueTells
<1> QED
  BY <1>4, <1>5, <1>6, <1>7, <1>10

\* An iteration takes a first row, so that what is behind it stays behind.
LEMMA IterationOrders ==
  ASSUME TypeInv, PlanInv, LoopInv, OrderInv, NEW c \in Connection,
         SweepVersions(c) \/ EnforceTombstone(c) \/ StampColumn(c)
  PROVE  Ordered(plan'[c], file'.rows)
<1>1. PICK p \in turn[c] :
        /\ turn[c] = {p} /\ pc[c] \in {"sweep", "enforce", "version"}
        /\ file'.rows = file.rows
             \/ file'.rows = RowsBut(file.rows, p.rec)
  BY LoopTables
<1>2. plan'[c] = Without(plan[c], {p})
  BY <1>1, WriteEffect
<1>3. p \in Firsts(plan[c]) /\ Ordered(plan[c], file.rows)
  BY <1>1 DEF LoopInv, LoopOf, OrderInv, OrderOf
<1>4. /\ plan'[c].rows = plan[c].rows \ {p}
      /\ plan'[c].before = plan[c].before
                             \cap ((plan[c].rows \ {p}) \X (plan[c].rows \ {p}))
  BY <1>2 DEF Without
<1>5. ASSUME NEW q \in plan'[c].rows, q.op = "DELETE",
             \E row \in file'.rows : row.rec = q.rec
      PROVE  \E k \in plan'[c].rows : /\ k.op # "DELETE" /\ k.rec = q.rec
                                      /\ <<q, k>> \in plan'[c].before
  <2>1. \E row \in file.rows : row.rec = q.rec
    BY <1>1, <1>5 DEF RowsBut
  <2>2. PICK k \in plan[c].rows :
          k.op # "DELETE" /\ k.rec = q.rec /\ <<q, k>> \in plan[c].before
    BY <1>3, <1>4, <1>5, <2>1 DEF Ordered
  <2>3. k # p
    BY <1>3, <1>4, <2>2 DEF Firsts
  <2> QED
    BY <1>4, <2>2, <2>3
<1> QED
  BY <1>5 DEF Ordered

LEMMA OrderStep ==
  ASSUME OneConnection, Sound, Column # {}, TypeInv, PlanInv, LoopInv, MatchInv,
         RememberInv, OrderInv, file.clock < ClockMax, [Next]_vars
  PROVE  OrderInv'
<1>0. /\ EmptyQueue.rows = {} /\ pc \in [Connection -> Places]
      /\ \A rows : Ordered(EmptyQueue, rows)
  BY EmptyTypes DEF TypeInv, PlacesOK, Ordered
<1>1. CASE UNCHANGED vars
  BY <1>1 DEF vars, fileVars, txnVars, loopVars, OrderInv, OrderOf
<1>2. ASSUME NEW c \in Connection, ConnectionStep(c)
      PROVE  OrderInv'
  <2>0. \A k \in Connection : k = c
    BY DEF OneConnection
  <2> SUFFICES OrderOf(c)'
    BY <2>0 DEF OrderInv
  <2>1. pc[c] \in Unplanned => \A rows : Ordered(plan[c], rows)
    BY DEF PlanInv, PlanOf, Ordered
  <2>2. CASE FirstStatement(c) \/ NextStatement(c)
    <3>1. pc'[c] = "writing" /\ UNCHANGED <<file, plan>>
      BY <2>2, UserEffect
    <3>2. /\ viewPending'.rows # {}
          /\ Ordered(viewPending', view'.rows)
          /\ QueueTells(viewPending'.rows, file.rows, view'.rows)
      BY <2>2, StatementOrders
    <3> QED
      BY <3>1, <3>2 DEF OrderInv, OrderOf
  <2>3. CASE CommitTransaction(c)
    <3>1. /\ pc[c] = "writing" /\ pc'[c] = "scan" /\ plan' = plan
          /\ file' = view /\ pending' = viewPending
      BY <2>3, EndEffect
    <3> QED
      BY <2>1, <3>1 DEF OrderInv, OrderOf, Unplanned
  <2>4. CASE RollbackTransaction(c) \/ AbortMerge(c)
    <3>1. pc'[c] = "scan" /\ UNCHANGED <<file, plan>> /\ pending' = EmptyQueue
      BY <2>4, EndEffect
    <3> QED
      BY <1>0, <3>1 DEF OrderInv, OrderOf
  <2>5. CASE CommitMerge(c)
    <3>1. /\ pc[c] = "merging" /\ pc'[c] = "scan" /\ plan' = plan
          /\ pending' = viewPending
      BY <2>5, EndEffect
    <3>2. pending'.rows = {}
      BY <3>1 DEF PlanInv, Queued, RememberInv
    <3>3. \A rows : Ordered(pending', rows)
      BY <3>2 DEF Ordered
    <3> QED
      BY <2>1, <3>1, <3>3 DEF OrderOf, Unplanned
  <2>6. CASE Open(c) \/ BeginMerge(c) \/ FillCache(c) \/ ReadClock(c)
    <3>1. /\ pc'[c] \in {"idle", "merging", "clock", "stamp"}
          /\ UNCHANGED <<file, plan>>
      BY <2>6, ReadEffect, MergeEffect
    <3> QED
      BY <3>1 DEF OrderInv, OrderOf
  <2>7. CASE ScanPending(c)
    <3>1. /\ pc[c] = "scan" /\ plan'[c] = pending /\ UNCHANGED <<file, pending>>
          /\ pc'[c] \in {"idle", "cache"}
      BY <2>7, ReadEffect
    <3> QED
      BY <3>1 DEF OrderInv, OrderOf
  <2>8. CASE CheckTombstone(c)
    <3>1. pc'[c] \in {"enforce", "version"} /\ UNCHANGED <<file, plan>>
      BY <2>8, ReadEffect
    <3> QED
      BY <3>1 DEF OrderInv, OrderOf
  <2>9. CASE OverflowClock(c) \/ ClearPending(c) \/ Busy(c) \/ FailProcessing(c)
    <3>1. pc'[c] = "idle" /\ plan'[c] = EmptyQueue
      BY <2>9, StopEffect
    <3> QED
      BY <1>0, <3>1 DEF OrderOf
  <2>10. CASE EntombRecord(c)
    <3>1. pc'[c] = "sweep" /\ file'.rows = file.rows /\ plan' = plan
      BY <2>10, LoopTables, WriteEffect
    <3> QED
      BY <3>1 DEF OrderInv, OrderOf
  <2>11. CASE SweepVersions(c) \/ EnforceTombstone(c) \/ StampColumn(c)
    <3>1. pc'[c] = "stamp"
      BY <2>11, WriteEffect
    <3> QED
      BY <2>11, <3>1, IterationOrders DEF OrderOf
  <2>12. CASE AdvanceClock(c)
    <3>1. pc'[c] = "clear" /\ plan[c].rows = {} /\ plan' = plan
      BY <2>12, WriteEffect
    <3> QED
      BY <3>1 DEF OrderOf, Ordered
  <2> QED
    BY <1>2, <2>2, <2>3, <2>4, <2>5, <2>6, <2>7, <2>8, <2>9, <2>10, <2>11, <2>12
    DEF ConnectionStep, ProcessPendingChanges
<1> QED
  BY <1>1, <1>2 DEF Next, Crash, Sound

AtomicInv == /\ TypeInv /\ PlanInv /\ KeptInv /\ LoopInv /\ MatchInv /\ RememberInv
             /\ OrderInv

LEMMA AtomicInvariant ==
  ASSUME OneConnection, Sound, Column # {}, Texts(Incoming)
  PROVE  Spec /\ [](file.clock < ClockMax) => []AtomicInv
<1>1. Init => MatchInv /\ OrderInv
  BY EmptyTypes
  DEF Init, MatchInv, MatchOf, Gone, Stamping, OrderInv, OrderOf, Ordered
<1>2. TypeInv /\ PlanInv /\ LoopInv /\ MatchInv /\ RememberInv /\ OrderInv
        /\ file.clock < ClockMax /\ [Next]_vars
      => MatchInv' /\ OrderInv'
  BY MatchStep, OrderStep
<1>3. Spec => [](TypeInv /\ PlanInv /\ LoopInv)
  BY LoopInvariant
<1>4. Spec /\ [](file.clock < ClockMax) =>
        [](TypeInv /\ PlanInv /\ KeptInv /\ RememberInv)
  BY RememberInvariant
<1> QED
  BY <1>1, <1>2, <1>3, <1>4, PTL DEF Spec, AtomicInv

-----------------------------------------------------------------------------
(* The settled file.                                                       *)

\* The versions as the loop has not yet replaced them: for the keys that are
\* still planned those of the cache, for the others those of the table.
KnownOf(versions, old, rows) ==
  {v \in versions : Key(v) \notin Keys(rows)}
    \cup {v \in old : /\ Key(v) \in Keys(rows)
                     /\ \E u \in versions : SameKey(u, v)}

Known(c) == KnownOf(file.versions, cache[c], plan[c].rows)

Unfinished(c) ==
  [rows |-> file.rows, versions |-> Known(c), tombs |-> file.tombs,
   clock |-> stamp[c] - 1]

Settling(c) ==
  /\ pc[c] \in {"closed", "idle", "writing", "merging", "clear"} => Settled = file
  /\ pc[c] \in {"scan", "cache", "clock"} =>
       Settled = IF pending.rows = {} THEN file
                                      ELSE ProcessPending(file, Self, pending.rows)
  /\ pc[c] \in Stamping =>
       Settled = ProcessPending(Unfinished(c), Self, plan[c].rows)

LEMMA KeysPlanned ==
  ASSUME NEW rows, NEW v
  PROVE  Key(v) \in Keys(rows) <=> \E p \in rows : SameKey(v, p)
<1>1. \A p : Key(p) = Key(v) <=> SameKey(v, p)
  BY DEF Key, SameKey
<1> QED
  BY <1>1 DEF Keys

LEMMA SettlingNow ==
  ASSUME OneConnection, TypeInv, NEW c \in Connection
  PROVE  Settling(c)
<1>1. Processing = IF pc[c] \in {"closed", "idle", "writing", "merging"} THEN {} ELSE {c}
  BY DEF OneConnection, Processing
<1>2. (CHOOSE k \in {c} : TRUE) = c
  OBVIOUS
<1>3. Before(c) = Unfinished(c)
  <2>1. Before(c) = [file EXCEPT !.clock = stamp[c] - 1, !.versions = Known(c)]
    BY DEF Before, Known, KnownOf
  <2>2. file \in Database
    BY DEF TypeInv, TablesOK
  <2> DEFINE low == stamp[c] - 1
             known == Known(c)
  <2>3. Before(c) = [file EXCEPT !.clock = low, !.versions = known]
    BY <2>1
  <2>4. Unfinished(c) = [rows |-> file.rows, versions |-> known, tombs |-> file.tombs,
                         clock |-> low]
    BY DEF Unfinished
  <2> HIDE DEF low, known
  <2>5. Before(c) = Unfinished(c)
    BY <2>2, <2>3, <2>4 DEF Database
  <2> QED
    BY <2>5
<1>4. CASE pc[c] \in {"closed", "idle", "writing", "merging"}
  BY <1>1, <1>4 DEF Settling, Settled, Stamping
<1>5. CASE pc[c] \notin {"closed", "idle", "writing", "merging"}
  <2>1. Settled =
          CASE pc[c] \in {"scan", "cache", "clock"} /\ pending.rows # {} ->
                 ProcessPending(file, Self, pending.rows)
            [] pc[c] \in {"stamp", "sweep", "enforce", "version"} ->
                 ProcessPending(Unfinished(c), Self, plan[c].rows)
            [] OTHER -> file
    BY <1>1, <1>2, <1>3, <1>5 DEF Settled
  <2> QED
    BY <1>5, <2>1 DEF Settling, Stamping
<1> QED
  BY <1>4, <1>5

LEMMA SettlingNext ==
  ASSUME OneConnection, NEW c \in Connection
  PROVE  TypeInv' => Settling(c)'
<1>1. TypeInv => Settling(c)
  BY SettlingNow
<1> QED
  BY <1>1, PTL

-----------------------------------------------------------------------------
(* What the rest of the loop makes of the tables.                          *)

RowsLeft(rows, buried, pend) ==
  {row \in rows : ~ \E p \in pend : p.rec = row.rec /\ p.rec \in buried}

Final(versions, s, p) ==
  [rec |-> p.rec, col |-> p.col, cv |-> ColVersion(versions, p) + 1,
   dv |-> s, node |-> Self, local |-> s]

VersionsLeft(versions, written, deleted, s) ==
  {v \in versions : v.rec \notin deleted /\ \A p \in written : ~ SameKey(v, p)}
    \cup {Final(versions, s, p) : p \in written}

Grave(r, s) == [rec |-> r, dv |-> s, node |-> Self, local |-> s]

TombsLeft(tombs, deleted, s) ==
  {t \in tombs : t.rec \notin deleted} \cup {Grave(r, s) : r \in deleted}

Finished(c) ==
  LET pend == plan[c].rows
  IN  [rows     |-> RowsLeft(file.rows, Buried(file, pend), pend),
       versions |-> VersionsLeft(Known(c), Written(file, pend), Deleted(pend), stamp[c]),
       tombs    |-> TombsLeft(file.tombs, Deleted(pend), stamp[c]),
       clock    |-> stamp[c]]

LEMMA ProcessLeaves ==
  ASSUME NEW rows, NEW versions, NEW tombs, NEW s \in Nat, NEW pend, NEW d,
         d = [rows |-> rows, versions |-> versions, tombs |-> tombs, clock |-> s - 1],
         NEW other, other.tombs = tombs
  PROVE  ProcessPending(d, Self, pend) =
           [rows     |-> RowsLeft(rows, Buried(other, pend), pend),
            versions |-> VersionsLeft(versions, Written(other, pend), Deleted(pend), s),
            tombs    |-> TombsLeft(tombs, Deleted(pend), s),
            clock    |-> s]
<1>1. d.rows = rows /\ d.versions = versions /\ d.tombs = tombs /\ d.clock + 1 = s
  OBVIOUS
<1>2. Buried(d, pend) = Buried(other, pend)
  BY <1>1 DEF Buried
<1>3. Written(d, pend) = Written(other, pend)
  BY <1>2 DEF Written
<1>4. \A p : NextVersion(d, Self, p) = Final(versions, s, p)
  BY <1>1 DEF NextVersion, Final
<1>5. \A r : NextTombstone(d, Self, r) = Grave(r, s)
  BY <1>1 DEF NextTombstone, Grave
<1>6. {NextVersion(d, Self, p) : p \in Written(d, pend)} =
        {Final(versions, s, p) : p \in Written(other, pend)}
  BY <1>3, <1>4
<1>7. {NextTombstone(d, Self, r) : r \in Deleted(pend)} =
        {Grave(r, s) : r \in Deleted(pend)}
  BY <1>5
<1> QED
  BY <1>1, <1>2, <1>3, <1>6, <1>7
  DEF ProcessPending, RowsLeft, VersionsLeft, TombsLeft

LEMMA UnfinishedLeaves ==
  ASSUME NEW c \in Connection, stamp[c] \in Nat
  PROVE  ProcessPending(Unfinished(c), Self, plan[c].rows) = Finished(c)
BY ProcessLeaves DEF Unfinished, Finished

\* In the loop the settled file is what is left, now and after the step.
SettledInLoop(c) == pc[c] \in Stamping => Settled = Finished(c)

LEMMA SettledNow ==
  ASSUME OneConnection, TypeInv, NEW c \in Connection
  PROVE  SettledInLoop(c)
<1>1. stamp[c] \in Nat
  BY DEF TypeInv, MemoryOK
<1> QED
  BY <1>1, SettlingNow, UnfinishedLeaves DEF Settling, SettledInLoop

LEMMA SettledNext ==
  ASSUME OneConnection, NEW c \in Connection
  PROVE  TypeInv' => SettledInLoop(c)'
<1>1. TypeInv => SettledInLoop(c)
  BY SettledNow
<1> QED
  BY <1>1, PTL

\* What the versions of records that are deleted are, does not matter.
LEMMA SameVersionsLeft ==
  ASSUME NEW versions, NEW others, NEW written, NEW deleted, NEW fewer, NEW s,
         \A v : (v \in versions /\ v.rec \notin deleted)
                  <=> (v \in others /\ v.rec \notin fewer),
         \A p \in written : p.rec \notin deleted /\ p.rec \notin fewer
  PROVE  VersionsLeft(versions, written, deleted, s)
           = VersionsLeft(others, written, fewer, s)
<1>1. ASSUME NEW p \in written
      PROVE  Final(versions, s, p) = Final(others, s, p)
  <2>1. {v \in versions : SameKey(v, p)} = {v \in others : SameKey(v, p)}
    BY DEF SameKey
  <2> QED
    BY <2>1 DEF Final, ColVersion
<1>2. {Final(versions, s, p) : p \in written} = {Final(others, s, p) : p \in written}
  BY <1>1
<1>3. {v \in versions : v.rec \notin deleted /\ \A p \in written : ~ SameKey(v, p)}
        = {v \in others : v.rec \notin fewer /\ \A p \in written : ~ SameKey(v, p)}
  OBVIOUS
<1> QED
  BY <1>2, <1>3 DEF VersionsLeft

LEMMA KnownIs ==
  ASSUME NEW versions, NEW old, NEW rows, NEW v
  PROVE  v \in KnownOf(versions, old, rows) <=>
           \/ v \in versions /\ ~ \E q \in rows : SameKey(v, q)
           \/ /\ v \in old /\ \E q \in rows : SameKey(v, q)
              /\ \E u \in versions : SameKey(u, v)
BY KeysPlanned DEF KnownOf

LEMMA DeletedIs ==
  ASSUME NEW pend, NEW r
  PROVE  r \in Deleted(pend) <=> \E q \in pend : q.op = "DELETE" /\ q.rec = r
BY DEF Deleted

LEMMA BuriedIs ==
  ASSUME NEW d, NEW pend, NEW r
  PROVE  r \in Buried(d, pend) <=> r \in Deleted(pend) \/ HasTombstone(d, r)
BY DEF Buried, HasTombstone

-----------------------------------------------------------------------------
(* The steps of the loop leave the settled file as it is.                  *)

LEMMA EntombSettles ==
  ASSUME TypeInv, PlanInv, NEW c \in Connection, EntombRecord(c)
  PROVE  Finished(c)' = Finished(c)
<1>1. PICK p \in Firsts(plan[c]) :
        /\ p.op = "DELETE"
        /\ file'.rows = file.rows /\ file'.versions = file.versions
        /\ file'.tombs = {t \in file.tombs : t.rec # p.rec} \cup {Burial(c, p)}
  BY LoopTables
<1>2. UNCHANGED <<plan, cache, stamp>>
  BY WriteEffect
<1> DEFINE pend == plan[c].rows
<1>3. p.rec \in Deleted(pend)
  BY <1>1, DeletedIs DEF Firsts
<1>4. Burial(c, p).rec = p.rec
  BY DEF Burial
<1>5. Buried(file', pend) = Buried(file, pend)
  BY <1>1, <1>3, <1>4 DEF Buried
<1>6. Written(file', pend) = Written(file, pend)
  BY <1>5 DEF Written
<1>7. TombsLeft(file'.tombs, Deleted(pend), stamp[c])
        = TombsLeft(file.tombs, Deleted(pend), stamp[c])
  BY <1>1, <1>3, <1>4 DEF TombsLeft
<1>8. Known(c)' = Known(c)
  BY <1>1, <1>2 DEF Known
<1> QED
  BY <1>1, <1>2, <1>5, <1>6, <1>7, <1>8 DEF Finished

LEMMA SweepSettles ==
  ASSUME TypeInv, PlanInv, LoopInv, OrderInv, NEW c \in Connection, SweepVersions(c)
  PROVE  Finished(c)' = Finished(c)
<1>1. PICK p \in turn[c] :
        /\ pc[c] = "sweep" /\ turn[c] = {p}
        /\ file'.rows = file.rows /\ file'.tombs = file.tombs
        /\ file'.versions = {v \in file.versions : v.rec # p.rec}
  BY LoopTables
<1>2. plan'[c] = Without(plan[c], {p}) /\ UNCHANGED <<cache, stamp>>
  BY <1>1, WriteEffect
<1> DEFINE pend == plan[c].rows
           s == stamp[c]
<1>3. plan'[c].rows = pend \ {p}
  BY <1>2 DEF Without
<1>4. /\ p \in pend /\ p.op = "DELETE" /\ Burial(c, p) \in file.tombs
      /\ p \in Firsts(plan[c]) /\ Ordered(plan[c], file.rows)
  BY <1>1 DEF LoopInv, LoopOf, PlanInv, PlanOf, OrderInv, OrderOf
<1>5. /\ \A q \in pend : q.op = "DELETE" /\ q.rec = p.rec => q = p
      /\ \A t \in file.tombs : t.rec = p.rec => t = Burial(c, p)
  <2>1. pend \subseteq Entries /\ p \in Entries
    BY <1>4 DEF TypeInv, MemoryOK
  <2>2. \A q \in Entries : q.op = "DELETE" => q = [op |-> "DELETE", rec |-> q.rec,
                                                   col |-> NoColumn]
    BY DEF Entries, Pending
  <2>3. \A q \in pend : q.op = "DELETE" /\ q.rec = p.rec => q = p
    BY <1>4, <2>1, <2>2
  <2>4. Burial(c, p).rec = p.rec
    BY DEF Burial
  <2>5. \A a, b \in file.tombs : a.rec = b.rec => a = b
    BY DEF TypeInv, TablesOK, KeysUnique
  <2> QED
    BY <1>4, <2>3, <2>4, <2>5
<1> HIDE DEF pend, s
<1>6. \A r : r \in Deleted(pend \ {p}) <=> r \in Deleted(pend) /\ r # p.rec
  BY <1>4, <1>5, DeletedIs
<1>7. HasTombstone(file, p.rec) /\ p.rec \in Deleted(pend)
  BY <1>4, DeletedIs DEF HasTombstone, Burial
<1>8. Buried(file', pend \ {p}) = Buried(file, pend)
  <2>1. \A r : HasTombstone(file', r) <=> HasTombstone(file, r)
    BY <1>1 DEF HasTombstone
  <2>2. \A r : r \in Buried(file', pend \ {p}) <=> r \in Buried(file, pend)
    BY <1>6, <1>7, <2>1, BuriedIs
  <2>3. Buried(file', pend \ {p}) \subseteq Buried(file, pend)
        /\ Buried(file, pend) \subseteq Buried(file', pend \ {p})
    BY <2>2
  <2> QED
    BY <2>3
<1>9. Written(file', pend \ {p}) = Written(file, pend)
  BY <1>4, <1>8 DEF Written
<1>10. RowsLeft(file'.rows, Buried(file', pend \ {p}), pend \ {p})
         = RowsLeft(file.rows, Buried(file, pend), pend)
  <2>1. ASSUME \E row \in file.rows : row.rec = p.rec
        PROVE  \E q \in pend \ {p} : q.rec = p.rec
    BY <1>4, <2>1 DEF Ordered, pend
  <2> DEFINE buried == Buried(file, pend)
  <2> HIDE DEF buried
  <2>2. RowsLeft(file.rows, buried, pend \ {p}) = RowsLeft(file.rows, buried, pend)
    BY <2>1 DEF RowsLeft
  <2> QED
    BY <1>1, <1>8, <2>2 DEF buried
<1>11. TombsLeft(file'.tombs, Deleted(pend \ {p}), s) = TombsLeft(file.tombs, Deleted(pend), s)
  <2>1. Burial(c, p) = Grave(p.rec, s)
    BY DEF Burial, Grave, s
  <2> DEFINE fewer == Deleted(pend \ {p})
             all == Deleted(pend)
  <2>2. \A r : r \in fewer <=> r \in all /\ r # p.rec
    BY <1>6
  <2>3. p.rec \in all
    BY <1>7
  <2> HIDE DEF fewer, all
  <2>4. {Grave(r, s) : r \in all} = {Grave(r, s) : r \in fewer} \cup {Grave(p.rec, s)}
    BY <2>2, <2>3
  <2>5. {t \in file.tombs : t.rec \notin fewer}
          = {t \in file.tombs : t.rec \notin all} \cup {Grave(p.rec, s)}
    BY <1>4, <1>5, <2>1, <2>2, <2>3 DEF Burial
  <2>6. TombsLeft(file.tombs, fewer, s) = TombsLeft(file.tombs, all, s)
    BY <2>4, <2>5 DEF TombsLeft
  <2> QED
    BY <1>1, <2>6 DEF fewer, all
<1>12. VersionsLeft(Known(c)', Written(file', pend \ {p}), Deleted(pend \ {p}), s)
         = VersionsLeft(Known(c), Written(file, pend), Deleted(pend), s)
  <2> DEFINE fewer == Deleted(pend \ {p})
             all == Deleted(pend)
             known == KnownOf(file.versions, cache[c], pend)
             next == KnownOf(file'.versions, cache[c], pend \ {p})
  <2>1. known = Known(c) /\ next = Known(c)'
    BY <1>2, <1>3 DEF Known, pend
  <2>2. \A v : (v \in known /\ v.rec \notin all) <=> (v \in next /\ v.rec \notin fewer)
    <3>1. ASSUME NEW v, v.rec # p.rec
          PROVE  v \in known <=> v \in next
      <4>1. (\E q \in pend : SameKey(v, q)) <=> \E q \in pend \ {p} : SameKey(v, q)
        BY <3>1 DEF SameKey
      <4>2. v \in file.versions <=> v \in file'.versions
        BY <1>1, <3>1
      <4>3. (\E u \in file.versions : SameKey(u, v))
              <=> \E u \in file'.versions : SameKey(u, v)
        BY <1>1, <3>1 DEF SameKey
      <4> QED
        BY <4>1, <4>2, <4>3, KnownIs
    <3>2. ASSUME NEW v, v.rec = p.rec
          PROVE  v \notin next
      BY <1>1, <3>2, KnownIs DEF SameKey
    <3> QED
      BY <1>6, <1>7, <3>1, <3>2
  <2>3. \A q \in Written(file, pend) : q.rec \notin all /\ q.rec \notin fewer
    BY <1>6, BuriedIs DEF Written
  <2> HIDE DEF known, next, fewer, all
  <2>4. VersionsLeft(known, Written(file, pend), all, s)
          = VersionsLeft(next, Written(file, pend), fewer, s)
    BY <2>2, <2>3, SameVersionsLeft
  <2> QED
    BY <1>9, <2>1, <2>4 DEF fewer, all
<1> QED
  BY <1>2, <1>3, <1>10, <1>11, <1>12 DEF Finished, pend, s

LEMMA EnforceSettles ==
  ASSUME TypeInv, PlanInv, LoopInv, NEW c \in Connection, EnforceTombstone(c)
  PROVE  Finished(c)' = Finished(c)
<1>1. PICK p \in turn[c] :
        /\ pc[c] = "enforce" /\ turn[c] = {p}
        /\ file'.rows = RowsBut(file.rows, p.rec)
        /\ file'.versions = file.versions /\ file'.tombs = file.tombs
  BY LoopTables
<1>2. plan'[c] = Without(plan[c], {p}) /\ UNCHANGED <<cache, stamp>>
  BY <1>1, WriteEffect
<1> DEFINE pend == plan[c].rows
           s == stamp[c]
<1>3. plan'[c].rows = pend \ {p}
  BY <1>2 DEF Without
<1>4. /\ p \in pend /\ p.op # "DELETE" /\ HasTombstone(file, p.rec)
      /\ Cached(c)
  BY <1>1 DEF LoopInv, LoopOf, PlanInv, PlanOf, Stamping
<1>5. \A a, b \in file.versions : SameKey(a, b) => a = b
  BY DEF TypeInv, TablesOK, KeysUnique, SameKey
<1> HIDE DEF pend, s
<1>6. Deleted(pend \ {p}) = Deleted(pend)
  BY <1>4 DEF Deleted
<1>7. Buried(file', pend \ {p}) = Buried(file, pend)
  BY <1>1, <1>6 DEF Buried
<1>8. p.rec \in Buried(file, pend)
  BY <1>4, BuriedIs
<1>9. Written(file', pend \ {p}) = Written(file, pend)
  BY <1>7, <1>8 DEF Written
<1>10. RowsLeft(file'.rows, Buried(file', pend \ {p}), pend \ {p})
         = RowsLeft(file.rows, Buried(file, pend), pend)
  BY <1>1, <1>4, <1>7, <1>8 DEF RowsLeft, RowsBut
<1>11. Known(c)' = Known(c)
  <2> DEFINE known == KnownOf(file.versions, cache[c], pend)
             next == KnownOf(file.versions, cache[c], pend \ {p})
  <2>1. known = Known(c) /\ next = Known(c)'
    BY <1>1, <1>2, <1>3 DEF Known, pend
  <2>2. ASSUME NEW v, ~ SameKey(v, p)
        PROVE  v \in known <=> v \in next
    <3>1. (\E q \in pend : SameKey(v, q)) <=> \E q \in pend \ {p} : SameKey(v, q)
      BY <2>2
    <3> QED
      BY <3>1, KnownIs
  <2>3. ASSUME NEW v, SameKey(v, p)
        PROVE  v \in known <=> v \in next
    <3>1. \A u \in file.versions : SameKey(u, v) => u \in cache[c]
      BY <1>1, <1>4, <2>3 DEF Cached, SameKey
    <3>2. SameKey(v, v)
      BY DEF SameKey
    <3>3. v \in file.versions <=>
            v \in cache[c] /\ \E u \in file.versions : SameKey(u, v)
      BY <1>4, <3>1, <3>2 DEF Cached
    <3> QED
      BY <1>4, <2>3, <3>3, KnownIs
  <2> HIDE DEF known, next
  <2> QED
    BY <2>1, <2>2, <2>3
<1> QED
  BY <1>1, <1>2, <1>3, <1>6, <1>7, <1>9, <1>10, <1>11 DEF Finished, pend, s

\* The version that is stamped is the one that is expected, or one that is
\* swept in the same processing.
LEMMA StampSettles ==
  ASSUME TypeInv, PlanInv, LoopInv, NEW c \in Connection, StampColumn(c)
  PROVE  Finished(c)' = Finished(c)
<1>1. PICK p \in turn[c] :
        /\ pc[c] = "version" /\ turn[c] = {p}
        /\ file'.rows = file.rows /\ file'.tombs = file.tombs
        /\ file'.versions = Replaced(file.versions, StampedVersion(c, p))
  BY LoopTables
<1>2. plan'[c] = Without(plan[c], {p}) /\ UNCHANGED <<cache, stamp>>
  BY <1>1, WriteEffect
<1> DEFINE pend == plan[c].rows
           s == stamp[c]
           new == StampedVersion(c, p)
<1>3. plan'[c].rows = pend \ {p}
  BY <1>2 DEF Without
<1>4. /\ p \in pend /\ p.op # "DELETE" /\ ~ HasTombstone(file, p.rec)
      /\ Cached(c) /\ p \in Entries /\ pend \subseteq Entries
  BY <1>1 DEF LoopInv, LoopOf, PlanInv, PlanOf, Stamping, TypeInv, MemoryOK
<1>5. SameKey(new, p)
  BY StampedAgain
<1> HIDE DEF pend, s, new
<1>6. Deleted(pend \ {p}) = Deleted(pend)
  BY <1>4 DEF Deleted
<1>7. Buried(file', pend \ {p}) = Buried(file, pend)
  BY <1>1, <1>6 DEF Buried
<1> DEFINE deleted == Deleted(pend)
           buried == Buried(file, pend)
           written == Written(file, pend)
           known == KnownOf(file.versions, cache[c], pend)
           next == KnownOf(file'.versions, cache[c], pend \ {p})
<1>8. Written(file', pend \ {p}) = written \ {p}
  BY <1>7 DEF Written
<1>9. known = Known(c) /\ next = Known(c)'
  BY <1>2, <1>3 DEF Known, pend
<1>10. /\ p.rec \in buried <=> p.rec \in deleted
       /\ \A q : q \in written <=> q \in pend /\ q.op # "DELETE" /\ q.rec \notin buried
       /\ \A r \in deleted : r \in buried
  BY <1>4, BuriedIs DEF Written
<1>11. RowsLeft(file'.rows, buried, pend \ {p}) = RowsLeft(file.rows, buried, pend)
  <2>1. p.rec \in buried => \E q \in pend \ {p} : q.rec = p.rec
    BY <1>4, <1>10, DeletedIs
  <2> HIDE DEF buried
  <2> QED
    BY <1>1, <2>1 DEF RowsLeft
<1>12. ASSUME NEW v, ~ SameKey(v, p)
       PROVE  v \in known <=> v \in next
  <2>1. (\E q \in pend : SameKey(v, q)) <=> \E q \in pend \ {p} : SameKey(v, q)
    BY <1>12
  <2>2. v \in file.versions <=> v \in file'.versions
    BY <1>1, <1>5, <1>12 DEF Replaced, SameKey, new
  <2>3. (\E u \in file.versions : SameKey(u, v))
          <=> \E u \in file'.versions : SameKey(u, v)
    BY <1>1, <1>5, <1>12 DEF Replaced, SameKey, new
  <2> QED
    BY <2>1, <2>2, <2>3, KnownIs
<1>13. ASSUME NEW v, SameKey(v, p)
       PROVE  /\ v \in known <=> v \in cache[c]
              /\ v \in next <=>
                   IF \E q \in pend \ {p} : SameKey(v, q) THEN v \in cache[c] ELSE v = new
  <2>1. new \in file'.versions /\ SameKey(new, v)
    BY <1>1, <1>5, <1>13 DEF Replaced, SameKey, new
  <2>2. v \in cache[c] => \E u \in file.versions : SameKey(u, v)
    <3>1. ~ HasTombstone(file, v.rec)
      BY <1>4, <1>13 DEF SameKey
    <3> QED
      BY <1>4, <3>1 DEF Cached
  <2>3. v \in file'.versions <=> v = new
    BY <1>1, <1>5, <1>13 DEF Replaced, SameKey, new
  <2> QED
    BY <1>4, <1>13, <2>1, <2>2, <2>3, KnownIs
<1>14. VersionsLeft(next, written \ {p}, deleted, s)
         = VersionsLeft(known, written, deleted, s)
  <2>1. CASE p \notin written
    <3>1. p.rec \in deleted /\ written \ {p} = written
      BY <1>4, <1>10, <2>1
    <3>2. \A v : (v \in known /\ v.rec \notin deleted)
                   <=> (v \in next /\ v.rec \notin deleted)
      BY <1>12, <3>1 DEF SameKey
    <3>3. \A q \in written : q.rec \notin deleted
      BY <1>10
    <3> HIDE DEF known, next, written, deleted
    <3> QED
      BY <3>1, <3>2, <3>3, SameVersionsLeft
  <2>2. CASE p \in written /\ \E q \in pend \ {p} : SameKey(p, q)
    <3>1. PICK q \in pend \ {p} : SameKey(p, q)
      BY <2>2
    <3>2. q.op # "DELETE" /\ q.rec = p.rec
      BY <1>4, <3>1 DEF Entries, SameKey
    <3>3. q \in written \ {p}
      BY <1>10, <2>2, <3>1, <3>2
    <3>4. \A v : SameKey(v, p) => SameKey(v, q)
      BY <3>1 DEF SameKey
    <3>5. \A v : v \in known <=> v \in next
      BY <1>12, <1>13, <3>1, <3>4
    <3>6. known = next
      BY <3>5 DEF KnownOf
    <3>7. Final(known, s, p) = Final(known, s, q)
      BY <3>1 DEF Final, ColVersion, SameKey
    <3> HIDE DEF known, next, written, deleted
    <3>8. {Final(known, s, k) : k \in written} = {Final(known, s, k) : k \in written \ {p}}
      BY <3>3, <3>7
    <3>9. \A v : (\A k \in written : ~ SameKey(v, k))
                   <=> \A k \in written \ {p} : ~ SameKey(v, k)
      BY <3>3, <3>4
    <3> QED
      BY <3>6, <3>8, <3>9 DEF VersionsLeft
  <2>3. CASE p \in written /\ ~ \E q \in pend \ {p} : SameKey(p, q)
    <3>1. p.rec \notin deleted /\ \A q \in written \ {p} : ~ SameKey(p, q)
      BY <1>10, <2>3
    <3>2. \A v : SameKey(v, p) => \A q \in pend \ {p} : ~ SameKey(v, q)
      BY <2>3 DEF SameKey
    <3>3. new = Final(known, s, p)
      <4>1. {v \in known : SameKey(v, p)} = {v \in cache[c] : SameKey(v, p)}
        BY <1>13
      <4> QED
        BY <4>1 DEF new, StampedVersion, Final, ColVersion, s
    <3>4. \A v : v \in next <=> (v \in known /\ ~ SameKey(v, p)) \/ v = new
      BY <1>5, <1>12, <1>13, <3>2
    <3>5. ASSUME NEW q \in written \ {p}
          PROVE  Final(next, s, q) = Final(known, s, q)
      <4>1. \A v : SameKey(v, q) => ~ SameKey(v, p)
        BY <3>1, <3>5 DEF SameKey
      <4>2. {v \in next : SameKey(v, q)} = {v \in known : SameKey(v, q)}
        BY <1>12, <4>1
      <4> QED
        BY <4>2 DEF Final, ColVersion
    <3>6. new.rec \notin deleted /\ \A q \in written \ {p} : ~ SameKey(new, q)
      BY <1>5, <3>1 DEF SameKey
    <3> HIDE DEF known, next, written, deleted
    <3>7. {Final(next, s, q) : q \in written \ {p}}
            = {Final(known, s, q) : q \in written \ {p}}
      BY <3>5
    <3>8. {Final(known, s, q) : q \in written}
            = {Final(known, s, q) : q \in written \ {p}} \cup {new}
      BY <2>3, <3>3
    <3>9. {v \in next : v.rec \notin deleted /\ \A q \in written \ {p} : ~ SameKey(v, q)}
            = {v \in known : v.rec \notin deleted /\ \A q \in written : ~ SameKey(v, q)}
                \cup {new}
      BY <2>3, <3>4, <3>6
    <3> QED
      BY <3>7, <3>8, <3>9 DEF VersionsLeft
  <2> QED
    BY <2>1, <2>2, <2>3
<1> QED
  BY <1>1, <1>2, <1>3, <1>6, <1>7, <1>8, <1>9, <1>11, <1>14 DEF Finished, pend, s

-----------------------------------------------------------------------------
(* The steps before and after the loop.                                    *)

\* The clock is read when the cache holds the versions of the file and the
\* plan all that is pending: what is left to do is all that is pending.
LEMMA ReadClockSettles ==
  ASSUME OneConnection, TypeInv, PlanInv, LoopInv, NEW c \in Connection, ReadClock(c),
         SettledInLoop(c)'
  PROVE  Settled' = Settled
<1>1. /\ pc[c] = "clock" /\ pc'[c] = "stamp" /\ stamp'[c] = file.clock + 1
      /\ UNCHANGED <<file, pending, plan, turn, cache>>
  BY ReadEffect
<1>2. plan[c] = pending /\ pending.rows # {} /\ cache[c] = file.versions
  BY <1>1 DEF PlanInv, PlanOf, LoopInv, LoopOf
<1>3. Settled = ProcessPending(file, Self, pending.rows)
  BY <1>1, <1>2, SettlingNow DEF Settling
<1>4. Settled' = Finished(c)'
  BY <1>1 DEF SettledInLoop, Stamping
<1>5. file \in Database
  BY DEF TypeInv, TablesOK
<1>6. Known(c)' = file.versions
  <2> DEFINE pend == plan[c].rows
  <2>1. \A v : SameKey(v, v)
    BY DEF SameKey
  <2>2. \A v : v \in KnownOf(file.versions, file.versions, pend) <=> v \in file.versions
    BY <2>1, KnownIs
  <2>3. KnownOf(file.versions, file.versions, pend) = file.versions
    BY <2>2 DEF KnownOf
  <2> QED
    BY <1>1, <1>2, <2>3 DEF Known
<1>7. ProcessPending(file, Self, pending.rows) = Finished(c)'
  <2> DEFINE pend == plan[c].rows
             s == file.clock + 1
  <2>1. /\ file = [rows |-> file.rows, versions |-> file.versions, tombs |-> file.tombs,
                   clock |-> file.clock]
        /\ file.clock \in Nat
    BY <1>5, FileFields
  <2>2. s \in Nat /\ s - 1 = file.clock
    BY <2>1
  <2> HIDE DEF s
  <2>3. ProcessPending(file, Self, pend) =
          [rows     |-> RowsLeft(file.rows, Buried(file, pend), pend),
           versions |-> VersionsLeft(file.versions, Written(file, pend),
                                     Deleted(pend), s),
           tombs    |-> TombsLeft(file.tombs, Deleted(pend), s),
           clock    |-> s]
    BY <2>1, <2>2, ProcessLeaves
  <2> QED
    BY <1>1, <1>2, <1>6, <2>3 DEF Finished, s
<1> QED
  BY <1>3, <1>4, <1>7

\* When nothing is planned any more, only the clock is missing.
LEMMA AdvanceClockSettles ==
  ASSUME OneConnection, TypeInv, NEW c \in Connection, AdvanceClock(c), Settling(c)'
  PROVE  Settled' = Settled
<1>1. /\ pc[c] = "stamp" /\ pc'[c] = "clear" /\ plan[c].rows = {}
      /\ file' = [file EXCEPT !.clock = stamp[c]]
  BY WriteEffect
<1>2. Settled' = file'
  BY <1>1 DEF Settling
<1>3. Settled = Finished(c)
  BY <1>1, SettledNow DEF SettledInLoop, Stamping
<1>4. file \in Database
  BY DEF TypeInv, TablesOK
<1>5. Known(c) = file.versions
  BY <1>1 DEF Known, KnownOf, Keys
<1>6. Deleted({}) = {} /\ Written(file, {}) = {}
  BY DEF Deleted, Written
<1>7. /\ RowsLeft(file.rows, Buried(file, {}), {}) = file.rows
      /\ VersionsLeft(file.versions, {}, {}, stamp[c]) = file.versions
      /\ TombsLeft(file.tombs, {}, stamp[c]) = file.tombs
  BY DEF RowsLeft, VersionsLeft, TombsLeft
<1>8. Finished(c) = [rows |-> file.rows, versions |-> file.versions,
                     tombs |-> file.tombs, clock |-> stamp[c]]
  BY <1>1, <1>5, <1>6, <1>7 DEF Finished
<1>9. file' = [rows |-> file.rows, versions |-> file.versions,
               tombs |-> file.tombs, clock |-> stamp[c]]
  BY <1>1, <1>4 DEF Database
<1> QED
  BY <1>2, <1>3, <1>8, <1>9

LEMMA QuietSettles ==
  ASSUME OneConnection, TypeInv, NEW c \in Connection, Settling(c)', SettledInLoop(c)',
         \/ Open(c) \/ FirstStatement(c) \/ NextStatement(c) \/ BeginMerge(c)
         \/ RollbackTransaction(c) \/ AbortMerge(c) \/ ScanPending(c) \/ FillCache(c)
         \/ CheckTombstone(c) \/ ClearPending(c)
  PROVE  Settled' = Settled
<1>0. Settling(c) /\ SettledInLoop(c) /\ EmptyQueue.rows = {}
  BY SettlingNow, SettledNow, EmptyTypes
<1>1. CASE Open(c) \/ BeginMerge(c) \/ ClearPending(c)
  <2>1. /\ pc[c] \in {"closed", "idle", "clear"} /\ pc'[c] \in {"idle", "merging"}
        /\ file' = file
    BY <1>1, ReadEffect, MergeEffect, StopEffect
  <2> QED
    BY <1>0, <2>1 DEF Settling
<1>2. CASE FirstStatement(c) \/ NextStatement(c)
  <2>1. pc[c] \in {"idle", "writing"} /\ pc'[c] = "writing" /\ file' = file
    BY <1>2, UserEffect
  <2> QED
    BY <1>0, <2>1 DEF Settling
<1>3. CASE RollbackTransaction(c) \/ AbortMerge(c)
  <2>1. /\ pc[c] \in {"writing", "merging"} /\ pc'[c] = "scan" /\ file' = file
        /\ pending' = EmptyQueue
    BY <1>3, EndEffect
  <2> QED
    BY <1>0, <2>1 DEF Settling
<1>4. CASE ScanPending(c) \/ FillCache(c)
  <2>1. /\ UNCHANGED <<file, pending>>
        /\ \/ /\ pc[c] = "scan"
              /\ pc'[c] = IF pending.rows = {} THEN "idle" ELSE "cache"
           \/ pc[c] = "cache" /\ pc'[c] = "clock"
    BY <1>4, ReadEffect
  <2> QED
    BY <1>0, <2>1 DEF Settling
<1>5. CASE CheckTombstone(c)
  <2>1. /\ pc[c] = "stamp" /\ pc'[c] \in {"enforce", "version"}
        /\ UNCHANGED <<file, plan, cache, stamp>>
    BY <1>5, ReadEffect
  <2>2. Finished(c)' = Finished(c)
    BY <2>1 DEF Finished, Known
  <2> QED
    BY <1>0, <2>1, <2>2 DEF SettledInLoop, Stamping
<1> QED
  BY <1>1, <1>2, <1>3, <1>4, <1>5

\* The commit of a transaction is the step of AtomicFile: from here on the
\* settled file has the versions of all that the transaction changed.
LEMMA CommitSettles ==
  ASSUME OneConnection, AtomicInv, NEW c \in Connection, CommitTransaction(c),
         Settling(c)'
  PROVE  Atomic!Next
<1>1. TypeInv /\ LoopInv /\ OrderInv
  BY DEF AtomicInv
<1>2. /\ pc[c] = "writing" /\ pc'[c] = "scan" /\ file' = view
      /\ pending' = viewPending
  BY <1>1, EndEffect
<1>3. /\ view = [file EXCEPT !.rows = view.rows]
      /\ viewPending.rows # {} /\ QueueTells(viewPending.rows, file.rows, view.rows)
  BY <1>1, <1>2 DEF LoopInv, Opened, OrderInv, OrderOf
<1>4. /\ view.rows \subseteq Row /\ \A a, b \in view.rows : a.rec = b.rec => a = b
      /\ viewPending.rows \subseteq Entries
      /\ file.clock \in Nat
  BY <1>1, FileFields DEF TypeInv, TablesOK, KeysUnique
<1>5. Settled = file
  BY <1>1, <1>2, SettlingNow DEF Settling
<1>6. Settled' = ProcessPending(view, Self, viewPending.rows)
  BY <1>2, <1>3 DEF Settling
<1> DEFINE rows == view.rows
           pend == viewPending.rows
<1>7. rows \in Atomic!Contents
  BY <1>4, TablesAreContents
<1>8. pend \in SUBSET Atomic!Entry /\ pend # {}
  BY <1>3, <1>4, AtomicOperators
<1>9. Atomic!Reports(pend, Settled.rows, rows)
  BY <1>3, <1>5 DEF Atomic!Reports, QueueTells
<1>10. Settled' = Atomic!ProcessPending([Settled EXCEPT !.rows = rows], Self, pend)
  BY <1>3, <1>5, <1>6, AtomicOperators
<1>11. Settled'.clock > Settled.clock
  <2>1. view.clock = file.clock
    BY <1>1, <1>3, FileFields DEF TypeInv, TablesOK
  <2>2. ProcessPending(view, Self, viewPending.rows).clock = view.clock + 1
    BY DEF ProcessPending
  <2> QED
    BY <1>4, <1>5, <1>6, <2>1, <2>2
<1> HIDE DEF rows, pend
<1>12. Atomic!Transaction
  BY <1>7, <1>8, <1>9, <1>10 DEF Atomic!Transaction
<1> QED
  BY <1>11, <1>12 DEF Atomic!Next

\* The commit of a merge is a step, and there is nothing to process.
LEMMA MergeSettles ==
  ASSUME OneConnection, AtomicInv, NEW c \in Connection, CommitMerge(c), Settling(c)'
  PROVE  Atomic!Next
<1>1. TypeInv /\ PlanInv /\ LoopInv /\ RememberInv
  BY DEF AtomicInv
<1>2. /\ pc[c] = "merging" /\ pc'[c] = "scan" /\ file' = view
      /\ pending' = viewPending
  BY <1>1, EndEffect
<1>3. PICK x \in Incoming : view = Merged(file, x)
  BY <1>1, <1>2 DEF LoopInv, Opened
<1>4. viewPending.rows = {}
  BY <1>1, <1>2 DEF PlanInv, Queued, RememberInv
<1>5. Settled = file /\ Settled' = Merged(file, x)
  BY <1>1, <1>2, <1>3, <1>4, SettlingNow DEF Settling
<1>6. Merged(file, x).clock > file.clock
  <2>1. x.dv \in Nat
    BY IncomingAssumption DEF Change
  <2>2. file \in Database /\ file.clock \in Nat
    BY <1>1, FileFields DEF TypeInv, TablesOK
  <2>3. Later(file.clock, x.dv) \in Nat /\ Later(file.clock, x.dv) >= file.clock
    BY <2>1, <2>2 DEF Later
  <2>4. Merged(file, x).clock = Later(file.clock, x.dv) + 1
    BY <2>2 DEF Merged, Rejected, DeletionAccepted, ColumnAccepted, Database
  <2> QED
    BY <2>2, <2>3, <2>4
<1>7. Atomic!Merge
  BY <1>5, AtomicOperators DEF Atomic!Merge
<1> QED
  BY <1>5, <1>6, <1>7 DEF Atomic!Next

LEMMA AtomicStep ==
  ASSUME OneConnection, Sound, AtomicInv, file.clock < ClockMax, [Next]_vars
  PROVE  Atomic!Next \/ UNCHANGED Settled
<1>0. /\ TypeInv /\ PlanInv /\ LoopInv /\ OrderInv
      /\ file.clock \in Nat
  BY FileFields DEF AtomicInv, TypeInv, TablesOK
<1>1. TypeInv'
  BY <1>0, TypeStep
<1>2. CASE UNCHANGED vars
  BY <1>2 DEF vars, fileVars, txnVars, loopVars, Settled, Processing, Before
<1>3. ASSUME NEW c \in Connection, ConnectionStep(c)
      PROVE  Atomic!Next \/ UNCHANGED Settled
  <2>1. Settling(c)' /\ SettledInLoop(c)' /\ SettledInLoop(c)
    BY <1>0, <1>1, SettlingNext, SettledNext, SettledNow
  <2>2. CASE CommitTransaction(c)
    BY <2>1, <2>2, CommitSettles
  <2>3. CASE CommitMerge(c)
    BY <2>1, <2>3, MergeSettles
  <2>4. CASE \/ Open(c) \/ FirstStatement(c) \/ NextStatement(c) \/ BeginMerge(c)
             \/ RollbackTransaction(c) \/ AbortMerge(c) \/ ScanPending(c)
             \/ FillCache(c) \/ CheckTombstone(c) \/ ClearPending(c)
    BY <1>0, <2>1, <2>4, QuietSettles
  <2>5. CASE ReadClock(c)
    BY <1>0, <2>1, <2>5, ReadClockSettles
  <2>6. CASE EntombRecord(c)
    <3>1. pc[c] = "stamp" /\ pc'[c] = "sweep"
      BY <1>0, <2>6, WriteEffect
    <3> QED
      BY <1>0, <2>1, <2>6, <3>1, EntombSettles DEF SettledInLoop, Stamping
  <2>7. CASE SweepVersions(c) \/ EnforceTombstone(c) \/ StampColumn(c)
    <3>1. pc[c] \in {"sweep", "enforce", "version"} /\ pc'[c] = "stamp"
      BY <1>0, <2>7, WriteEffect
    <3>2. Finished(c)' = Finished(c)
      BY <1>0, <2>7, SweepSettles, EnforceSettles, StampSettles
    <3> QED
      BY <2>1, <3>1, <3>2 DEF SettledInLoop, Stamping
  <2>8. CASE AdvanceClock(c)
    BY <1>0, <2>1, <2>8, AdvanceClockSettles
  <2>9. ~ OverflowClock(c)
    BY <1>0, ClockMaxAssumption, StopEffect
  <2>10. ~ Busy(c) /\ ~ FailProcessing(c)
    BY <1>0, NeverBusy DEF FailProcessing, Sound
  <2> QED
    BY <1>3, <2>2, <2>3, <2>4, <2>5, <2>6, <2>7, <2>8, <2>9, <2>10
    DEF ConnectionStep, ProcessPendingChanges
<1> QED
  BY <1>2, <1>3 DEF Next, Crash, Sound

\* As long as one connection is open, no write fails, the process does not die,
\* the clock is not used up and what is merged carries its values, the file behaves like an atomic one: readers
\* who wait for the end of process_pending_changes cannot tell its statements,
\* each of which commits on its own, from one step at the commit of the
\* transaction.  This is what CrdtReplication takes a local write to be.
THEOREM AtomicCorrect ==
  ASSUME OneConnection, "failure" \notin Faults, "crash" \notin Faults,
         Column # {}, Texts(Incoming)
  PROVE  Spec /\ [](file.clock < ClockMax) => ProcessingIsAtomic
<1>1. Sound
  BY DEF Sound
<1>2. Init => Atomic!Init
  <2> SUFFICES ASSUME Init PROVE Settled = EmptyDatabase
    BY AtomicOperators DEF Atomic!Init
  <2>1. Processing = {} /\ file = EmptyDatabase
    BY DEF Init, Processing
  <2> QED
    BY <2>1 DEF Settled
<1>3. AtomicInv /\ file.clock < ClockMax /\ [Next]_vars => [Atomic!Next]_Settled
  BY <1>1, AtomicStep
<1>4. Spec /\ [](file.clock < ClockMax) => []AtomicInv
  BY <1>1, AtomicInvariant
<1> QED
  BY <1>2, <1>3, <1>4, PTL DEF Spec, ProcessingIsAtomic, Atomic!Spec

-----------------------------------------------------------------------------
(* What get_changes_since returns, as a consequence: it reads the settled  *)
(* file, and a step of AtomicFile changes a value with its version only.   *)

\* What is merged was written by other nodes, has the values that its
\* versions name, and columns travel as texts.
IncomingHonest ==
  /\ Texts(Incoming) /\ \A x \in Incoming : x.node # Self
  /\ \A x, y \in Incoming :
       x.col # NoColumn /\ Stamp(x) = Stamp(y) => x.val = y.val

Columns == {x \in Incoming : x.col # NoColumn}

\* What anybody has said of a column of this file.
Heard == sent \cup Columns

Agree(heard) == \A x, y \in heard : Stamp(x) = Stamp(y) => x.val = y.val

\* The versions of live records stand for the values that were heard of them,
\* and the next stamp of the file is new.
Truthful(d, heard) ==
  /\ d \in Database /\ KeysUnique(d)
  /\ \A v \in d.versions, x \in heard :
       ~ HasTombstone(d, v.rec) /\ Stamp(x) = Stamp(v) => x.val = WireValue(d.rows, v)
  /\ \A v \in d.versions : v.node = Self => v.dv <= d.clock
  /\ \A x \in heard : x.dv \in Nat /\ (x.node = Self => x.dv <= d.clock)

ExportInv == Agree(Heard) /\ Truthful(Settled, Heard)

LEMMA StampIs ==
  ASSUME NEW x, NEW y, Stamp(x) = Stamp(y)
  PROVE  /\ x.rec = y.rec /\ x.col = y.col /\ x.cv = y.cv /\ x.dv = y.dv
         /\ x.node = y.node
         /\ SameKey(x, y)
BY DEF Stamp, SameKey

LEMMA ContentsAreTables ==
  ASSUME NEW rows \in Atomic!Contents
  PROVE  rows \subseteq Row /\ \A a, b \in rows : a.rec = b.rec => a = b
<1>0. PICK present \in SUBSET Record :
        rows \in {{[rec |-> r, cells |-> cells[r]] : r \in present} :
                    cells \in [present -> [Column -> Atomic!Cell]]}
  BY DEF Atomic!Contents
<1>1. PICK cells \in [present -> [Column -> Atomic!Cell]] :
        rows = {[rec |-> r, cells |-> cells[r]] : r \in present}
  BY <1>0
<1>2. \A row \in rows : row \in Row
  BY <1>1 DEF Row, Cell, Atomic!Cell
<1>3. \A a, b \in rows : a.rec = b.rec => a = b
  BY <1>1
<1> QED
  BY <1>2, <1>3

\* A column that a transaction leaves its version has the value it had.
LEMMA ReportedValues ==
  ASSUME NEW d \in Database, KeysUnique(d), NEW rows \in SUBSET Row,
         \A a, b \in rows : a.rec = b.rec => a = b,
         NEW pend, pend \subseteq Entries, Atomic!Reports(pend, d.rows, rows),
         NEW v, v.col \in Column, \A p \in pend : ~ SameKey(p, v),
         v.rec \notin Deleted(pend)
  PROVE  WireValue(rows, v) = WireValue(d.rows, v)
<1>1. \A a, b \in d.rows : a.rec = b.rec => a = b
  BY DEF KeysUnique
<1>2. \A p \in pend : ~ (p.rec = v.rec /\ p.col = v.col)
  BY DEF SameKey
<1>3. CASE \E row \in rows : row.rec = v.rec
  <2>1. PICK row \in rows : row.rec = v.rec
    BY <1>3
  <2>2. PICK old \in d.rows : old.rec = row.rec /\ old.cells[v.col] = row.cells[v.col]
    BY <1>2, <2>1 DEF Atomic!Reports
  <2> QED
    BY <1>1, <2>1, <2>2, WireValueIs
<1>4. CASE ~ \E row \in rows : row.rec = v.rec
  <2>1. \A old \in d.rows : old.rec # v.rec
    BY <1>4, DeletedIs DEF Atomic!Reports
  <2> QED
    BY <1>1, <1>4, <2>1, WireValueIs
<1> QED
  BY <1>3, <1>4

LEMMA TransactionTruthful ==
  ASSUME NEW d, NEW heard, Truthful(d, heard), NEW rows \in Atomic!Contents,
         NEW pend, pend \subseteq Entries, Atomic!Reports(pend, d.rows, rows),
         NEW e, e = ProcessPending([d EXCEPT !.rows = rows], Self, pend)
  PROVE  Truthful(e, heard)
<1> DEFINE g == [d EXCEPT !.rows = rows]
<1>1. /\ d \in Database /\ KeysUnique(d) /\ d.clock \in Nat
      /\ rows \in SUBSET Row /\ \A a, b \in rows : a.rec = b.rec => a = b
  BY ContentsAreTables, FileFields DEF Truthful
<1>2. /\ g \in Database /\ KeysUnique(g)
      /\ g.rows = rows /\ g.versions = d.versions /\ g.tombs = d.tombs
      /\ g.clock = d.clock
  <2>1. /\ g = [rows |-> rows, versions |-> d.versions, tombs |-> d.tombs,
                clock |-> d.clock]
        /\ g \in Database /\ KeysUnique(g)
    BY <1>1, PutRows
  <2> QED
    BY <2>1
<1> HIDE DEF g
<1>3. e \in Database /\ KeysUnique(e)
  <2>1. WellFormed(pend)
    BY DEF WellFormed, Entries, Pending
  <2> QED
    BY <1>2, <2>1, SelfAssumption, ProcessPendingType, ProcessPendingKeys DEF g
<1>4. /\ e.rows = {row \in rows : ~ \E p \in pend :
                     p.rec = row.rec /\ p.rec \in Buried(g, pend)}
      /\ e.versions = {v \in d.versions : /\ v.rec \notin Deleted(pend)
                                          /\ \A p \in Written(g, pend) : ~ SameKey(v, p)}
                        \cup {NextVersion(g, Self, p) : p \in Written(g, pend)}
      /\ e.tombs = {t \in d.tombs : t.rec \notin Deleted(pend)}
                     \cup {NextTombstone(g, Self, r) : r \in Deleted(pend)}
      /\ e.clock = d.clock + 1
  BY <1>2 DEF ProcessPending, g
<1>5. /\ \A p : NextVersion(g, Self, p).dv = d.clock + 1
                /\ NextVersion(g, Self, p).node = Self
      /\ \A r : NextTombstone(g, Self, r).rec = r
  BY <1>2 DEF NextVersion, NextTombstone
<1>6. \A r \in Buried(g, pend) : HasTombstone(e, r)
  BY <1>2, <1>4, <1>5 DEF Buried, HasTombstone
<1>7. \A r : HasTombstone(d, r) => HasTombstone(e, r)
  BY <1>2, <1>6 DEF Buried, HasTombstone
<1>8. ASSUME NEW v \in e.versions, NEW x \in heard,
             ~ HasTombstone(e, v.rec), Stamp(x) = Stamp(v)
      PROVE  x.val = WireValue(e.rows, v)
  <2>1. v.rec \notin Buried(g, pend) /\ ~ HasTombstone(d, v.rec)
    BY <1>6, <1>7, <1>8
  <2>2. v \in d.versions /\ \A p \in Written(g, pend) : ~ SameKey(v, p)
    <3>1. x.dv = v.dv /\ x.node = v.node
      BY <1>8, StampIs
    <3>2. ~ (v.node = Self /\ v.dv = d.clock + 1)
      BY <1>1, <3>1 DEF Truthful
    <3> QED
      BY <1>4, <1>5, <3>2
  <2>3. v.col \in Column /\ v.rec \notin Deleted(pend)
    BY <1>1, <2>1, <2>2, FileFields DEF Buried, VersionRow
  <2>4. \A p \in pend : ~ SameKey(p, v)
    <3> SUFFICES ASSUME NEW p \in pend, SameKey(p, v) PROVE FALSE
      OBVIOUS
    <3>1. p.rec = v.rec /\ p.col = v.col /\ SameKey(v, p)
      BY DEF SameKey
    <3>2. p.op # "DELETE"
      BY <2>3, <3>1, DeletedIs
    <3>3. p \in Written(g, pend)
      BY <2>1, <3>1, <3>2 DEF Written
    <3> QED
      BY <2>2, <3>1, <3>3
  <2>5. WireValue(rows, v) = WireValue(d.rows, v)
    BY <1>1, <2>3, <2>4, ReportedValues
  <2>6. WireValue(e.rows, v) = WireValue(rows, v)
    <3>1. \A row : row.rec = v.rec => (row \in e.rows <=> row \in rows)
      BY <1>4, <2>1
    <3>2. \A a, b \in e.rows : a.rec = b.rec => a = b
      BY <1>3 DEF KeysUnique
    <3> QED
      BY <1>1, <3>1, <3>2, SameRowSameValue
  <2>7. x.val = WireValue(d.rows, v)
    BY <1>8, <2>1, <2>2 DEF Truthful
  <2> QED
    BY <2>5, <2>6, <2>7
<1>9. \A v \in e.versions : v.node = Self => v.dv <= e.clock
  <2>1. \A v \in d.versions : v.dv \in Nat
    BY <1>1, FileFields DEF VersionRow
  <2>2. \A v \in d.versions : v.node = Self => v.dv <= e.clock
    BY <1>1, <1>4, <2>1 DEF Truthful
  <2> QED
    BY <1>1, <1>4, <1>5, <2>2
<1>10. \A x \in heard : x.dv \in Nat /\ (x.node = Self => x.dv <= e.clock)
  BY <1>1, <1>4 DEF Truthful
<1> QED
  BY <1>3, <1>8, <1>9, <1>10 DEF Truthful

LEMMA MergeTruthful ==
  ASSUME IncomingHonest, NEW d, NEW heard, Columns \subseteq heard, Agree(heard),
         Truthful(d, heard), NEW x \in Incoming, NEW e, e = Merged(d, x)
  PROVE  Truthful(e, heard)
<1> DEFINE now == Later(d.clock, x.dv)
<1>1. /\ d \in Database /\ KeysUnique(d) /\ x \in Change /\ x.node # Self
      /\ x.col # NoColumn => x.val # Null /\ x \in heard /\ x.col \in Column
  BY IncomingAssumption DEF Truthful, IncomingHonest, Texts, Columns, Change
<1>2. e \in Database /\ KeysUnique(e)
  BY <1>1, MergedType
<1>3. now \in Nat /\ now >= d.clock /\ d.clock \in Nat
  BY <1>1, FileFields DEF Later, Change
<1>4. /\ e.clock = now + 1
      /\ \/ e.rows = d.rows /\ e.versions = d.versions /\ e.tombs = d.tombs
         \/ /\ x.col # NoColumn
            /\ e.rows = ApplyColumn(d.rows, x)
            /\ e.versions = WithVersion(d.versions, x, now)
            /\ e.tombs = d.tombs
         \/ /\ x.col = NoColumn
            /\ e.rows = RowsBut(d.rows, x.rec)
            /\ e.versions = d.versions
            /\ e.tombs = WithTombstone(d.tombs, x, now)
  BY <1>1, MergedOutcome
<1> HIDE DEF now
<1>5. \A v \in e.versions :
        \/ v \in d.versions
        \/ v.node = x.node /\ Stamp(v) = Stamp(x) /\ SameKey(v, x)
  BY <1>4 DEF WithVersion, Stamp, SameKey
<1>6. /\ x.rec \in {t.rec : t \in WithTombstone(d.tombs, x, now)}
       /\ \A t \in d.tombs : t.rec = x.rec \/ t \in WithTombstone(d.tombs, x, now)
  <2> DEFINE made == [rec |-> x.rec, dv |-> x.dv, node |-> x.node, local |-> now]
  <2>1. made.rec = x.rec
    OBVIOUS
  <2>2. WithTombstone(d.tombs, x, now) = {t \in d.tombs : t.rec # x.rec} \cup {made}
    BY DEF WithTombstone
  <2> HIDE DEF made
  <2> QED
    BY <2>1, <2>2
<1>7. \A r : HasTombstone(d, r) => HasTombstone(e, r)
  BY <1>4, <1>6 DEF HasTombstone
<1>8. ASSUME NEW v \in e.versions, NEW y \in heard,
             ~ HasTombstone(e, v.rec), Stamp(y) = Stamp(v)
      PROVE  y.val = WireValue(e.rows, v)
  <2>1. v.col \in Column
    BY <1>2, FileFields DEF VersionRow
  <2>2. v \in d.versions => y.val = WireValue(d.rows, v)
    BY <1>7, <1>8 DEF Truthful
  <2>3. CASE e.rows = d.rows /\ e.versions = d.versions
    BY <1>8, <2>2, <2>3
  <2>4. CASE /\ x.col # NoColumn /\ e.rows = ApplyColumn(d.rows, x)
             /\ e.versions = WithVersion(d.versions, x, now)
    <3>1. WireValue(e.rows, v) = IF SameKey(v, x) THEN x.val ELSE WireValue(d.rows, v)
      BY <1>1, <2>1, <2>4, ApplyColumnShows
    <3>2. SameKey(v, x) => Stamp(v) = Stamp(x)
      BY <2>4 DEF WithVersion, Stamp, SameKey
    <3>3. CASE SameKey(v, x)
      BY <1>1, <1>8, <2>4, <3>1, <3>2, <3>3 DEF Agree
    <3>4. CASE ~ SameKey(v, x)
      <4>1. v \in d.versions
        BY <2>4, <3>4 DEF WithVersion, SameKey
      <4> QED
        BY <2>2, <3>1, <3>4, <4>1
    <3> QED
      BY <3>3, <3>4
  <2>5. CASE /\ e.rows = RowsBut(d.rows, x.rec) /\ e.versions = d.versions
             /\ e.tombs = WithTombstone(d.tombs, x, now)
    <3>1. v.rec # x.rec
      BY <1>8, <1>6, <2>5 DEF HasTombstone
    <3>2. \A row : row.rec = v.rec => (row \in e.rows <=> row \in d.rows)
      BY <2>5, <3>1 DEF RowsBut
    <3>3. WireValue(e.rows, v) = WireValue(d.rows, v)
      BY <1>1, <1>2, <3>2, SameRowSameValue DEF KeysUnique
    <3> QED
      BY <1>8, <2>2, <2>5, <3>3
  <2> QED
    BY <1>4, <2>3, <2>4, <2>5
<1>9. \A v \in e.versions : v.node = Self => v.dv <= e.clock
  <2>1. \A v \in d.versions : v.dv \in Nat
    BY <1>1, FileFields DEF VersionRow
  <2> QED
    BY <1>1, <1>3, <1>4, <1>5, <2>1 DEF Truthful
<1>10. \A y \in heard : y.dv \in Nat /\ (y.node = Self => y.dv <= e.clock)
  BY <1>3, <1>4 DEF Truthful
<1> QED
  BY <1>2, <1>8, <1>9, <1>10 DEF Truthful

\* What is returned of a file is true of it, and agrees with all that was heard.
LEMMA SendTruthful ==
  ASSUME NEW d, NEW heard, Truthful(d, heard), Agree(heard), NEW more,
         more = {x \in GetChangesSince(d, 0, {}) : ~ HasTombstone(d, x.rec)}
  PROVE  Agree(heard \cup more) /\ Truthful(d, heard \cup more)
<1>1. d \in Database /\ KeysUnique(d)
  BY DEF Truthful
<1>2. ASSUME NEW x \in more
      PROVE  \E v \in d.versions : /\ Stamp(x) = Stamp(v) /\ ~ HasTombstone(d, v.rec)
                                   /\ x.val = WireValue(d.rows, v)
                                   /\ x.dv = v.dv /\ x.node = v.node
  <2>1. \A t \in Fresh(d.tombs, 0, {}) : HasTombstone(d, Deletion(t).rec)
    BY DEF Fresh, Deletion, HasTombstone
  <2>2. PICK v \in Fresh(d.versions, 0, {}) : x = ColumnChange(d.rows, v)
    BY <2>1 DEF GetChangesSince
  <2>3. /\ x.rec = v.rec /\ x.col = v.col /\ x.val = WireValue(d.rows, v)
        /\ x.cv = v.cv /\ x.dv = v.dv /\ x.node = v.node
    BY <2>2 DEF ColumnChange
  <2>4. v \in d.versions
    BY DEF Fresh
  <2> QED
    BY <2>3, <2>4 DEF Stamp
<1>3. ASSUME NEW v \in d.versions, NEW x \in heard \cup more,
             ~ HasTombstone(d, v.rec), Stamp(x) = Stamp(v)
      PROVE  x.val = WireValue(d.rows, v)
  <2>1. CASE x \in heard
    BY <1>3, <2>1 DEF Truthful
  <2>2. CASE x \in more
    <3>1. PICK u \in d.versions : Stamp(x) = Stamp(u) /\ x.val = WireValue(d.rows, u)
      BY <1>2, <2>2
    <3>2. u.rec = v.rec /\ u.col = v.col
      BY <1>3, <3>1, StampIs
    <3> QED
      BY <1>1, <3>1, <3>2 DEF KeysUnique
  <2> QED
    BY <2>1, <2>2
<1>4. Agree(heard \cup more)
  <2> SUFFICES ASSUME NEW x \in heard \cup more, NEW y \in heard \cup more,
                      Stamp(x) = Stamp(y)
               PROVE  x.val = y.val
    BY DEF Agree
  <2>1. ASSUME NEW a \in more, NEW b \in heard \cup more, Stamp(a) = Stamp(b)
        PROVE  a.val = b.val
    <3>1. PICK v \in d.versions : /\ Stamp(a) = Stamp(v) /\ ~ HasTombstone(d, v.rec)
                                  /\ a.val = WireValue(d.rows, v)
      BY <1>2
    <3> QED
      BY <1>3, <2>1, <3>1
  <2> QED
    BY <2>1 DEF Agree
<1>5. \A x \in heard \cup more : x.dv \in Nat /\ (x.node = Self => x.dv <= d.clock)
  <2>1. \A v \in d.versions : v.dv \in Nat
    BY <1>1, FileFields DEF VersionRow
  <2> QED
    BY <1>2, <2>1 DEF Truthful
<1> QED
  BY <1>1, <1>3, <1>4, <1>5 DEF Truthful

LEMMA ExportStep ==
  ASSUME OneConnection, Sound, IncomingHonest, AtomicInv, ExportInv,
         file.clock < ClockMax, [ExportNext]_exportVars
  PROVE  ExportInv'
<1>1. Columns \subseteq Heard /\ Agree(Heard) /\ Truthful(Settled, Heard)
  BY DEF ExportInv, Heard
<1>2. CASE [Next]_vars /\ UNCHANGED sent
  <2>1. Heard' = Heard
    BY <1>2 DEF Heard, Columns
  <2>2. Atomic!Next \/ UNCHANGED Settled
    BY <1>2, AtomicStep
  <2>3. CASE Atomic!Transaction
    <3>1. PICK rows \in Atomic!Contents, pend \in SUBSET Atomic!Entry :
            /\ Atomic!Reports(pend, Settled.rows, rows)
            /\ Settled' =
                 Atomic!ProcessPending([Settled EXCEPT !.rows = rows], Self, pend)
      BY <2>3 DEF Atomic!Transaction
    <3>2. Truthful(Settled', Heard)
      BY <1>1, <3>1, AtomicOperators, TransactionTruthful
    <3> QED
      BY <1>1, <2>1, <3>2 DEF ExportInv, Agree, Truthful
  <2>4. CASE Atomic!Merge
    <3>1. PICK x \in Incoming : Settled' = Atomic!Merged(Settled, x)
      BY <2>4 DEF Atomic!Merge
    <3>2. Truthful(Settled', Heard)
      BY <1>1, <3>1, AtomicOperators, MergeTruthful
    <3> QED
      BY <1>1, <2>1, <3>2 DEF ExportInv, Agree, Truthful
  <2>5. CASE UNCHANGED Settled
    BY <1>1, <2>1, <2>5 DEF ExportInv, Agree, Truthful
  <2> QED
    BY <2>2, <2>3, <2>4, <2>5 DEF Atomic!Next
<1>3. ASSUME NEW c \in Connection, GetChanges(c)
      PROVE  ExportInv'
  <2> DEFINE more == {x \in GetChangesSince(file, 0, {}) : ~ HasTombstone(file, x.rec)}
  <2>1. pc[c] = "idle" /\ sent' = sent \cup more /\ UNCHANGED vars
    BY <1>3 DEF GetChanges
  <2>2. Settled = file
    BY <2>1, SettlingNow DEF Settling, AtomicInv
  <2>3. Settled' = Settled
    BY <2>1 DEF vars, fileVars, txnVars, loopVars, Settled, Processing, Before
  <2>4. Heard' = Heard \cup more
    BY <2>1 DEF Heard, Columns
  <2>5. Agree(Heard \cup more) /\ Truthful(Settled, Heard \cup more)
    BY <1>1, <2>2, SendTruthful
  <2> HIDE DEF more
  <2> QED
    BY <2>3, <2>4, <2>5 DEF ExportInv, Agree, Truthful
<1> QED
  BY <1>2, <1>3 DEF ExportNext, Track, exportVars

\* One connection never returns two values of a column under the same stamp:
\* whoever compares versions compares values.  The file changes a value only
\* in a step of AtomicFile, which gives it a version, and get_changes_since
\* reads it before or after the processing and never during it.
THEOREM ExportCorrect ==
  ASSUME OneConnection, "failure" \notin Faults, "crash" \notin Faults,
         Column # {}, IncomingHonest
  PROVE  ExportSpec /\ [](file.clock < ClockMax) => []StampNamesOneValue
<1>1. Sound
  BY DEF Sound
<1>2. ExportInit => Init /\ ExportInv
  <2> SUFFICES ASSUME Init, sent = {} PROVE ExportInv
    BY DEF ExportInit
  <2>1. Processing = {} /\ file = EmptyDatabase
    BY DEF Init, Processing
  <2>2. Settled = EmptyDatabase /\ Heard = Columns
    BY <2>1 DEF Settled, Heard
  <2>3. EmptyDatabase \in Database /\ KeysUnique(EmptyDatabase)
    BY DEF EmptyDatabase, Database, KeysUnique
  <2>4. Truthful(EmptyDatabase, Columns)
    BY <2>3, IncomingAssumption
    DEF Truthful, EmptyDatabase, IncomingHonest, Texts, Columns, Change
  <2>5. Agree(Columns)
    BY DEF Agree, Columns, IncomingHonest
  <2> QED
    BY <2>2, <2>4, <2>5 DEF ExportInv
<1>3. [ExportNext]_exportVars => [Next]_vars
  BY DEF ExportNext, exportVars, Track, GetChanges
<1>4. Spec /\ [](file.clock < ClockMax) => []AtomicInv
  BY <1>1, AtomicInvariant DEF IncomingHonest
<1>5. AtomicInv /\ ExportInv /\ file.clock < ClockMax /\ [ExportNext]_exportVars
        => ExportInv'
  BY <1>1, ExportStep
<1>6. ExportInv => StampNamesOneValue
  BY DEF ExportInv, Agree, Heard, StampNamesOneValue
<1> QED
  BY <1>2, <1>3, <1>4, <1>5, <1>6, PTL DEF Spec, ExportSpec
=============================================================================
