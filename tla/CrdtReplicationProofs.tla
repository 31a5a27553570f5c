------------------------ MODULE CrdtReplicationProofs ------------------------
(* What holds of CrdtReplication for every set of nodes, records, columns  *)
(* and values and for every bound.                                         *)
EXTENDS CrdtReplication, CrdtDatabaseProofs

-----------------------------------------------------------------------------
(* Types and primary keys.                                                 *)

LEMMA StampType ==
  ASSUME NEW x \in Change
  PROVE  Stamp(x) \in StampRow
BY DEF Stamp, StampRow, Change

\* A transaction of the user, given rows and pending rows of the right type.
LEMMA CommitType ==
  ASSUME TypeOK, NEW n \in Node, NEW rows \in SUBSET Row, NEW pend,
         WellFormed(pend), \A a, b \in rows : a.rec = b.rec => a = b,
         Commit(n, rows, pend)
  PROVE  TypeOK'
<1> DEFINE d0 == [db[n] EXCEPT !.rows = rows]
           d  == ProcessPending(d0, n, pend)
<1>1. db[n] \in Database /\ KeysUnique(db[n])
  BY DEF TypeOK
<1>2. d0 \in Database /\ KeysUnique(d0)
  BY <1>1 DEF Database, KeysUnique
<1>3. d \in Database /\ KeysUnique(d)
  BY <1>2, ProcessPendingType, ProcessPendingKeys
<1>4. Stamps(GetChangesSince(d, 0, {})) \in SUBSET StampRow
  BY <1>3, GetChangesType, StampType DEF Stamps
<1>5. /\ db' = [db EXCEPT ![n] = d]
      /\ work' = [work EXCEPT ![n] = d]
      /\ seen' = [seen EXCEPT ![n] = @ \cup Stamps(GetChangesSince(d, 0, {}))]
      /\ UNCHANGED <<merging, batch, todo, net>>
  BY DEF Commit
<1> HIDE DEF d, d0
<1>6. db' \in [Node -> Database] /\ work' \in [Node -> Database]
  BY <1>3, <1>5 DEF TypeOK
<1>7. \A m \in Node : KeysUnique(db'[m]) /\ KeysUnique(work'[m])
  BY <1>3, <1>5 DEF TypeOK
<1>8. seen' \in [Node -> SUBSET StampRow]
  BY <1>4, <1>5 DEF TypeOK
<1> QED
  BY <1>5, <1>6, <1>7, <1>8 DEF TypeOK

LEMMA InsertRowShape ==
  ASSUME TypeOK, NEW n \in Node, InsertRow(n)
  PROVE  \E rows, pend :
           /\ rows \in SUBSET Row
           /\ WellFormed(pend)
           /\ \A a, b \in rows : a.rec = b.rec => a = b
           /\ Commit(n, rows, pend)
<1>1. PICK r \in Record, cells \in [Column -> UserCell] :
        Commit(n, RowsBut(db[n].rows, r) \cup {[rec |-> r, cells |-> cells]},
               [op : {"INSERT"}, rec : {r}, col : Column])
  BY DEF InsertRow
<1> DEFINE rows == RowsBut(db[n].rows, r) \cup {[rec |-> r, cells |-> cells]}
<1>2. db[n].rows \in SUBSET Row /\ KeysUnique(db[n])
  BY DEF TypeOK, Database
<1>3. rows \in SUBSET Row
  BY <1>2, UserCellAssumption DEF RowsBut, Row
<1>4. \A a, b \in rows : a.rec = b.rec => a = b
  BY <1>2 DEF RowsBut, KeysUnique
<1>5. WellFormed([op : {"INSERT"}, rec : {r}, col : Column])
  BY DEF WellFormed, Pending
<1> QED
  BY <1>1, <1>3, <1>4, <1>5

LEMMA UpdateRowShape ==
  ASSUME TypeOK, NEW n \in Node, UpdateRow(n)
  PROVE  \E rows, pend :
           /\ rows \in SUBSET Row
           /\ WellFormed(pend)
           /\ \A a, b \in rows : a.rec = b.rec => a = b
           /\ Commit(n, rows, pend)
<1>1. PICK row \in db[n].rows, cells \in [Column -> Cell] :
        Commit(n, RowsBut(db[n].rows, row.rec)
                    \cup {[rec |-> row.rec, cells |-> cells]},
               [op : {"UPDATE"}, rec : {row.rec},
                col : {c \in Column : cells[c] # row.cells[c]}])
  BY DEF UpdateRow
<1> DEFINE rows == RowsBut(db[n].rows, row.rec)
                     \cup {[rec |-> row.rec, cells |-> cells]}
<1>2. db[n].rows \in SUBSET Row /\ KeysUnique(db[n])
  BY DEF TypeOK, Database
<1>3. rows \in SUBSET Row
  BY <1>2 DEF RowsBut, Row
<1>4. \A a, b \in rows : a.rec = b.rec => a = b
  BY <1>2 DEF RowsBut, KeysUnique
<1>5. WellFormed([op : {"UPDATE"}, rec : {row.rec},
                  col : {c \in Column : cells[c] # row.cells[c]}])
  BY <1>2 DEF WellFormed, Pending, Row
<1> QED
  BY <1>1, <1>3, <1>4, <1>5

LEMMA DeleteRowShape ==
  ASSUME TypeOK, NEW n \in Node, DeleteRow(n)
  PROVE  \E rows, pend :
           /\ rows \in SUBSET Row
           /\ WellFormed(pend)
           /\ \A a, b \in rows : a.rec = b.rec => a = b
           /\ Commit(n, rows, pend)
<1>1. PICK r \in Record :
        Commit(n, RowsBut(db[n].rows, r),
               [op : {"DELETE"}, rec : {r}, col : {NoColumn}])
  BY DEF DeleteRow
<1>2. db[n].rows \in SUBSET Row /\ KeysUnique(db[n])
  BY DEF TypeOK, Database
<1>3. /\ RowsBut(db[n].rows, r) \in SUBSET Row
      /\ \A a, b \in RowsBut(db[n].rows, r) : a.rec = b.rec => a = b
  BY <1>2 DEF RowsBut, KeysUnique
<1>4. WellFormed([op : {"DELETE"}, rec : {r}, col : {NoColumn}])
  BY DEF WellFormed, Pending
<1> QED
  BY <1>1, <1>3, <1>4

LEMMA MergeShape ==
  ASSUME NEW n \in Node, MergeColumn(n) \/ MergeDeletion(n)
  PROVE  \E x \in todo[n] : \E d : MergedTo(work[n], x, d) /\ Merge(n, x, d)
BY DEF MergeColumn, MergeDeletion, MergedTo

\* CommitMerge advances the clock and nothing else.
LEMMA AdvancedType ==
  ASSUME NEW d \in Database
  PROVE  LET e == [d EXCEPT !.clock = @ + 1]
         IN  /\ e \in Database
             /\ KeysUnique(d) => KeysUnique(e)
             /\ Dominated(d) => Dominated(e)
BY DEF Database, KeysUnique, Dominated, VersionRow, TombRow

LEMMA TypeStep ==
  ASSUME TypeOK, [Next]_vars
  PROVE  TypeOK'
<1>1. CASE UNCHANGED vars
  BY <1>1 DEF TypeOK, vars
<1>2. CASE Lose
  BY <1>2 DEF TypeOK, Lose
<1>3. ASSUME NEW n \in Node, InsertRow(n) \/ UpdateRow(n) \/ DeleteRow(n)
      PROVE  TypeOK'
  BY <1>3, InsertRowShape, UpdateRowShape, DeleteRowShape, CommitType
<1>4. ASSUME NEW n \in Node, Send(n)
      PROVE  TypeOK'
  <2>1. PICK m, since, excluded :
          /\ m \in Node
          /\ net' = net \cup {[to |-> m, changes |->
                                GetChangesSince(db[n], since, excluded)]}
          /\ UNCHANGED <<db, merging, work, batch, todo, seen>>
    BY <1>4 DEF Send
  <2>2. GetChangesSince(db[n], since, excluded) \in SUBSET Change
    BY GetChangesType DEF TypeOK
  <2>3. net' \in SUBSET Batch
    BY <2>1, <2>2 DEF TypeOK, Batch
  <2> QED
    BY <2>1, <2>3 DEF TypeOK
<1>5. ASSUME NEW n \in Node, BeginMerge(n)
      PROVE  TypeOK'
  <2>1. PICK b \in net :
          /\ merging' = [merging EXCEPT ![n] = TRUE]
          /\ batch' = [batch EXCEPT ![n] = b.changes]
          /\ todo' = [todo EXCEPT ![n] = b.changes]
          /\ UNCHANGED <<db, work, net, seen>>
    BY <1>5 DEF BeginMerge
  <2>2. b.changes \in SUBSET Change
    BY DEF TypeOK, Batch
  <2> QED
    BY <2>1, <2>2 DEF TypeOK
<1>6. ASSUME NEW n \in Node, MergeColumn(n) \/ MergeDeletion(n)
      PROVE  TypeOK'
  <2>1. PICK x, d : x \in todo[n] /\ MergedTo(work[n], x, d) /\ Merge(n, x, d)
    BY <1>6, MergeShape
  <2>2. x \in Change /\ work[n] \in Database /\ KeysUnique(work[n])
    BY <2>1 DEF TypeOK
  <2>3. d \in Database /\ KeysUnique(d)
    BY <2>1, <2>2, MergedToType
  <2>4. /\ work' = [work EXCEPT ![n] = d]
        /\ todo' = [todo EXCEPT ![n] = @ \ {x}]
        /\ UNCHANGED <<db, merging, batch, net, seen>>
    BY <2>1 DEF Merge
  <2> QED
    BY <2>3, <2>4 DEF TypeOK
<1>7. ASSUME NEW n \in Node, CommitMerge(n)
      PROVE  TypeOK'
  <2> DEFINE d == [work[n] EXCEPT !.clock = @ + 1]
  <2>1. d \in Database /\ KeysUnique(d)
    BY AdvancedType DEF TypeOK
  <2>2. Stamps(batch[n]) \in SUBSET StampRow
    BY StampType DEF TypeOK, Stamps
  <2>3. /\ db' = [db EXCEPT ![n] = d]
        /\ work' = [work EXCEPT ![n] = d]
        /\ merging' = [merging EXCEPT ![n] = FALSE]
        /\ batch' = [batch EXCEPT ![n] = {}]
        /\ seen' = [seen EXCEPT ![n] = @ \cup Stamps(batch[n])]
        /\ UNCHANGED <<todo, net>>
    BY <1>7 DEF CommitMerge
  <2> HIDE DEF d
  <2> QED
    BY <2>1, <2>2, <2>3 DEF TypeOK
<1>8. ASSUME NEW n \in Node, AbortMerge(n)
      PROVE  TypeOK'
  BY <1>8 DEF AbortMerge, TypeOK
<1> QED
  BY <1>1, <1>2, <1>3, <1>4, <1>5, <1>6, <1>7, <1>8 DEF Next, NodeStep

LEMMA TypeInit ==
  ASSUME Init
  PROVE  TypeOK
BY DEF Init, TypeOK, EmptyDatabase, Database, KeysUnique

\* The tables, the batches and the open merges have their types, and no table
\* ever holds two rows with one primary key.
THEOREM TypeCorrect == Spec => []TypeOK
<1>1. Init => TypeOK
  BY TypeInit
<1>2. TypeOK /\ [Next]_vars => TypeOK'
  BY TypeStep
<1> QED
  BY <1>1, <1>2, PTL DEF Spec

-----------------------------------------------------------------------------
(* The clock of a replica covers its tables.                               *)

LEMMA CommitDominates ==
  ASSUME TypeOK, ClockDominates, NEW n \in Node, NEW rows \in SUBSET Row,
         NEW pend, Commit(n, rows, pend)
  PROVE  ClockDominates'
<1> DEFINE d0 == [db[n] EXCEPT !.rows = rows]
           d  == ProcessPending(d0, n, pend)
<1>1. d0 \in Database /\ Dominated(d0)
  BY DEF TypeOK, ClockDominates, Database, Dominated
<1>2. Dominated(d)
  BY <1>1, ProcessPendingDominated
<1>3. db' = [db EXCEPT ![n] = d] /\ work' = [work EXCEPT ![n] = d]
  BY DEF Commit
<1> HIDE DEF d
<1> QED
  BY <1>2, <1>3 DEF ClockDominates, TypeOK

LEMMA ClockStep ==
  ASSUME TypeOK, ClockDominates, [Next]_vars
  PROVE  ClockDominates'
<1>1. CASE UNCHANGED <<db, work>>
  BY <1>1 DEF ClockDominates
<1>2. ASSUME NEW n \in Node, InsertRow(n) \/ UpdateRow(n) \/ DeleteRow(n)
      PROVE  ClockDominates'
  BY <1>2, InsertRowShape, UpdateRowShape, DeleteRowShape, CommitDominates
<1>3. ASSUME NEW n \in Node, MergeColumn(n) \/ MergeDeletion(n)
      PROVE  ClockDominates'
  <2>1. PICK x, d : x \in todo[n] /\ MergedTo(work[n], x, d) /\ Merge(n, x, d)
    BY <1>3, MergeShape
  <2>2. Dominated(d)
    BY <2>1, MergedToType DEF TypeOK, ClockDominates
  <2> QED
    BY <2>1, <2>2 DEF Merge, ClockDominates, TypeOK
<1>4. ASSUME NEW n \in Node, CommitMerge(n)
      PROVE  ClockDominates'
  <2> DEFINE d == [work[n] EXCEPT !.clock = @ + 1]
  <2>1. Dominated(d)
    BY AdvancedType DEF TypeOK, ClockDominates
  <2>2. db' = [db EXCEPT ![n] = d] /\ work' = [work EXCEPT ![n] = d]
    BY <1>4 DEF CommitMerge
  <2> HIDE DEF d
  <2> QED
    BY <2>1, <2>2 DEF ClockDominates, TypeOK
<1>5. ASSUME NEW n \in Node, AbortMerge(n)
      PROVE  ClockDominates'
  BY <1>5 DEF AbortMerge, ClockDominates, TypeOK
<1> QED
  BY <1>1, <1>2, <1>3, <1>4, <1>5
  DEF Next, NodeStep, Lose, Send, BeginMerge, vars

\* No replica holds a db_version or local_db_version beyond its own clock.
THEOREM ClockCorrect == Spec => []ClockDominates
<1>1. Init => ClockDominates
  BY DEF Init, ClockDominates, EmptyDatabase, Dominated
<1>2. TypeOK /\ ClockDominates /\ [Next]_vars => ClockDominates'
  BY ClockStep
<1> QED
  BY <1>1, <1>2, TypeCorrect, PTL DEF Spec

-----------------------------------------------------------------------------
(* No stamp of a node lies beyond that node's clock.  The invariant needs  *)
(* that clocks only grow, which needs that an open merge never shows a     *)
(* clock behind the file's.                                                *)

WorkAhead == \A n \in Node : db[n].clock <= work[n].clock

LEMMA WorkAheadStep ==
  ASSUME TypeOK, WorkAhead, [Next]_vars
  PROVE  /\ WorkAhead'
         /\ \A n \in Node : db[n].clock <= db'[n].clock
<1> DEFINE Goal == /\ WorkAhead'
                   /\ \A n \in Node : db[n].clock <= db'[n].clock
<1>0. \A n \in Node : db[n].clock \in Nat /\ work[n].clock \in Nat
  BY DEF TypeOK, Database
<1>1. CASE UNCHANGED <<db, work>>
  BY <1>0, <1>1 DEF WorkAhead
<1>2. ASSUME NEW n \in Node, InsertRow(n) \/ UpdateRow(n) \/ DeleteRow(n)
      PROVE  Goal
  <2>1. PICK rows, pend : Commit(n, rows, pend)
    BY <1>2, InsertRowShape, UpdateRowShape, DeleteRowShape
  <2> DEFINE d == ProcessPending([db[n] EXCEPT !.rows = rows], n, pend)
  <2>2. d.clock = db[n].clock + 1
    BY DEF ProcessPending, TypeOK, Database
  <2>3. db' = [db EXCEPT ![n] = d] /\ work' = [work EXCEPT ![n] = d]
    BY <2>1 DEF Commit
  <2> HIDE DEF d
  <2> QED
    BY <1>0, <2>2, <2>3 DEF WorkAhead, TypeOK
<1>3. ASSUME NEW n \in Node, MergeColumn(n) \/ MergeDeletion(n)
      PROVE  Goal
  <2>1. PICK x, d : x \in todo[n] /\ MergedTo(work[n], x, d) /\ Merge(n, x, d)
    BY <1>3, MergeShape
  <2>2. x.dv \in Nat /\ x \in Change
    BY <2>1 DEF TypeOK, Change
  <2>3. Later(work[n].clock, x.dv) \in Nat
        /\ Later(work[n].clock, x.dv) >= work[n].clock
    BY <1>0, <2>2, LaterType
  <2>4. d.clock = Later(work[n].clock, x.dv)
    BY <2>1 DEF MergedTo, ColumnAccepted, DeletionAccepted, Rejected,
                TypeOK, Database
  <2>5. work' = [work EXCEPT ![n] = d] /\ db' = db
    BY <2>1 DEF Merge
  <2> QED
    BY <1>0, <2>3, <2>4, <2>5 DEF WorkAhead, TypeOK
<1>4. ASSUME NEW n \in Node, CommitMerge(n)
      PROVE  Goal
  <2> DEFINE d == [work[n] EXCEPT !.clock = @ + 1]
  <2>1. d.clock = work[n].clock + 1
    BY DEF TypeOK, Database
  <2>2. db' = [db EXCEPT ![n] = d] /\ work' = [work EXCEPT ![n] = d]
    BY <1>4 DEF CommitMerge
  <2> HIDE DEF d
  <2> QED
    BY <1>0, <2>1, <2>2 DEF WorkAhead, TypeOK
<1>5. ASSUME NEW n \in Node, AbortMerge(n)
      PROVE  Goal
  BY <1>0, <1>5 DEF AbortMerge, WorkAhead, TypeOK
<1> QED
  BY <1>1, <1>2, <1>3, <1>4, <1>5
  DEF Next, NodeStep, Lose, Send, BeginMerge, vars

\* What lies in the past of a node still does when clocks have grown.
LEMMA PastStays ==
  ASSUME TypeOK, WorkAhead, [Next]_vars,
         NEW x, x.node \in Node, x.dv \in Nat, Past(x)
  PROVE  Past(x)'
<1>1. db[x.node].clock <= db'[x.node].clock
  BY WorkAheadStep
<1>2. db[x.node].clock \in Nat /\ db'[x.node].clock \in Nat
  BY TypeStep DEF TypeOK, Database
<1> QED
  BY <1>1, <1>2 DEF Past

\* So all the stamps that a step only carries along stay in the past.
LEMMA AllPastStays ==
  ASSUME TypeOK, WorkAhead, StampsFromThePast, [Next]_vars
  PROVE  /\ \A n \in Node :
              /\ \A v \in db[n].versions \cup work[n].versions : Past(v)'
              /\ \A t \in db[n].tombs \cup work[n].tombs : Past(t)'
              /\ \A x \in batch[n] \cup todo[n] \cup seen[n] : Past(x)'
         /\ \A b \in net : \A x \in b.changes : Past(x)'
<1>1. ASSUME NEW n \in Node
      PROVE  /\ \A v \in db[n].versions \cup work[n].versions : Past(v)'
             /\ \A t \in db[n].tombs \cup work[n].tombs : Past(t)'
             /\ \A x \in batch[n] \cup todo[n] \cup seen[n] : Past(x)'
  <2>1. /\ db[n].versions \cup work[n].versions \in SUBSET VersionRow
        /\ db[n].tombs \cup work[n].tombs \in SUBSET TombRow
        /\ batch[n] \cup todo[n] \in SUBSET Change
        /\ seen[n] \in SUBSET StampRow
    BY DEF TypeOK, Database
  <2>2. \A v \in db[n].versions \cup work[n].versions : Past(v)'
    BY <2>1, PastStays DEF StampsFromThePast, TablesPast, VersionRow
  <2>3. \A t \in db[n].tombs \cup work[n].tombs : Past(t)'
    BY <2>1, PastStays DEF StampsFromThePast, TablesPast, TombRow
  <2>4. \A x \in batch[n] \cup todo[n] \cup seen[n] : Past(x)'
    BY <2>1, PastStays DEF StampsFromThePast, Change, StampRow
  <2> QED
    BY <2>2, <2>3, <2>4
<1>2. \A b \in net : \A x \in b.changes : x \in Change
  BY DEF TypeOK, Batch
<1>3. \A b \in net : \A x \in b.changes : Past(x)'
  BY <1>2, PastStays DEF StampsFromThePast, Change
<1> QED
  BY <1>1, <1>3

\* Whatever get_changes_since reads carries a stamp of the tables.
LEMMA ChangesCarryStamps ==
  ASSUME NEW d, NEW since, NEW excluded,
         NEW x \in GetChangesSince(d, since, excluded)
  PROVE  \E y \in d.versions \cup d.tombs : x.dv = y.dv /\ x.node = y.node
BY DEF GetChangesSince, Fresh, ColumnChange, Deletion

LEMMA CommitPast ==
  ASSUME TypeOK, WorkAhead, StampsFromThePast, [Next]_vars,
         NEW n \in Node, NEW rows, NEW pend, Commit(n, rows, pend)
  PROVE  StampsFromThePast'
<1> DEFINE d0 == [db[n] EXCEPT !.rows = rows]
           d  == ProcessPending(d0, n, pend)
<1>1. /\ db' = [db EXCEPT ![n] = d]
      /\ work' = [work EXCEPT ![n] = d]
      /\ seen' = [seen EXCEPT ![n] = @ \cup Stamps(GetChangesSince(d, 0, {}))]
      /\ UNCHANGED <<merging, batch, todo, net>>
  BY DEF Commit
<1>2. /\ d0.versions = db[n].versions
      /\ d0.tombs = db[n].tombs
      /\ d0.clock = db[n].clock
      /\ db[n].clock \in Nat
  BY DEF TypeOK, Database
<1>3. /\ \A v \in d.versions :
           v \in db[n].versions \/ (v.dv = d.clock /\ v.node = n)
      /\ \A t \in d.tombs : t \in db[n].tombs \/ (t.dv = d.clock /\ t.node = n)
      /\ d.clock \in Nat
  <2>1. d = ProcessPending(d0, n, pend)
    OBVIOUS
  <2> HIDE DEF d, d0
  <2> QED
    BY <1>2, <2>1, ProcessPendingNew
<1> HIDE DEF d, d0
<1>4. db'[n] = d /\ work'[n] = d
  BY <1>1 DEF TypeOK
<1>5. \A y : y.dv = d.clock /\ y.node = n => Past(y)'
  BY <1>3, <1>4 DEF Past
<1>6. (\A v \in d.versions : Past(v)') /\ (\A t \in d.tombs : Past(t)')
  BY <1>3, <1>5, AllPastStays
<1>7. \A s \in Stamps(GetChangesSince(d, 0, {})) : Past(s)'
  <2> TAKE s \in Stamps(GetChangesSince(d, 0, {}))
  <2>1. PICK x \in GetChangesSince(d, 0, {}) : s = Stamp(x)
    BY DEF Stamps
  <2>2. PICK y \in d.versions \cup d.tombs : x.dv = y.dv /\ x.node = y.node
    BY ChangesCarryStamps
  <2> QED
    BY <2>1, <2>2, <1>6 DEF Past, Stamp
<1>8. \A m \in Node : TablesPast(db[m])' /\ TablesPast(work[m])'
  BY <1>1, <1>4, <1>6, AllPastStays DEF TablesPast, TypeOK
<1>9. \A m \in Node : /\ \A x \in batch'[m] : Past(x)'
                      /\ \A x \in todo'[m] : Past(x)'
                      /\ \A s \in seen'[m] : Past(s)'
  BY <1>1, <1>7, AllPastStays DEF TypeOK
<1> QED
  BY <1>1, <1>8, <1>9, AllPastStays DEF StampsFromThePast

LEMMA PastStep ==
  ASSUME TypeOK, WorkAhead, StampsFromThePast, [Next]_vars
  PROVE  StampsFromThePast'
<1>1. CASE UNCHANGED vars
  BY <1>1 DEF StampsFromThePast, TablesPast, Past, vars
<1>2. CASE Lose
  BY <1>2, AllPastStays DEF Lose, StampsFromThePast, TablesPast
<1>3. ASSUME NEW n \in Node, InsertRow(n) \/ UpdateRow(n) \/ DeleteRow(n)
      PROVE  StampsFromThePast'
  BY <1>3, InsertRowShape, UpdateRowShape, DeleteRowShape, CommitPast
<1>4. ASSUME NEW n \in Node, Send(n)
      PROVE  StampsFromThePast'
  <2>1. PICK m, since, excluded :
          /\ m \in Node
          /\ net' = net \cup {[to |-> m, changes |->
                                GetChangesSince(db[n], since, excluded)]}
          /\ UNCHANGED <<db, merging, work, batch, todo, seen>>
    BY <1>4 DEF Send
  <2>2. \A x \in GetChangesSince(db[n], since, excluded) : Past(x)'
    <3> TAKE x \in GetChangesSince(db[n], since, excluded)
    <3>1. PICK y \in db[n].versions \cup db[n].tombs :
            x.dv = y.dv /\ x.node = y.node
      BY ChangesCarryStamps
    <3> QED
      BY <3>1, AllPastStays DEF Past
  <2> QED
    BY <2>1, <2>2, AllPastStays DEF StampsFromThePast, TablesPast
<1>5. ASSUME NEW n \in Node, BeginMerge(n)
      PROVE  StampsFromThePast'
  <2>1. PICK b \in net :
          /\ batch' = [batch EXCEPT ![n] = b.changes]
          /\ todo' = [todo EXCEPT ![n] = b.changes]
          /\ UNCHANGED <<db, work, net, seen>>
    BY <1>5 DEF BeginMerge
  <2> QED
    BY <2>1, AllPastStays DEF StampsFromThePast, TablesPast, TypeOK
<1>6. ASSUME NEW n \in Node, MergeColumn(n) \/ MergeDeletion(n)
      PROVE  StampsFromThePast'
  <2>1. PICK x, d : x \in todo[n] /\ MergedTo(work[n], x, d) /\ Merge(n, x, d)
    BY <1>6, MergeShape
  <2>2. /\ work' = [work EXCEPT ![n] = d]
        /\ todo' = [todo EXCEPT ![n] = @ \ {x}]
        /\ UNCHANGED <<db, merging, batch, net, seen>>
    BY <2>1 DEF Merge
  <2>3. /\ \A v \in d.versions :
             v \in work[n].versions \/ (v.dv = x.dv /\ v.node = x.node)
        /\ \A t \in d.tombs :
             t \in work[n].tombs \/ (t.dv = x.dv /\ t.node = x.node)
    BY <2>1 DEF MergedTo, ColumnAccepted, DeletionAccepted, Rejected,
                WithVersion, WithTombstone, TypeOK, Database
  <2>4. \A y : y.dv = x.dv /\ y.node = x.node => Past(y)'
    BY <2>1, AllPastStays DEF Past
  <2>5. (\A v \in d.versions : Past(v)') /\ (\A t \in d.tombs : Past(t)')
    BY <2>3, <2>4, AllPastStays
  <2>6. \A m \in Node : TablesPast(db[m])' /\ TablesPast(work[m])'
    BY <2>2, <2>5, AllPastStays DEF TablesPast, TypeOK
  <2> QED
    BY <2>2, <2>6, AllPastStays DEF StampsFromThePast, TypeOK
<1>7. ASSUME NEW n \in Node, CommitMerge(n)
      PROVE  StampsFromThePast'
  <2> DEFINE d == [work[n] EXCEPT !.clock = @ + 1]
  <2>1. /\ db' = [db EXCEPT ![n] = d]
        /\ work' = [work EXCEPT ![n] = d]
        /\ batch' = [batch EXCEPT ![n] = {}]
        /\ seen' = [seen EXCEPT ![n] = @ \cup Stamps(batch[n])]
        /\ UNCHANGED <<todo, net>>
    BY <1>7 DEF CommitMerge
  <2>2. d.versions = work[n].versions /\ d.tombs = work[n].tombs
    BY DEF TypeOK, Database
  <2> HIDE DEF d
  <2>3. \A s \in Stamps(batch[n]) : Past(s)'
    BY AllPastStays DEF Stamps, Stamp, Past
  <2>4. \A m \in Node : TablesPast(db[m])' /\ TablesPast(work[m])'
    BY <2>1, <2>2, AllPastStays DEF TablesPast, TypeOK
  <2> QED
    BY <2>1, <2>3, <2>4, AllPastStays DEF StampsFromThePast, TypeOK
<1>8. ASSUME NEW n \in Node, AbortMerge(n)
      PROVE  StampsFromThePast'
  BY <1>8, AllPastStays DEF AbortMerge, StampsFromThePast, TablesPast, TypeOK
<1> QED
  BY <1>1, <1>2, <1>3, <1>4, <1>5, <1>6, <1>7, <1>8 DEF Next, NodeStep

\* Every stamp of a node, anywhere in the system, is in the past of that
\* node's clock: the stamp of its next transaction is new everywhere.
THEOREM StampsCorrect == Spec => []StampsFromThePast
<1>1. Init => WorkAhead /\ StampsFromThePast
  BY DEF Init, WorkAhead, StampsFromThePast, TablesPast, EmptyDatabase
<1>2. TypeOK /\ WorkAhead /\ StampsFromThePast /\ [Next]_vars
        => WorkAhead' /\ StampsFromThePast'
  BY WorkAheadStep, PastStep
<1> QED
  BY <1>1, <1>2, TypeCorrect, PTL DEF Spec

-----------------------------------------------------------------------------
(* The merge is a join.  The invariant says of the file what it says of an *)
(* open merge: its view holds the newest of what the replica had seen and  *)
(* of the changes the loop has passed.                                     *)

TombsSeen(d, stamps) == \A t \in d.tombs : DeletionIn(stamps, t.rec)

MergeShapes ==
  \A n \in Node : /\ todo[n] \subseteq batch[n]
                  /\ ~ merging[n] => work[n] = db[n] /\ batch[n] = {}

Passed(n) == seen[n] \cup Stamps(batch[n] \ todo[n])

Joined(d, stamps) == Newest(d, stamps) /\ TombsSeen(d, stamps)

JoinInv ==
  /\ MergeShapes
  /\ \A n \in Node : Joined(db[n], seen[n]) /\ Joined(work[n], Passed(n))

LEMMA MergedNewest ==
  ASSUME NEW d \in Database, NEW x \in Change, NEW S \in SUBSET StampRow,
         Joined(d, S), NEW e, MergedTo(d, x, e)
  PROVE  Joined(e, S \cup {Stamp(x)})
<1> DEFINE T == S \cup {Stamp(x)}
<1> SUFFICES Newest(d, S) /\ TombsSeen(d, S)
               => Newest(e, T) /\ TombsSeen(e, T)
  BY DEF Joined
<1> HAVE Newest(d, S) /\ TombsSeen(d, S)
<1>0. /\ x.cv \in Nat /\ x.dv \in Nat /\ x.node \in Nat
      /\ \A v \in d.versions : v.cv \in Nat /\ v.dv \in Nat /\ v.node \in Nat
      /\ \A s \in S : s.cv \in Nat /\ s.dv \in Nat /\ s.node \in Nat
  BY NodeAssumption DEF Change, Database, VersionRow, StampRow
<1>1. /\ Stamp(x).rec = x.rec /\ Stamp(x).col = x.col /\ Stamp(x).cv = x.cv
      /\ Stamp(x).dv = x.dv /\ Stamp(x).node = x.node
  BY DEF Stamp
<1>2. \A r : ~ DeletionIn(T, r) => ~ DeletionIn(S, r)
  BY DEF DeletionIn
<1>3. TombsSeen(d, T)
  BY DEF TombsSeen, DeletionIn
<1>4. CASE x.col # NoColumn /\ Accepts(d, x) /\ e = ColumnAccepted(d, x)
  <2> DEFINE y == [rec |-> x.rec, col |-> x.col, cv |-> x.cv, dv |-> x.dv,
                   node |-> x.node, local |-> Later(d.clock, x.dv)]
  <2>1. /\ e.tombs = d.tombs
        /\ e.versions = {v \in d.versions : ~ SameKey(v, x)} \cup {y}
    BY <1>4 DEF ColumnAccepted, WithVersion
  <2>2. /\ y.rec = x.rec /\ y.col = x.col /\ y.cv = x.cv
        /\ y.dv = x.dv /\ y.node = x.node /\ Stamp(y) = Stamp(x)
    BY DEF Stamp
  <2> HIDE DEF y
  <2>3. \A v \in e.versions : Stamp(v) \in T
    BY <2>1, <2>2 DEF Newest
  <2>4. AtLeast(y, Stamp(x)) /\ SameKey(y, Stamp(x))
    BY <1>0, <1>1, <2>2 DEF AtLeast, SameKey
  <2>5. ASSUME NEW s \in S, ~ DeletionIn(T, s.rec)
        PROVE  \E v \in e.versions : SameKey(v, s) /\ AtLeast(v, s)
    <3>1. PICK v \in d.versions : SameKey(v, s) /\ AtLeast(v, s)
      BY <1>2, <2>5 DEF Newest
    <3>2. CASE ~ SameKey(v, x)
      BY <2>1, <3>1, <3>2
    <3>3. CASE SameKey(v, x)
      <4>1. RemoteWins(x, v)
        BY <1>4, <3>3 DEF Accepts
      <4>2. AtLeast(y, v)
        BY <2>2, <4>1 DEF RemoteWins, AtLeast
      <4>3. AtLeast(y, s)
        BY <1>0, <2>2, <3>1, <4>2, AtLeastTransitive
      <4>4. SameKey(y, s)
        BY <2>2, <3>1, <3>3 DEF SameKey
      <4> QED
        BY <2>1, <4>3, <4>4
    <3> QED
      BY <3>2, <3>3
  <2>6. Newest(e, T)
    BY <2>1, <2>3, <2>4, <2>5 DEF Newest
  <2> QED
    BY <1>3, <2>1, <2>6 DEF TombsSeen
<1>5. CASE x.col = NoColumn /\ e = DeletionAccepted(d, x)
  <2>1. /\ e.versions = d.versions
        /\ \A t \in e.tombs : t \in d.tombs \/ t.rec = x.rec
    BY <1>5 DEF DeletionAccepted, WithTombstone
  <2>2. DeletionIn(T, x.rec)
    BY <1>1, <1>5 DEF DeletionIn
  <2>3. TombsSeen(e, T)
    BY <1>3, <2>1, <2>2 DEF TombsSeen
  <2>4. Newest(e, T)
    BY <1>1, <1>2, <2>1, <2>2 DEF Newest
  <2> QED
    BY <2>3, <2>4
<1>6. CASE /\ x.col # NoColumn => ~ Accepts(d, x)
           /\ x.col = NoColumn => IsTombstoned(d, x)
           /\ e = Rejected(d, x)
  <2>1. e.versions = d.versions /\ e.tombs = d.tombs
    BY <1>6, RejectedType
  <2>2. ASSUME ~ DeletionIn(T, x.rec)
        PROVE  \E v \in d.versions : SameKey(v, Stamp(x)) /\ AtLeast(v, Stamp(x))
    <3>1. x.col # NoColumn
      BY <1>1, <2>2 DEF DeletionIn
    <3>2. ~ IsTombstoned(d, x)
      BY <1>3, <2>2 DEF IsTombstoned, TombsSeen
    <3>3. PICK v \in d.versions : SameKey(v, x) /\ ~ RemoteWins(x, v)
      BY <1>6, <3>1, <3>2 DEF Accepts
    <3>4. AtLeast(v, x)
      BY <1>0, <3>3, LoserNotGreater
    <3> QED
      BY <1>1, <3>3, <3>4 DEF SameKey, AtLeast
  <2>3. Newest(e, T)
    BY <1>1, <1>2, <2>1, <2>2 DEF Newest
  <2> QED
    BY <1>3, <2>1, <2>3 DEF TombsSeen
<1> QED
  BY <1>4, <1>5, <1>6 DEF MergedTo

\* A transaction of the user: its stamps are all the tables gain.
LEMMA CommitNewest ==
  ASSUME NEW d \in Database, KeysUnique(d), Dominated(d), NEW n \in Node,
         NEW pend, WellFormed(pend), NEW S \in SUBSET StampRow,
         Joined(d, S), NEW e, e = ProcessPending(d, n, pend)
  PROVE  Joined(e, S \cup Stamps(GetChangesSince(e, 0, {})))
<1> DEFINE G == GetChangesSince(e, 0, {})
           T == S \cup Stamps(G)
<1> SUFFICES Newest(d, S) /\ TombsSeen(d, S)
               => Newest(e, T) /\ TombsSeen(e, T)
  BY DEF Joined
<1> HAVE Newest(d, S) /\ TombsSeen(d, S)
<1>0. /\ e \in Database
      /\ d.clock \in Nat
      /\ \A v \in e.versions \cup d.versions :
           v.cv \in Nat /\ v.dv \in Nat /\ v.node \in Nat
      /\ \A s \in S : s.cv \in Nat /\ s.dv \in Nat /\ s.node \in Nat
  <2>1. e \in Database
    BY ProcessPendingType
  <2> QED
    BY <2>1, NodeAssumption DEF Database, VersionRow, StampRow
<1>1. ASSUME NEW v \in e.versions
      PROVE  Stamp(v) \in T
  <2>1. CASE v \in d.versions
    BY <2>1 DEF Newest
  <2>2. CASE v \notin d.versions
    <3>1. v.local = d.clock + 1
      BY <2>2 DEF ProcessPending, NextVersion
    <3>2. ColumnChange(e.rows, v) \in G
      BY <1>0, <3>1 DEF GetChangesSince, Fresh
    <3>3. Stamp(ColumnChange(e.rows, v)) = Stamp(v)
      BY DEF Stamp, ColumnChange
    <3> QED
      BY <3>2, <3>3 DEF Stamps
  <2> QED
    BY <2>1, <2>2
<1>2. ASSUME NEW t \in e.tombs
      PROVE  DeletionIn(T, t.rec)
  <2>1. CASE t \in d.tombs
    BY <2>1 DEF TombsSeen, DeletionIn
  <2>2. CASE t \notin d.tombs
    <3>1. t.local = d.clock + 1
      BY <2>2 DEF ProcessPending, NextTombstone
    <3>2. Deletion(t) \in G
      BY <1>0, <3>1 DEF GetChangesSince, Fresh
    <3>3. Stamp(Deletion(t)).rec = t.rec /\ Stamp(Deletion(t)).col = NoColumn
      BY DEF Stamp, Deletion
    <3> QED
      BY <3>2, <3>3 DEF Stamps, DeletionIn
  <2> QED
    BY <2>1, <2>2
<1>3. ASSUME NEW s \in T, ~ DeletionIn(T, s.rec)
      PROVE  \E v \in e.versions : SameKey(v, s) /\ AtLeast(v, s)
  <2>1. CASE s \in S
    <3>1. ~ DeletionIn(S, s.rec)
      BY <1>3 DEF DeletionIn
    <3>2. PICK v \in d.versions : SameKey(v, s) /\ AtLeast(v, s)
      BY <2>1, <3>1 DEF Newest
    <3>3. \A t \in e.tombs : t.rec # v.rec
      BY <1>2, <1>3, <3>2 DEF SameKey
    <3>4. PICK u \in e.versions : SameKey(u, v) /\ AtLeast(u, v)
      BY <3>3, ProcessPendingKeeps
    <3>5. AtLeast(u, s)
      BY <1>0, <2>1, <3>2, <3>4, AtLeastTransitive
    <3>6. SameKey(u, s)
      BY <3>2, <3>4 DEF SameKey
    <3> QED
      BY <3>5, <3>6
  <2>2. CASE s \in Stamps(G)
    <3>1. PICK x \in G : s = Stamp(x)
      BY <2>2 DEF Stamps
    <3>2. CASE \E v \in e.versions : x = ColumnChange(e.rows, v)
      <4>1. PICK v \in e.versions : x = ColumnChange(e.rows, v)
        BY <3>2
      <4>2. /\ s.rec = v.rec /\ s.col = v.col /\ s.cv = v.cv
            /\ s.dv = v.dv /\ s.node = v.node
        BY <3>1, <4>1 DEF Stamp, ColumnChange
      <4> QED
        BY <1>0, <4>2 DEF SameKey, AtLeast
    <3>3. CASE \E t \in e.tombs : x = Deletion(t)
      <4>1. s.col = NoColumn
        BY <3>1, <3>3 DEF Stamp, Deletion
      <4> QED
        BY <1>3, <4>1 DEF DeletionIn
    <3> QED
      BY <3>2, <3>3 DEF GetChangesSince, Fresh
  <2> QED
    BY <2>1, <2>2
<1> QED
  BY <1>1, <1>2, <1>3 DEF Newest, TombsSeen

LEMMA SameTablesJoined ==
  ASSUME NEW d, NEW e, NEW S, Joined(d, S),
         e.versions = d.versions, e.tombs = d.tombs
  PROVE  Joined(e, S)
BY DEF Joined, Newest, TombsSeen

LEMMA JoinStep ==
  ASSUME TypeOK, ClockDominates, JoinInv, [Next]_vars
  PROVE  JoinInv'
<1>0. \A m \in Node : /\ seen[m] \in SUBSET StampRow
                      /\ Passed(m) \in SUBSET StampRow
                      /\ db[m] \in Database /\ work[m] \in Database
  BY StampType DEF TypeOK, Stamps, Passed
<1>1. Stamps({}) = {}
  BY DEF Stamps
<1>2. CASE UNCHANGED <<db, merging, work, batch, todo, seen>>
  BY <1>2 DEF JoinInv, MergeShapes, Passed
<1>3. ASSUME NEW n \in Node, InsertRow(n) \/ UpdateRow(n) \/ DeleteRow(n)
      PROVE  JoinInv'
  <2>1. PICK rows, pend :
          /\ rows \in SUBSET Row
          /\ WellFormed(pend)
          /\ \A a, b \in rows : a.rec = b.rec => a = b
          /\ Commit(n, rows, pend)
    BY <1>3, InsertRowShape, UpdateRowShape, DeleteRowShape
  <2> DEFINE f == [db[n] EXCEPT !.rows = rows]
             d == ProcessPending(f, n, pend)
             G == Stamps(GetChangesSince(d, 0, {}))
  <2>2. f \in Database /\ f.versions = db[n].versions
        /\ f.tombs = db[n].tombs /\ f.clock = db[n].clock /\ f.rows = rows
    BY <1>0, <2>1 DEF Database
  <2>3. KeysUnique(f) /\ Dominated(f) /\ Joined(f, seen[n])
    BY <2>1, <2>2, SameTablesJoined
    DEF TypeOK, KeysUnique, ClockDominates, Dominated, JoinInv
  <2> HIDE DEF f
  <2>4. Joined(d, seen[n] \cup G)
    BY <1>0, <2>1, <2>2, <2>3, CommitNewest
  <2>5. /\ db' = [db EXCEPT ![n] = d]
        /\ work' = [work EXCEPT ![n] = d]
        /\ seen' = [seen EXCEPT ![n] = @ \cup G]
        /\ UNCHANGED <<merging, batch, todo, net>>
        /\ ~ merging[n]
    BY <2>1 DEF Commit, f
  <2> HIDE DEF d, G
  <2>6. batch[n] = {} /\ Passed(n)' = seen'[n]
    BY <1>1, <2>5 DEF JoinInv, MergeShapes, Passed
  <2>7. \A m \in Node : m # n => Passed(m)' = Passed(m)
    BY <2>5 DEF Passed, TypeOK
  <2>8. MergeShapes'
    BY <2>5, <2>6 DEF JoinInv, MergeShapes, TypeOK
  <2>9. \A m \in Node : Joined(db'[m], seen'[m]) /\ Joined(work'[m], Passed(m)')
    BY <2>4, <2>5, <2>6, <2>7 DEF JoinInv, TypeOK
  <2> QED
    BY <2>8, <2>9 DEF JoinInv
<1>4. ASSUME NEW n \in Node, BeginMerge(n)
      PROVE  JoinInv'
  <2>1. PICK b \in net :
          /\ ~ merging[n]
          /\ merging' = [merging EXCEPT ![n] = TRUE]
          /\ batch' = [batch EXCEPT ![n] = b.changes]
          /\ todo' = [todo EXCEPT ![n] = b.changes]
          /\ UNCHANGED <<db, work, net, seen>>
    BY <1>4 DEF BeginMerge
  <2>2. batch'[n] \ todo'[n] = {}
    BY <2>1 DEF TypeOK
  <2>3. Passed(n)' = seen[n] /\ work[n] = db[n]
    BY <1>1, <2>1, <2>2 DEF JoinInv, MergeShapes, Passed
  <2>4. \A m \in Node : m # n => Passed(m)' = Passed(m)
    BY <2>1 DEF Passed, TypeOK
  <2>5. MergeShapes'
    BY <2>1 DEF JoinInv, MergeShapes, TypeOK
  <2> QED
    BY <2>1, <2>3, <2>4, <2>5 DEF JoinInv
<1>5. ASSUME NEW n \in Node, MergeColumn(n) \/ MergeDeletion(n)
      PROVE  JoinInv'
  <2>1. PICK x, d : x \in todo[n] /\ MergedTo(work[n], x, d) /\ Merge(n, x, d)
    BY <1>5, MergeShape
  <2>2. /\ work' = [work EXCEPT ![n] = d]
        /\ todo' = [todo EXCEPT ![n] = @ \ {x}]
        /\ UNCHANGED <<db, merging, batch, net, seen>>
    BY <2>1 DEF Merge
  <2>3. x \in Change /\ x \in batch[n]
    BY <2>1 DEF TypeOK, JoinInv, MergeShapes
  <2>4. Joined(d, Passed(n) \cup {Stamp(x)})
    BY <1>0, <2>1, <2>3, MergedNewest DEF JoinInv
  <2>5. batch'[n] \ todo'[n] = (batch[n] \ todo[n]) \cup {x}
    BY <2>2, <2>3 DEF TypeOK
  <2>6. Passed(n)' = Passed(n) \cup {Stamp(x)}
    BY <2>2, <2>5 DEF Passed, Stamps
  <2>7. \A m \in Node : m # n => Passed(m)' = Passed(m)
    BY <2>2 DEF Passed, TypeOK
  <2>8. merging[n]
    BY <2>3 DEF JoinInv, MergeShapes
  <2>9. MergeShapes'
    BY <2>2, <2>8 DEF JoinInv, MergeShapes, TypeOK
  <2> QED
    BY <2>2, <2>4, <2>6, <2>7, <2>9 DEF JoinInv, TypeOK
<1>6. ASSUME NEW n \in Node, CommitMerge(n)
      PROVE  JoinInv'
  <2> DEFINE d == [work[n] EXCEPT !.clock = @ + 1]
  <2>1. /\ todo[n] = {}
        /\ db' = [db EXCEPT ![n] = d]
        /\ work' = [work EXCEPT ![n] = d]
        /\ merging' = [merging EXCEPT ![n] = FALSE]
        /\ batch' = [batch EXCEPT ![n] = {}]
        /\ seen' = [seen EXCEPT ![n] = @ \cup Stamps(batch[n])]
        /\ UNCHANGED <<todo, net>>
    BY <1>6 DEF CommitMerge
  <2>2. d.versions = work[n].versions /\ d.tombs = work[n].tombs
    BY <1>0 DEF Database
  <2> HIDE DEF d
  <2>3. Passed(n) = seen'[n]
    BY <2>1 DEF Passed, TypeOK
  <2>4. Joined(d, seen'[n])
    BY <2>2, <2>3, SameTablesJoined DEF JoinInv
  <2>5. Passed(n)' = seen'[n]
    BY <1>1, <2>1 DEF Passed, TypeOK
  <2>6. \A m \in Node : m # n => Passed(m)' = Passed(m)
    BY <2>1 DEF Passed, TypeOK
  <2>7. MergeShapes'
    BY <2>1 DEF JoinInv, MergeShapes, TypeOK
  <2>8. \A m \in Node : Joined(db'[m], seen'[m]) /\ Joined(work'[m], Passed(m)')
    BY <2>1, <2>4, <2>5, <2>6 DEF JoinInv, TypeOK
  <2> QED
    BY <2>7, <2>8 DEF JoinInv
<1>7. ASSUME NEW n \in Node, AbortMerge(n)
      PROVE  JoinInv'
  <2>1. /\ merging' = [merging EXCEPT ![n] = FALSE]
        /\ work' = [work EXCEPT ![n] = db[n]]
        /\ batch' = [batch EXCEPT ![n] = {}]
        /\ todo' = [todo EXCEPT ![n] = {}]
        /\ UNCHANGED <<db, net, seen>>
    BY <1>7 DEF AbortMerge
  <2>2. Passed(n)' = seen[n]
    BY <1>1, <2>1 DEF Passed, TypeOK
  <2>3. \A m \in Node : m # n => Passed(m)' = Passed(m)
    BY <2>1 DEF Passed, TypeOK
  <2>4. MergeShapes'
    BY <2>1 DEF JoinInv, MergeShapes, TypeOK
  <2> QED
    BY <2>1, <2>2, <2>3, <2>4 DEF JoinInv, TypeOK
<1> QED
  BY <1>2, <1>3, <1>4, <1>5, <1>6, <1>7
  DEF Next, NodeStep, Lose, Send, vars

\* The merge is a join, for any number of nodes, records and columns: each
\* replica holds exactly the greatest versions of what it wrote or merged.
THEOREM NewestCorrect == Spec => []HoldsNewest
<1>1. Init => JoinInv
  BY DEF Init, JoinInv, MergeShapes, Joined, Newest, TombsSeen, Passed, Stamps,
         EmptyDatabase
<1>2. TypeOK /\ ClockDominates /\ JoinInv /\ [Next]_vars => JoinInv'
  BY JoinStep
<1>3. JoinInv => HoldsNewest
  BY DEF JoinInv, Joined, HoldsNewest
<1> QED
  BY <1>1, <1>2, <1>3, TypeCorrect, ClockCorrect, PTL DEF Spec

-----------------------------------------------------------------------------
(* Tombstones and versions only advance.  An open merge has advanced them  *)
(* from the file's, and one more iteration of its loop advances them more. *)

Kept(d, e) == TombsKept(d, e) /\ VersionsKept(d, e)

GrownInv == \A n \in Node : Grown(db[n], work[n])

LEMMA GrownIsKept ==
  ASSUME NEW d, NEW e, Grown(d, e)
  PROVE  Kept(d, e)
BY DEF Grown, Kept, VersionsGrown, VersionsKept

LEMMA GrownStep ==
  ASSUME TypeOK, ClockDominates, MergeShapes, GrownInv, [Next]_vars
  PROVE  GrownInv' /\ \A n \in Node : Kept(db[n], db'[n])
<1> DEFINE Goal == GrownInv' /\ \A n \in Node : Kept(db[n], db'[n])
<1>0. \A m \in Node : /\ db[m] \in Database /\ work[m] \in Database
                      /\ db'[m] \in Database /\ work'[m] \in Database
                      /\ Grown(db[m], db[m]) /\ Kept(db[m], db[m])
  BY TypeStep, GrownReflexive, GrownIsKept DEF TypeOK
<1>1. CASE UNCHANGED <<db, work>>
  BY <1>0, <1>1 DEF GrownInv
<1>2. ASSUME NEW n \in Node, InsertRow(n) \/ UpdateRow(n) \/ DeleteRow(n)
      PROVE  Goal
  <2>1. PICK rows, pend :
          /\ rows \in SUBSET Row
          /\ WellFormed(pend)
          /\ \A a, b \in rows : a.rec = b.rec => a = b
          /\ Commit(n, rows, pend)
    BY <1>2, InsertRowShape, UpdateRowShape, DeleteRowShape
  <2> DEFINE f == [db[n] EXCEPT !.rows = rows]
             d == ProcessPending(f, n, pend)
  <2>2. f \in Database /\ f.versions = db[n].versions
        /\ f.tombs = db[n].tombs /\ f.clock = db[n].clock /\ f.rows = rows
    BY <1>0, <2>1 DEF Database
  <2>3. KeysUnique(f) /\ Dominated(f)
    BY <2>1, <2>2 DEF TypeOK, KeysUnique, ClockDominates, Dominated
  <2> HIDE DEF f
  <2>4. Kept(f, d)
    BY <2>1, <2>2, <2>3, CommitKept DEF Kept
  <2>5. Kept(db[n], d)
    BY <2>2, <2>4 DEF Kept, TombsKept, VersionsKept
  <2>6. db' = [db EXCEPT ![n] = d] /\ work' = [work EXCEPT ![n] = d]
    BY <2>1 DEF Commit, f
  <2> HIDE DEF d
  <2>7. db'[n] = d /\ work'[n] = d
    BY <2>6 DEF TypeOK
  <2>8. Grown(d, d)
    BY <1>0, <2>7, GrownReflexive
  <2> QED
    BY <1>0, <2>5, <2>6, <2>7, <2>8 DEF GrownInv, TypeOK
<1>3. ASSUME NEW n \in Node, MergeColumn(n) \/ MergeDeletion(n)
      PROVE  Goal
  <2>1. PICK x, d : x \in todo[n] /\ MergedTo(work[n], x, d) /\ Merge(n, x, d)
    BY <1>3, MergeShape
  <2>2. x \in Change
    BY <2>1 DEF TypeOK
  <2>3. work' = [work EXCEPT ![n] = d] /\ db' = db
    BY <2>1 DEF Merge
  <2>4. work'[n] = d
    BY <2>3 DEF TypeOK
  <2>5. Grown(db[n], d)
    BY <1>0, <2>1, <2>2, <2>4, MergedGrown, GrownTransitive DEF GrownInv
  <2> QED
    BY <1>0, <2>3, <2>5 DEF GrownInv, TypeOK
<1>4. ASSUME NEW n \in Node, CommitMerge(n)
      PROVE  Goal
  <2> DEFINE d == [work[n] EXCEPT !.clock = @ + 1]
  <2>1. d.versions = work[n].versions /\ d.tombs = work[n].tombs
    BY <1>0 DEF Database
  <2>2. db' = [db EXCEPT ![n] = d] /\ work' = [work EXCEPT ![n] = d]
    BY <1>4 DEF CommitMerge
  <2> HIDE DEF d
  <2>3. Grown(db[n], d)
    BY <2>1 DEF GrownInv, Grown, TombsKept, VersionsGrown
  <2>4. db'[n] = d /\ work'[n] = d
    BY <2>2 DEF TypeOK
  <2>5. Grown(d, d)
    BY <1>0, <2>4, GrownReflexive
  <2> QED
    BY <1>0, <2>2, <2>3, <2>4, <2>5, GrownIsKept DEF GrownInv, TypeOK
<1>5. ASSUME NEW n \in Node, AbortMerge(n)
      PROVE  Goal
  <2>1. work' = [work EXCEPT ![n] = db[n]] /\ db' = db
    BY <1>5 DEF AbortMerge
  <2> QED
    BY <1>0, <2>1 DEF GrownInv, TypeOK
<1> QED
  BY <1>1, <1>2, <1>3, <1>4, <1>5
  DEF Next, NodeStep, Lose, Send, BeginMerge, vars

LEMMA GrownInvariant ==
  Spec => /\ []JoinInv /\ []GrownInv
          /\ [][\A n \in Node : Kept(db[n], db'[n])]_vars
<1>1. Init => JoinInv /\ GrownInv
  BY DEF Init, JoinInv, MergeShapes, Joined, Newest, TombsSeen, Passed, Stamps,
         EmptyDatabase, GrownInv, Grown, TombsKept, VersionsGrown
<1>2. TypeOK /\ ClockDominates /\ JoinInv /\ GrownInv /\ [Next]_vars
        => /\ JoinInv' /\ GrownInv'
           /\ [\A n \in Node : Kept(db[n], db'[n])]_vars
  BY JoinStep, GrownStep DEF JoinInv
<1> QED
  BY <1>1, <1>2, TypeCorrect, ClockCorrect, PTL DEF Spec

\* No step of any replica loses a tombstone or replaces it by an earlier one.
THEOREM AdvanceCorrect == Spec => TombstonesAdvance
<1>1. [\A n \in Node : Kept(db[n], db'[n])]_vars
        => [\A n \in Node : TombsKept(db[n], db'[n])]_vars
  BY DEF Kept
<1> QED
  BY <1>1, GrownInvariant, PTL DEF TombstonesAdvance

\* No step of any replica takes a column back to an earlier version, unless a
\* later tombstone buries it.
THEOREM VersionsCorrect == Spec => VersionsAdvance
<1>1. [\A n \in Node : Kept(db[n], db'[n])]_vars
        => [\A n \in Node : VersionsKept(db[n], db'[n])]_vars
  BY DEF Kept
<1> QED
  BY <1>1, GrownInvariant, PTL DEF VersionsAdvance
=============================================================================
