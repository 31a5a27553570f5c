------------------------- MODULE CrdtDatabaseProofs -------------------------
(* What the operators of CrdtDatabase preserve, for every database.        *)
EXTENDS CrdtDatabase, TLAPS

\* The pending rows that the triggers write: a column for INSERT and UPDATE.
WellFormed(pend) ==
  pend \subseteq Pending /\ \A p \in pend : p.op # "DELETE" => p.col \in Column

\* A missing row or a NULL is sent as a text: every value sent is a Value.
LEMMA WireValueType ==
  ASSUME NEW rows \in SUBSET Row, NEW v, v.col \in Column
  PROVE  WireValue(rows, v) \in Value
<1>1. CASE \E row \in rows : row.rec = v.rec /\ row.cells[v.col] # Null
  <2> DEFINE row == CHOOSE row \in rows :
                      row.rec = v.rec /\ row.cells[v.col] # Null
  <2>1. row \in rows /\ row.cells[v.col] # Null
    BY <1>1
  <2>2. row.cells[v.col] \in Value
    BY <2>1 DEF Row, Cell
  <2> QED
    BY <1>1, <2>2 DEF WireValue
<1>2. CASE ~ \E row \in rows : row.rec = v.rec /\ row.cells[v.col] # Null
  BY <1>2, ValueAssumption DEF WireValue
<1> QED
  BY <1>1, <1>2

\* get_changes_since returns changes.
LEMMA GetChangesType ==
  ASSUME NEW d \in Database, NEW since, NEW excluded
  PROVE  GetChangesSince(d, since, excluded) \subseteq Change
<1>1. \A v \in d.versions : ColumnChange(d.rows, v) \in Change
  <2> TAKE v \in d.versions
  <2>1. v \in VersionRow /\ d.rows \in SUBSET Row
    BY DEF Database
  <2>2. WireValue(d.rows, v) \in Cell
    BY <2>1, WireValueType DEF VersionRow, Cell
  <2> QED
    BY <2>1, <2>2 DEF ColumnChange, Change, VersionRow
<1>2. \A t \in d.tombs : Deletion(t) \in Change
  BY DEF Deletion, Change, Database, TombRow, Cell
<1> QED
  BY <1>1, <1>2 DEF GetChangesSince, Fresh

\* A stored col_version is a number.
LEMMA ColVersionType ==
  ASSUME NEW versions \in SUBSET VersionRow, NEW p
  PROVE  ColVersion(versions, p) \in Nat
<1> DEFINE known == {v \in versions : SameKey(v, p)}
<1>1. CASE known = {}
  BY <1>1 DEF ColVersion, CvOf
<1>2. CASE known # {}
  <2>1. (CHOOSE v \in known : TRUE) \in known
    BY <1>2
  <2>2. (CHOOSE v \in known : TRUE).cv \in Nat
    BY <2>1 DEF VersionRow
  <2> QED
    BY <1>2, <2>2 DEF ColVersion, CvOf
<1> QED
  BY <1>1, <1>2

\* The stored version of a column is the one with its key.
LEMMA ColVersionOfStored ==
  ASSUME NEW versions, NEW v \in versions, NEW p, SameKey(v, p),
         \A a, b \in versions : a.rec = b.rec /\ a.col = b.col => a = b
  PROVE  ColVersion(versions, p) = v.cv
<1> DEFINE known == {u \in versions : SameKey(u, p)}
<1>1. known = {v}
  BY DEF SameKey
<1>2. (CHOOSE u \in {v} : TRUE) = v
  OBVIOUS
<1> QED
  BY <1>1, <1>2 DEF ColVersion, CvOf

\* process_pending_changes keeps the types and the primary keys.
LEMMA ProcessPendingType ==
  ASSUME NEW d \in Database, NEW n \in Node, NEW pend, WellFormed(pend)
  PROVE  ProcessPending(d, n, pend) \in Database
<1>1. \A p \in Written(d, pend) :
        NextVersion(d, n, p) \in VersionRow
  BY ColVersionType DEF NextVersion, Written, WellFormed, Pending, Database, VersionRow
<1>2. \A r \in Deleted(pend) :
        NextTombstone(d, n, r) \in TombRow
  BY DEF NextTombstone, Deleted, WellFormed, Pending, Database, TombRow
<1> QED
  BY <1>1, <1>2 DEF ProcessPending, Database

LEMMA ProcessPendingKeys ==
  ASSUME NEW d \in Database, NEW n, NEW pend, KeysUnique(d)
  PROVE  KeysUnique(ProcessPending(d, n, pend))
<1> DEFINE e == ProcessPending(d, n, pend)
           New(p) == NextVersion(d, n, p)
<1>1. \A a, b \in e.rows : a.rec = b.rec => a = b
  BY DEF ProcessPending, NextTombstone, KeysUnique
<1>2. \A a, b \in e.tombs : a.rec = b.rec => a = b
  BY DEF ProcessPending, NextTombstone, KeysUnique
<1>3. \A p, q \in Written(d, pend) :
        p.rec = q.rec /\ p.col = q.col => New(p) = New(q)
  <2> TAKE p, q \in Written(d, pend)
  <2> HAVE p.rec = q.rec /\ p.col = q.col
  <2>1. {v \in d.versions : SameKey(v, p)} = {v \in d.versions : SameKey(v, q)}
    BY DEF SameKey
  <2>2. ColVersion(d.versions, p) = ColVersion(d.versions, q)
    BY <2>1 DEF ColVersion
  <2> QED
    BY <2>2 DEF NextVersion
<1>4. \A a, b \in e.versions : a.rec = b.rec /\ a.col = b.col => a = b
  <2> TAKE a, b \in e.versions
  <2> HAVE a.rec = b.rec /\ a.col = b.col
  <2> DEFINE Old(v) == /\ v \in d.versions
                       /\ \A p \in Written(d, pend) : ~ SameKey(v, p)
             Stamped(v) == \E p \in Written(d, pend) : v = New(p)
  <2>1. (Old(a) \/ Stamped(a)) /\ (Old(b) \/ Stamped(b))
    BY DEF ProcessPending
  <2>2. CASE Old(a) /\ Old(b)
    BY <2>2 DEF KeysUnique
  <2>3. CASE Stamped(a) /\ Stamped(b)
    <3>1. PICK p \in Written(d, pend) : a = New(p)
      BY <2>3
    <3>2. PICK q \in Written(d, pend) : b = New(q)
      BY <2>3
    <3>3. p.rec = q.rec /\ p.col = q.col
      BY <3>1, <3>2 DEF NextVersion
    <3> QED
      BY <3>1, <3>2, <3>3, <1>3
  <2>4. ~ (Old(a) /\ Stamped(b)) /\ ~ (Old(b) /\ Stamped(a))
    BY DEF SameKey, NextVersion
  <2> QED
    BY <2>1, <2>2, <2>3, <2>4
<1> QED
  BY <1>1, <1>2, <1>4 DEF KeysUnique

\* After process_pending_changes the clock covers the new stamps too.
LEMMA ProcessPendingDominated ==
  ASSUME NEW d \in Database, NEW n, NEW pend, Dominated(d)
  PROVE  Dominated(ProcessPending(d, n, pend))
BY DEF ProcessPending, NextVersion, NextTombstone, Dominated, Database,
       VersionRow, TombRow

-----------------------------------------------------------------------------
(* One iteration of the loop of merge_changes.                             *)

LEMMA LaterType ==
  ASSUME NEW a \in Nat, NEW b \in Nat
  PROVE  Later(a, b) \in Nat /\ Later(a, b) >= a /\ Later(a, b) >= b
BY DEF Later

LEMMA RejectedType ==
  ASSUME NEW d \in Database, NEW x \in Change
  PROVE  /\ Rejected(d, x) \in Database
         /\ Rejected(d, x).clock >= d.clock
         /\ Rejected(d, x).rows = d.rows
         /\ Rejected(d, x).versions = d.versions
         /\ Rejected(d, x).tombs = d.tombs
BY LaterType DEF Rejected, Database, Change

LEMMA RejectedKeeps ==
  ASSUME NEW d \in Database, NEW x \in Change
  PROVE  /\ KeysUnique(d) => KeysUnique(Rejected(d, x))
         /\ Dominated(d) => Dominated(Rejected(d, x))
<1>1. Rejected(d, x).clock \in Nat /\ d.clock \in Nat
  BY RejectedType DEF Database
<1>2. KeysUnique(d) => KeysUnique(Rejected(d, x))
  BY RejectedType DEF KeysUnique
<1>3. Dominated(d) => Dominated(Rejected(d, x))
  BY <1>1, RejectedType DEF Dominated, Database, VersionRow, TombRow
<1> QED
  BY <1>2, <1>3

\* apply_to_sqlite keeps one row for each record.
LEMMA ApplyColumnType ==
  ASSUME NEW rows \in SUBSET Row, NEW x \in Change, x.col \in Column
  PROVE  ApplyColumn(rows, x) \in SUBSET Row
<1>1. \A row \in rows : [row EXCEPT !.cells[x.col] = x.val] \in Row
  BY DEF Row, Change
<1>2. [rec |-> x.rec,
       cells |-> [c \in Column |-> IF c = x.col THEN x.val ELSE Null]] \in Row
  BY DEF Row, Change, Cell
<1> QED
  BY <1>1, <1>2 DEF ApplyColumn

LEMMA ApplyColumnKeys ==
  ASSUME NEW rows \in SUBSET Row, NEW x \in Change,
         \A a, b \in rows : a.rec = b.rec => a = b
  PROVE  \A a, b \in ApplyColumn(rows, x) : a.rec = b.rec => a = b
<1> DEFINE Put(row) == IF row.rec = x.rec
                         THEN [row EXCEPT !.cells[x.col] = x.val] ELSE row
<1>1. CASE x.val = Null \/ \E row \in rows : row.rec = x.rec
  <2>1. ApplyColumn(rows, x) = {Put(row) : row \in rows}
    BY <1>1 DEF ApplyColumn
  <2>2. \A row \in rows : Put(row).rec = row.rec
    BY DEF Row
  <2> HIDE DEF Put
  <2> TAKE a, b \in ApplyColumn(rows, x)
  <2>3. PICK p \in rows : a = Put(p)
    BY <2>1
  <2>4. PICK q \in rows : b = Put(q)
    BY <2>1
  <2> QED
    BY <2>2, <2>3, <2>4
<1>2. CASE ~ (x.val = Null \/ \E row \in rows : row.rec = x.rec)
  BY <1>2 DEF ApplyColumn
<1> QED
  BY <1>1, <1>2

LEMMA ColumnAcceptedType ==
  ASSUME NEW d \in Database, NEW x \in Change, x.col \in Column
  PROVE  ColumnAccepted(d, x) \in Database
<1>1. Later(d.clock, x.dv) \in Nat
  BY LaterType DEF Database, Change
<1>2. ApplyColumn(d.rows, x) \in SUBSET Row
  BY ApplyColumnType DEF Database
<1>3. WithVersion(d.versions, x, Later(d.clock, x.dv)) \in SUBSET VersionRow
  BY <1>1 DEF WithVersion, Database, VersionRow, Change
<1> QED
  BY <1>1, <1>2, <1>3 DEF ColumnAccepted, Database

LEMMA ColumnAcceptedKeeps ==
  ASSUME NEW d \in Database, NEW x \in Change
  PROVE  /\ KeysUnique(d) => KeysUnique(ColumnAccepted(d, x))
         /\ Dominated(d) => Dominated(ColumnAccepted(d, x))
<1> DEFINE e == ColumnAccepted(d, x)
<1>1. Later(d.clock, x.dv) \in Nat /\ d.clock \in Nat /\ x.dv \in Nat
  BY LaterType DEF Database, Change
<1>2. ASSUME KeysUnique(d) PROVE KeysUnique(e)
  <2>1. \A a, b \in e.rows : a.rec = b.rec => a = b
    BY <1>2, ApplyColumnKeys DEF ColumnAccepted, KeysUnique, Database
  <2>2. \A a, b \in e.versions : a.rec = b.rec /\ a.col = b.col => a = b
    BY <1>2 DEF ColumnAccepted, WithVersion, KeysUnique, SameKey
  <2> QED
    BY <1>2, <2>1, <2>2 DEF ColumnAccepted, KeysUnique
<1>3. ASSUME Dominated(d) PROVE Dominated(e)
  <2>1. Later(d.clock, x.dv) >= d.clock /\ Later(d.clock, x.dv) >= x.dv
    BY <1>1, LaterType
  <2> QED
    BY <1>1, <1>3, <2>1
    DEF ColumnAccepted, WithVersion, Dominated, Database, VersionRow, TombRow
<1> QED
  BY <1>2, <1>3

LEMMA DeletionAcceptedType ==
  ASSUME NEW d \in Database, NEW x \in Change
  PROVE  DeletionAccepted(d, x) \in Database
<1>1. Later(d.clock, x.dv) \in Nat
  BY LaterType DEF Database, Change
<1> QED
  BY <1>1 DEF DeletionAccepted, RowsBut, WithTombstone, Database, TombRow, Change

LEMMA DeletionAcceptedKeeps ==
  ASSUME NEW d \in Database, NEW x \in Change
  PROVE  /\ KeysUnique(d) => KeysUnique(DeletionAccepted(d, x))
         /\ Dominated(d) => Dominated(DeletionAccepted(d, x))
<1>1. Later(d.clock, x.dv) \in Nat /\ d.clock \in Nat /\ x.dv \in Nat
  BY LaterType DEF Database, Change
<1>2. Later(d.clock, x.dv) >= d.clock /\ Later(d.clock, x.dv) >= x.dv
  BY <1>1, LaterType
<1>3. KeysUnique(d) => KeysUnique(DeletionAccepted(d, x))
  BY DEF DeletionAccepted, RowsBut, WithTombstone, KeysUnique
<1>4. Dominated(d) => Dominated(DeletionAccepted(d, x))
  BY <1>1, <1>2 DEF DeletionAccepted, WithTombstone, Dominated, Database,
                    VersionRow, TombRow
<1> QED
  BY <1>3, <1>4

\* merge_changes of one change keeps the types and the primary keys.
LEMMA MergedType ==
  ASSUME NEW d \in Database, KeysUnique(d), NEW x \in Change
  PROVE  Merged(d, x) \in Database /\ KeysUnique(Merged(d, x))
<1>1. ASSUME NEW e \in Database, KeysUnique(e)
      PROVE  /\ [e EXCEPT !.clock = @ + 1] \in Database
             /\ KeysUnique([e EXCEPT !.clock = @ + 1])
  BY <1>1 DEF Database, KeysUnique
<1>2. x.col # NoColumn => x.col \in Column
  BY DEF Change
<1>3. \E e \in Database : KeysUnique(e) /\ Merged(d, x) = [e EXCEPT !.clock = @ + 1]
  <2>1. CASE Merged(d, x) = [Rejected(d, x) EXCEPT !.clock = @ + 1]
    BY <2>1, RejectedType, RejectedKeeps
  <2>2. CASE x.col # NoColumn /\ Merged(d, x) = [ColumnAccepted(d, x) EXCEPT !.clock = @ + 1]
    BY <1>2, <2>2, ColumnAcceptedType, ColumnAcceptedKeeps
  <2>3. CASE Merged(d, x) = [DeletionAccepted(d, x) EXCEPT !.clock = @ + 1]
    BY <2>3, DeletionAcceptedType, DeletionAcceptedKeeps
  <2> QED
    BY <2>1, <2>2, <2>3 DEF Merged
<1> QED
  BY <1>1, <1>3

\* The three outcomes of merge_changes for one change.
LEMMA MergedOutcome ==
  ASSUME NEW d \in Database, NEW x \in Change
  PROVE  LET e == Merged(d, x)
             now == Later(d.clock, x.dv)
         IN  /\ e.clock = now + 1
             /\ \/ e.rows = d.rows /\ e.versions = d.versions /\ e.tombs = d.tombs
                \/ /\ x.col # NoColumn /\ Accepts(d, x)
                   /\ e.rows = ApplyColumn(d.rows, x)
                   /\ e.versions = WithVersion(d.versions, x, now)
                   /\ e.tombs = d.tombs
                \/ /\ x.col = NoColumn
                   /\ e.rows = RowsBut(d.rows, x.rec)
                   /\ e.versions = d.versions
                   /\ e.tombs = WithTombstone(d.tombs, x, now)
<1> DEFINE now == Later(d.clock, x.dv)
<1>1. ASSUME NEW f, f.clock = now, f \in Database
      PROVE  [f EXCEPT !.clock = @ + 1] =
               [rows |-> f.rows, versions |-> f.versions, tombs |-> f.tombs,
                clock |-> now + 1]
  BY <1>1 DEF Database
<1>2. Rejected(d, x) \in Database /\ Rejected(d, x).clock = now
  BY RejectedType DEF Rejected, Database
<1>3. x.col # NoColumn => ColumnAccepted(d, x) \in Database
  BY ColumnAcceptedType DEF Change
<1>4. DeletionAccepted(d, x) \in Database
  BY DeletionAcceptedType
<1>5. /\ ColumnAccepted(d, x) =
           [rows |-> ApplyColumn(d.rows, x), versions |-> WithVersion(d.versions, x, now),
            tombs |-> d.tombs, clock |-> now]
      /\ DeletionAccepted(d, x) =
           [rows |-> RowsBut(d.rows, x.rec), versions |-> d.versions,
            tombs |-> WithTombstone(d.tombs, x, now), clock |-> now]
  BY DEF ColumnAccepted, DeletionAccepted
<1> HIDE DEF now
<1>6. CASE Merged(d, x) = [Rejected(d, x) EXCEPT !.clock = @ + 1]
  BY <1>1, <1>2, <1>6, RejectedType DEF now
<1>7. CASE /\ x.col # NoColumn /\ Accepts(d, x)
           /\ Merged(d, x) = [ColumnAccepted(d, x) EXCEPT !.clock = @ + 1]
  BY <1>1, <1>3, <1>5, <1>7 DEF now
<1>8. CASE /\ x.col = NoColumn
           /\ Merged(d, x) = [DeletionAccepted(d, x) EXCEPT !.clock = @ + 1]
  BY <1>1, <1>4, <1>5, <1>8 DEF now
<1> QED
  BY <1>6, <1>7, <1>8 DEF Merged

\* A version that a merge replaces gives way to a greater one.
LEMMA MergedKeepsVersions ==
  ASSUME NEW d \in Database, NEW x \in Change
  PROVE  VersionsKept(d, Merged(d, x))
<1> DEFINE e == Merged(d, x)
           now == Later(d.clock, x.dv)
           new == [rec |-> x.rec, col |-> x.col, cv |-> x.cv, dv |-> x.dv,
                   node |-> x.node, local |-> now]
<1>0. \A v \in d.versions : SameKey(v, v) /\ AtLeast(v, v)
  <2>1. \A v \in d.versions : v.node \in Nat
    BY NodeAssumption DEF Database, VersionRow
  <2> QED
    BY <2>1 DEF SameKey, AtLeast
<1>1. CASE e.versions = d.versions
  BY <1>0, <1>1 DEF VersionsKept
<1>2. CASE Accepts(d, x) /\ e.versions = WithVersion(d.versions, x, now)
  <2>1. e.versions = {v \in d.versions : ~ SameKey(v, x)} \cup {new}
    BY <1>2 DEF WithVersion
  <2>2. \A v \in d.versions : SameKey(v, x) => SameKey(new, v) /\ AtLeast(new, v)
    BY <1>2 DEF Accepts, SameKey, RemoteWins, AtLeast
  <2> HIDE DEF e, new
  <2> QED
    BY <1>0, <2>1, <2>2 DEF VersionsKept, e
<1> QED
  BY <1>1, <1>2, MergedOutcome

-----------------------------------------------------------------------------
(* One statement writes one table.                                         *)

LEMMA PutRows ==
  ASSUME NEW d \in Database, KeysUnique(d), NEW rows \in SUBSET Row,
         \A a, b \in rows : a.rec = b.rec => a = b
  PROVE  /\ [d EXCEPT !.rows = rows] =
               [rows |-> rows, versions |-> d.versions, tombs |-> d.tombs,
                clock |-> d.clock]
         /\ [d EXCEPT !.rows = rows] \in Database
         /\ KeysUnique([d EXCEPT !.rows = rows])
BY DEF Database, KeysUnique

LEMMA PutVersions ==
  ASSUME NEW d \in Database, KeysUnique(d), NEW versions \in SUBSET VersionRow,
         \A a, b \in versions : a.rec = b.rec /\ a.col = b.col => a = b
  PROVE  /\ [d EXCEPT !.versions = versions] =
               [rows |-> d.rows, versions |-> versions, tombs |-> d.tombs,
                clock |-> d.clock]
         /\ [d EXCEPT !.versions = versions] \in Database
         /\ KeysUnique([d EXCEPT !.versions = versions])
BY DEF Database, KeysUnique

LEMMA PutTombs ==
  ASSUME NEW d \in Database, KeysUnique(d), NEW tombs \in SUBSET TombRow,
         \A a, b \in tombs : a.rec = b.rec => a = b
  PROVE  /\ [d EXCEPT !.tombs = tombs] =
               [rows |-> d.rows, versions |-> d.versions, tombs |-> tombs,
                clock |-> d.clock]
         /\ [d EXCEPT !.tombs = tombs] \in Database
         /\ KeysUnique([d EXCEPT !.tombs = tombs])
BY DEF Database, KeysUnique

LEMMA PutClock ==
  ASSUME NEW d \in Database, KeysUnique(d), NEW n \in Nat
  PROVE  /\ [d EXCEPT !.clock = n] =
               [rows |-> d.rows, versions |-> d.versions, tombs |-> d.tombs,
                clock |-> n]
         /\ [d EXCEPT !.clock = n] \in Database
         /\ KeysUnique([d EXCEPT !.clock = n])
BY DEF Database, KeysUnique

-----------------------------------------------------------------------------
(* The values that rows show.                                              *)

Text(cell) == IF cell = Null THEN NullText ELSE cell

\* The LEFT JOIN meets at most one row.
LEMMA WireValueIs ==
  ASSUME NEW rows, \A a, b \in rows : a.rec = b.rec => a = b, NEW v
  PROVE  /\ \A row \in rows : row.rec = v.rec
                                => WireValue(rows, v) = Text(row.cells[v.col])
         /\ (~ \E row \in rows : row.rec = v.rec) => WireValue(rows, v) = NullText
<1>1. ASSUME NEW row \in rows, row.rec = v.rec, row.cells[v.col] # Null
      PROVE  WireValue(rows, v) = row.cells[v.col]
  <2> DEFINE Met(r) == r \in rows /\ r.rec = v.rec /\ r.cells[v.col] # Null
             met == CHOOSE r \in rows : r.rec = v.rec /\ r.cells[v.col] # Null
  <2>1. met \in rows /\ met.rec = v.rec /\ met.cells[v.col] # Null
    BY <1>1
  <2>2. met = row
    BY <2>1, <1>1
  <2>3. WireValue(rows, v) = met.cells[v.col]
    BY <1>1 DEF WireValue
  <2> QED
    BY <2>2, <2>3
<1>2. ASSUME NEW row \in rows, row.rec = v.rec, row.cells[v.col] = Null
      PROVE  WireValue(rows, v) = NullText
  BY <1>2 DEF WireValue
<1> QED
  BY <1>1, <1>2 DEF WireValue, Text

\* Databases with the same row of a record say the same of it.
LEMMA SameRowSameValue ==
  ASSUME NEW rows, \A a, b \in rows : a.rec = b.rec => a = b,
         NEW others, \A a, b \in others : a.rec = b.rec => a = b,
         NEW v, \A row : row.rec = v.rec => (row \in rows <=> row \in others)
  PROVE  WireValue(rows, v) = WireValue(others, v)
<1>1. CASE \E row \in rows : row.rec = v.rec
  <2>1. PICK row \in rows : row.rec = v.rec
    BY <1>1
  <2> QED
    BY <2>1, WireValueIs
<1>2. CASE ~ \E row \in rows : row.rec = v.rec
  BY <1>2, WireValueIs
<1> QED
  BY <1>1, <1>2

\* apply_to_sqlite writes the one cell.
LEMMA ApplyColumnCells ==
  ASSUME NEW d \in Database, NEW x \in Change, x.col \in Column, x.val # Null
  PROVE  /\ \A row : row.rec # x.rec
                       => (row \in d.rows <=> row \in ApplyColumn(d.rows, x))
         /\ \E new \in ApplyColumn(d.rows, x) :
              new.rec = x.rec /\ new.cells[x.col] = x.val
         /\ \A row \in d.rows : row.rec = x.rec =>
              \E new \in ApplyColumn(d.rows, x) :
                /\ new.rec = x.rec
                /\ \A c \in Column \ {x.col} : new.cells[c] = row.cells[c]
         /\ (~ \E row \in d.rows : row.rec = x.rec) =>
              \E new \in ApplyColumn(d.rows, x) :
                /\ new.rec = x.rec
                /\ \A c \in Column \ {x.col} : new.cells[c] = Null
<1> DEFINE Put(row) == [row EXCEPT !.cells[x.col] = x.val]
           made == [rec |-> x.rec,
                    cells |-> [c \in Column |-> IF c = x.col THEN x.val ELSE Null]]
<1>1. \A row \in d.rows : /\ Put(row).rec = row.rec
                          /\ Put(row).cells[x.col] = x.val
                          /\ \A c \in Column \ {x.col} : Put(row).cells[c] = row.cells[c]
  BY DEF Database, Row
<1>2. /\ made.rec = x.rec /\ made.cells[x.col] = x.val
      /\ \A c \in Column \ {x.col} : made.cells[c] = Null
  OBVIOUS
<1>3. CASE \E row \in d.rows : row.rec = x.rec
  <2>1. ApplyColumn(d.rows, x) =
          {IF row.rec = x.rec THEN Put(row) ELSE row : row \in d.rows}
    BY <1>3 DEF ApplyColumn
  <2> HIDE DEF Put
  <2>2. \A row \in d.rows : row.rec = x.rec => Put(row) \in ApplyColumn(d.rows, x)
    BY <2>1
  <2>3. \A row \in d.rows : row.rec # x.rec => row \in ApplyColumn(d.rows, x)
    BY <2>1
  <2>4. \A row \in ApplyColumn(d.rows, x) : row.rec # x.rec => row \in d.rows
    BY <1>1, <2>1
  <2> QED
    BY <1>1, <1>3, <2>2, <2>3, <2>4
<1>4. CASE ~ \E row \in d.rows : row.rec = x.rec
  <2>1. ApplyColumn(d.rows, x) = d.rows \cup {made}
    BY <1>4 DEF ApplyColumn
  <2> HIDE DEF made
  <2> QED
    BY <1>2, <1>4, <2>1
<1> QED
  BY <1>3, <1>4

\* After apply_to_sqlite the one column shows the value of the change, and the
\* others what they showed before.
LEMMA ApplyColumnShows ==
  ASSUME NEW d \in Database, KeysUnique(d), NEW x \in Change, x.col \in Column,
         x.val # Null, NEW v, v.col \in Column
  PROVE  WireValue(ApplyColumn(d.rows, x), v)
           = IF SameKey(v, x) THEN x.val ELSE WireValue(d.rows, v)
<1> DEFINE rows == ApplyColumn(d.rows, x)
<1>1. /\ \A a, b \in d.rows : a.rec = b.rec => a = b
      /\ \A a, b \in rows : a.rec = b.rec => a = b
  BY ApplyColumnKeys DEF KeysUnique, Database
<1>2. CASE SameKey(v, x)
  <2>1. PICK new \in rows : new.rec = x.rec /\ new.cells[x.col] = x.val
    BY ApplyColumnCells
  <2> QED
    BY <1>1, <1>2, <2>1, WireValueIs DEF SameKey, Text
<1>3. CASE v.rec # x.rec
  <2>1. \A row : row.rec = v.rec => (row \in rows <=> row \in d.rows)
    BY <1>3, ApplyColumnCells
  <2> QED
    BY <1>1, <1>3, <2>1, SameRowSameValue DEF SameKey
<1>4. CASE v.rec = x.rec /\ v.col # x.col
  <2>0. v.col \in Column \ {x.col} /\ ~ SameKey(v, x)
    BY <1>4 DEF SameKey
  <2>1. CASE \E row \in d.rows : row.rec = x.rec
    <3>1. PICK row \in d.rows : row.rec = x.rec
      BY <2>1
    <3>2. PICK new \in rows : new.rec = x.rec /\ new.cells[v.col] = row.cells[v.col]
      BY <2>0, <3>1, ApplyColumnCells
    <3> HIDE DEF rows
    <3>3. WireValue(rows, v) = WireValue(d.rows, v)
      BY <1>1, <1>4, <3>1, <3>2, WireValueIs
    <3> QED
      BY <2>0, <3>3 DEF rows
  <2>2. CASE ~ \E row \in d.rows : row.rec = x.rec
    <3>1. PICK new \in rows : new.rec = x.rec /\ new.cells[v.col] = Null
      BY <2>0, <2>2, ApplyColumnCells
    <3> HIDE DEF rows
    <3>2. WireValue(rows, v) = NullText
      BY <1>1, <1>4, <3>1, WireValueIs DEF Text
    <3>3. WireValue(d.rows, v) = NullText
      BY <1>1, <1>4, <2>2, WireValueIs
    <3> QED
      BY <2>0, <3>2, <3>3 DEF rows
  <2> QED
    BY <2>1, <2>2
<1> QED
  BY <1>2, <1>3, <1>4 DEF SameKey

-----------------------------------------------------------------------------
(* The orders of versions and of deletions.                                *)

LEMMA DatabaseNumbers ==
  ASSUME NEW d \in Database
  PROVE  /\ d.clock \in Nat
         /\ \A v \in d.versions : v.cv \in Nat /\ v.dv \in Nat /\ v.node \in Nat
         /\ \A t \in d.tombs : t.dv \in Nat /\ t.node \in Nat
BY NodeAssumption DEF Database, VersionRow, TombRow

LEMMA AtLeastTransitive ==
  ASSUME NEW a, NEW b, NEW c,
         a.cv \in Nat, a.dv \in Nat, a.node \in Nat,
         b.cv \in Nat, b.dv \in Nat, b.node \in Nat,
         c.cv \in Nat, c.dv \in Nat, c.node \in Nat,
         AtLeast(a, b), AtLeast(b, c)
  PROVE  AtLeast(a, c)
BY DEF AtLeast

LEMMA NotBeforeTransitive ==
  ASSUME NEW a, NEW b, NEW c,
         a.dv \in Nat, a.node \in Nat, b.dv \in Nat, b.node \in Nat,
         c.dv \in Nat, c.node \in Nat, NotBefore(a, b), NotBefore(b, c)
  PROVE  NotBefore(a, c)
BY DEF NotBefore

\* A change that does not replace the stored version is not greater.
LEMMA LoserNotGreater ==
  ASSUME NEW x, NEW v, x.cv \in Nat, x.dv \in Nat, x.node \in Nat,
         v.cv \in Nat, v.dv \in Nat, v.node \in Nat, ~ RemoteWins(x, v)
  PROVE  AtLeast(v, x)
BY DEF RemoteWins, AtLeast

\* A deletion that a tombstone does not screen is not before it.
LEMMA UnscreenedNotBefore ==
  ASSUME NEW x, NEW t, x.dv \in Nat, x.node \in Nat,
         t.dv \in Nat, t.node \in Nat, ~ Screens(t, x)
  PROVE  NotBefore(x, t)
BY DEF Screens, NotBefore

-----------------------------------------------------------------------------
(* Tombstones and versions only advance.                                   *)

\* The three ways the loop of merge_changes treats a change.
MergedTo(d, x, e) ==
  \/ /\ x.col # NoColumn
     /\ Accepts(d, x)
     /\ e = ColumnAccepted(d, x)
  \/ /\ x.col = NoColumn
     /\ ~ IsTombstoned(d, x)
     /\ e = DeletionAccepted(d, x)
  \/ /\ x.col # NoColumn => ~ Accepts(d, x)
     /\ x.col = NoColumn => IsTombstoned(d, x)
     /\ e = Rejected(d, x)

LEMMA MergedToType ==
  ASSUME NEW d \in Database, NEW x \in Change, NEW e, MergedTo(d, x, e)
  PROVE  /\ e \in Database
         /\ KeysUnique(d) => KeysUnique(e)
         /\ Dominated(d) => Dominated(e)
<1>1. x.col # NoColumn => x.col \in Column
  BY DEF Change
<1> QED
  BY <1>1, ColumnAcceptedType, ColumnAcceptedKeeps, DeletionAcceptedType,
     DeletionAcceptedKeeps, RejectedType, RejectedKeeps DEF MergedTo

\* A merge, unlike a local deletion, removes no version.
VersionsGrown(d, e) ==
  \A v \in d.versions : \E u \in e.versions : SameKey(u, v) /\ AtLeast(u, v)

Grown(d, e) == TombsKept(d, e) /\ VersionsGrown(d, e)

LEMMA GrownReflexive ==
  ASSUME NEW d \in Database, NEW e, e.versions = d.versions, e.tombs = d.tombs
  PROVE  Grown(d, e)
BY DatabaseNumbers
DEF Grown, TombsKept, VersionsGrown, NotBefore, AtLeast, SameKey

LEMMA GrownTransitive ==
  ASSUME NEW d \in Database, NEW e \in Database, NEW f \in Database,
         Grown(d, e), Grown(e, f)
  PROVE  Grown(d, f)
<1>0. /\ \A v \in d.versions \cup e.versions \cup f.versions :
           v.cv \in Nat /\ v.dv \in Nat /\ v.node \in Nat
      /\ \A t \in d.tombs \cup e.tombs \cup f.tombs : t.dv \in Nat /\ t.node \in Nat
  BY DatabaseNumbers
<1>1. TombsKept(d, f)
  <2> SUFFICES ASSUME NEW t \in d.tombs
               PROVE  \E u \in f.tombs : u.rec = t.rec /\ NotBefore(u, t)
    BY DEF TombsKept
  <2>1. PICK u \in e.tombs : u.rec = t.rec /\ NotBefore(u, t)
    BY DEF Grown, TombsKept
  <2>2. PICK w \in f.tombs : w.rec = u.rec /\ NotBefore(w, u)
    BY DEF Grown, TombsKept
  <2> QED
    BY <1>0, <2>1, <2>2, NotBeforeTransitive
<1>2. VersionsGrown(d, f)
  <2> SUFFICES ASSUME NEW v \in d.versions
               PROVE  \E u \in f.versions : SameKey(u, v) /\ AtLeast(u, v)
    BY DEF VersionsGrown
  <2>1. PICK u \in e.versions : SameKey(u, v) /\ AtLeast(u, v)
    BY DEF Grown, VersionsGrown
  <2>2. PICK w \in f.versions : SameKey(w, u) /\ AtLeast(w, u)
    BY DEF Grown, VersionsGrown
  <2>3. AtLeast(w, v)
    BY <1>0, <2>1, <2>2, AtLeastTransitive
  <2> QED
    BY <2>1, <2>2, <2>3 DEF SameKey
<1> QED
  BY <1>1, <1>2 DEF Grown

LEMMA MergedGrown ==
  ASSUME NEW d \in Database, NEW x \in Change, NEW e, MergedTo(d, x, e)
  PROVE  Grown(d, e)
<1>0. x.cv \in Nat /\ x.dv \in Nat /\ x.node \in Nat
  BY NodeAssumption DEF Change
<1>1. CASE Accepts(d, x) /\ e = ColumnAccepted(d, x)
  <2> DEFINE y == [rec |-> x.rec, col |-> x.col, cv |-> x.cv, dv |-> x.dv,
                   node |-> x.node, local |-> Later(d.clock, x.dv)]
  <2>1. /\ e.tombs = d.tombs
        /\ e.versions = {v \in d.versions : ~ SameKey(v, x)} \cup {y}
    BY <1>1 DEF ColumnAccepted, WithVersion
  <2>2. \A v \in d.versions : SameKey(v, x) => SameKey(y, v) /\ AtLeast(y, v)
    BY <1>1 DEF Accepts, RemoteWins, AtLeast, SameKey
  <2> HIDE DEF y
  <2>3. VersionsGrown(d, e)
    BY <2>1, <2>2, DatabaseNumbers DEF VersionsGrown, AtLeast, SameKey
  <2>4. TombsKept(d, e)
    BY <2>1, DatabaseNumbers DEF TombsKept, NotBefore
  <2> QED
    BY <2>3, <2>4 DEF Grown
<1>2. CASE ~ IsTombstoned(d, x) /\ e = DeletionAccepted(d, x)
  <2> DEFINE y == [rec |-> x.rec, dv |-> x.dv, node |-> x.node,
                   local |-> Later(d.clock, x.dv)]
  <2>1. /\ e.versions = d.versions
        /\ e.tombs = {t \in d.tombs : t.rec # x.rec} \cup {y}
    BY <1>2 DEF DeletionAccepted, WithTombstone
  <2>2. \A t \in d.tombs : t.rec = x.rec => y.rec = t.rec /\ NotBefore(x, t)
    BY <1>0, <1>2, DatabaseNumbers, UnscreenedNotBefore DEF IsTombstoned
  <2>3. \A t \in d.tombs : t.rec = x.rec => NotBefore(y, t)
    BY <2>2 DEF NotBefore
  <2> HIDE DEF y
  <2>4. TombsKept(d, e)
    BY <2>1, <2>2, <2>3, DatabaseNumbers DEF TombsKept, NotBefore
  <2>5. VersionsGrown(d, e)
    BY <2>1, DatabaseNumbers DEF VersionsGrown, AtLeast, SameKey
  <2> QED
    BY <2>4, <2>5 DEF Grown
<1>3. CASE e = Rejected(d, x)
  BY <1>3, RejectedType, GrownReflexive
<1> QED
  BY <1>1, <1>2, <1>3 DEF MergedTo

\* The rows process_pending_changes adds carry the new clock and the node.
LEMMA ProcessPendingNew ==
  ASSUME NEW d, NEW n, NEW pend, NEW e, e = ProcessPending(d, n, pend)
  PROVE  /\ \A v \in e.versions :
              v \in d.versions \/ (v.dv = e.clock /\ v.node = n)
         /\ \A t \in e.tombs :
              t \in d.tombs \/ (t.dv = e.clock /\ t.node = n)
         /\ e.clock = d.clock + 1
BY DEF ProcessPending, NextVersion, NextTombstone

\* process_pending_changes makes a greater version of each column it writes.
LEMMA ProcessPendingKeeps ==
  ASSUME NEW d \in Database, KeysUnique(d), Dominated(d),
         NEW n \in Node, NEW pend, WellFormed(pend)
  PROVE  LET e == ProcessPending(d, n, pend)
         IN  \A v \in d.versions :
               \/ \E u \in e.versions : SameKey(u, v) /\ u.cv >= v.cv
                                       /\ u.dv >= v.dv /\ AtLeast(u, v)
               \/ \E t \in e.tombs : t.rec = v.rec /\ t.dv = e.clock
<1> DEFINE e == ProcessPending(d, n, pend)
<1> SUFFICES ASSUME NEW v \in d.versions
             PROVE  \/ \E u \in e.versions : SameKey(u, v) /\ u.cv >= v.cv
                                            /\ u.dv >= v.dv /\ AtLeast(u, v)
                    \/ \E t \in e.tombs : t.rec = v.rec /\ t.dv = e.clock
  OBVIOUS
<1>0. v.cv \in Nat /\ v.dv \in Nat /\ v.node \in Nat /\ d.clock \in Nat
      /\ v.dv <= d.clock
  BY NodeAssumption DEF Database, VersionRow, Dominated
<1>1. CASE v.rec \in Deleted(pend)
  <2>1. NextTombstone(d, n, v.rec) \in e.tombs
    BY <1>1 DEF ProcessPending
  <2>2. e.clock = d.clock + 1
    BY DEF ProcessPending
  <2> QED
    BY <2>1, <2>2 DEF NextTombstone
<1>2. CASE v.rec \notin Deleted(pend)
           /\ \A p \in Written(d, pend) : ~ SameKey(v, p)
  <2>1. v \in e.versions
    BY <1>2 DEF ProcessPending
  <2> QED
    BY <1>0, <2>1 DEF SameKey, AtLeast
<1>3. ASSUME NEW p \in Written(d, pend), SameKey(v, p)
      PROVE  \E u \in e.versions : SameKey(u, v) /\ u.cv >= v.cv
                                   /\ u.dv >= v.dv /\ AtLeast(u, v)
  <2> DEFINE u == NextVersion(d, n, p)
  <2>1. u \in e.versions
    BY DEF ProcessPending
  <2>2. ColVersion(d.versions, p) = v.cv
    BY <1>3, ColVersionOfStored DEF KeysUnique
  <2>3. SameKey(u, v)
    BY <1>3 DEF SameKey, NextVersion
  <2>4. u.cv > v.cv /\ u.dv >= v.dv /\ u.cv >= v.cv
    BY <1>0, <2>2 DEF NextVersion
  <2> HIDE DEF u
  <2> QED
    BY <2>1, <2>3, <2>4 DEF AtLeast
<1> QED
  BY <1>1, <1>2, <1>3

LEMMA CommitKept ==
  ASSUME NEW d \in Database, KeysUnique(d), Dominated(d), NEW n \in Node,
         NEW pend, WellFormed(pend), NEW e, e = ProcessPending(d, n, pend)
  PROVE  TombsKept(d, e) /\ VersionsKept(d, e)
<1>0. e.clock = d.clock + 1
  BY DEF ProcessPending
<1>1. TombsKept(d, e)
  <2> SUFFICES ASSUME NEW t \in d.tombs
               PROVE  \E u \in e.tombs : u.rec = t.rec /\ NotBefore(u, t)
    BY DEF TombsKept
  <2>1. CASE t.rec \notin Deleted(pend)
    <3>1. t \in e.tombs
      BY <2>1 DEF ProcessPending
    <3> QED
      BY <3>1, DatabaseNumbers DEF NotBefore
  <2>2. CASE t.rec \in Deleted(pend)
    <3> DEFINE u == NextTombstone(d, n, t.rec)
    <3>1. u \in e.tombs
      BY <2>2 DEF ProcessPending
    <3>2. u.dv > t.dv /\ u.rec = t.rec
      BY DatabaseNumbers DEF Dominated, NextTombstone
    <3> QED
      BY <3>1, <3>2 DEF NotBefore
  <2> QED
    BY <2>1, <2>2
<1>2. VersionsKept(d, e)
  <2> SUFFICES ASSUME NEW v \in d.versions
               PROVE  \/ \E u \in e.versions : SameKey(u, v) /\ AtLeast(u, v)
                      \/ \E t \in e.tombs : t.rec = v.rec /\ NotBefore(t, v)
    BY DEF VersionsKept
  <2>1. v.dv \in Nat /\ v.dv <= d.clock /\ d.clock \in Nat
    BY DatabaseNumbers DEF Dominated
  <2>2. \A t : t.dv = e.clock => NotBefore(t, v)
    BY <1>0, <2>1 DEF NotBefore
  <2> QED
    BY <2>2, ProcessPendingKeeps
<1> QED
  BY <1>1, <1>2

-----------------------------------------------------------------------------
(* A row of a live record has its versions, and versions have their row.   *)

Entombed(d, r) == \E t \in d.tombs : t.rec = r

\* A record without a tombstone has a row exactly if it has versions.
Tracked(d, r) ==
  ~ Entombed(d, r) =>
    ((\E row \in d.rows : row.rec = r) <=> (\E v \in d.versions : v.rec = r))

\* apply_to_sqlite makes or keeps the row of the change, and no other.
LEMMA ApplyColumnRows ==
  ASSUME NEW d \in Database, NEW x \in Change, x.val # Null
  PROVE  \A r \in Record : (\E row \in ApplyColumn(d.rows, x) : row.rec = r)
                             <=> (r = x.rec \/ \E row \in d.rows : row.rec = r)
<1>1. d.rows \in SUBSET Row /\ x.rec \in Record
  BY DEF Database, Change
<1>2. CASE \E row \in d.rows : row.rec = x.rec
  <2>1. ApplyColumn(d.rows, x) =
          {IF row.rec = x.rec THEN [row EXCEPT !.cells[x.col] = x.val]
                              ELSE row : row \in d.rows}
    BY <1>2 DEF ApplyColumn
  <2>2. \A row \in d.rows :
          (IF row.rec = x.rec THEN [row EXCEPT !.cells[x.col] = x.val]
                              ELSE row).rec = row.rec
    BY <1>1 DEF Row
  <2> DEFINE g(row) == IF row.rec = x.rec
                         THEN [row EXCEPT !.cells[x.col] = x.val] ELSE row
  <2>3. ApplyColumn(d.rows, x) = {g(row) : row \in d.rows}
    BY <2>1
  <2>4. \A row \in d.rows : g(row).rec = row.rec
    BY <2>2
  <2> HIDE DEF g
  <2>5. \A r : (\E row \in ApplyColumn(d.rows, x) : row.rec = r)
                 <=> (\E row \in d.rows : row.rec = r)
    BY <2>3, <2>4
  <2> QED
    BY <1>2, <2>5
<1>3. CASE ~ \E row \in d.rows : row.rec = x.rec
  <2> DEFINE new ==
        [rec |-> x.rec,
         cells |-> [c \in Column |-> IF c = x.col THEN x.val ELSE Null]]
  <2>1. ApplyColumn(d.rows, x) = d.rows \cup {new}
    BY <1>3 DEF ApplyColumn
  <2>2. new.rec = x.rec
    OBVIOUS
  <2> HIDE DEF new
  <2> QED
    BY <2>1, <2>2
<1> QED
  BY <1>2, <1>3

LEMMA MergedTracked ==
  ASSUME NEW d \in Database, NEW x \in Change, Texts({x}),
         NEW e, MergedTo(d, x, e), NEW r \in Record, Tracked(d, r)
  PROVE  Tracked(e, r)
<1>1. CASE x.col # NoColumn /\ e = ColumnAccepted(d, x)
  <2> DEFINE y == [rec |-> x.rec, col |-> x.col, cv |-> x.cv, dv |-> x.dv,
                   node |-> x.node, local |-> Later(d.clock, x.dv)]
  <2>1. /\ e.tombs = d.tombs
        /\ e.versions = {v \in d.versions : ~ SameKey(v, x)} \cup {y}
        /\ e.rows = ApplyColumn(d.rows, x)
    BY <1>1 DEF ColumnAccepted, WithVersion
  <2>2. y.rec = x.rec
    OBVIOUS
  <2> HIDE DEF y
  <2>3. (\E row \in e.rows : row.rec = r)
          <=> (r = x.rec \/ \E row \in d.rows : row.rec = r)
    BY <1>1, <2>1, ApplyColumnRows DEF Texts
  <2>4. (\E v \in e.versions : v.rec = r)
          <=> (r = x.rec \/ \E v \in d.versions : v.rec = r)
    BY <2>1, <2>2 DEF SameKey
  <2> QED
    BY <2>1, <2>3, <2>4 DEF Tracked, Entombed
<1>2. CASE ~ IsTombstoned(d, x) /\ e = DeletionAccepted(d, x)
  <2> DEFINE y == [rec |-> x.rec, dv |-> x.dv, node |-> x.node,
                   local |-> Later(d.clock, x.dv)]
  <2>1. /\ e.versions = d.versions
        /\ e.rows = {row \in d.rows : row.rec # x.rec}
        /\ e.tombs = {t \in d.tombs : t.rec # x.rec} \cup {y}
    BY <1>2 DEF DeletionAccepted, WithTombstone, RowsBut
  <2>2. y.rec = x.rec
    OBVIOUS
  <2> HIDE DEF y
  <2> QED
    BY <2>1, <2>2 DEF Tracked, Entombed
<1>3. CASE e = Rejected(d, x)
  <2>1. e.rows = d.rows /\ e.versions = d.versions /\ e.tombs = d.tombs
    BY <1>3 DEF Rejected, Database
  <2> QED
    BY <2>1 DEF Tracked, Entombed
<1> QED
  BY <1>1, <1>2, <1>3 DEF MergedTo

\* A statement that writes or deletes the row of record r, and the rows of
\* the pending table that its triggers leave: no cell changes unreported.
Writes(d, r, rows, pend) ==
  /\ \A row : row.rec # r => (row \in rows <=> row \in d.rows)
  /\ \A a, b \in rows : a.rec = b.rec => a = b
  /\ \A p \in pend : p.rec = r
  /\ pend # {}
  /\ \/ /\ \A p \in pend : p.op = "DELETE"
        /\ \A row \in rows : row.rec # r
     \/ /\ \A p \in pend : p.op # "DELETE"
        /\ \E row \in rows : row.rec = r
        /\ \A c \in Column :
             \/ \E p \in pend : p.col = c
             \/ \E old \in d.rows, new \in rows :
                  old.rec = r /\ new.rec = r /\ old.cells[c] = new.cells[c]

\* Other records are as they were; the record written is tracked, deleted or
\* was buried before.
LEMMA ProcessedRecords ==
  ASSUME NEW d, NEW f, NEW r \in Record, NEW rows, NEW pend, NEW n,
         Writes(d, r, rows, pend),
         f.rows = rows, f.versions = d.versions, f.tombs = d.tombs,
         NEW e, e = ProcessPending(f, n, pend)
  PROVE  /\ \A row : row.rec # r => (row \in e.rows <=> row \in d.rows)
         /\ \A v : v.rec # r => (v \in e.versions <=> v \in d.versions)
         /\ \A t : t.rec # r => (t \in e.tombs <=> t \in d.tombs)
         /\ \/ /\ \E row \in e.rows : row.rec = r
               /\ \E v \in e.versions : v.rec = r
               /\ \A t \in e.tombs : t.rec # r
            \/ /\ \A row \in e.rows : row.rec # r
               /\ Entombed(e, r)
<1>1. /\ e.rows = {row \in rows : ~ \E p \in pend :
                     p.rec = row.rec /\ p.rec \in Buried(f, pend)}
      /\ e.versions = {v \in d.versions : /\ v.rec \notin Deleted(pend)
                                          /\ \A p \in Written(f, pend) : ~ SameKey(v, p)}
                        \cup {NextVersion(f, n, p) : p \in Written(f, pend)}
      /\ e.tombs = {t \in d.tombs : t.rec \notin Deleted(pend)}
                     \cup {NextTombstone(f, n, q) : q \in Deleted(pend)}
  BY DEF ProcessPending
<1>2. /\ \A p : NextVersion(f, n, p).rec = p.rec
      /\ \A q : NextTombstone(f, n, q).rec = q
  BY DEF NextVersion, NextTombstone
<1>3. \A q : q \in Deleted(pend) => q = r
  BY DEF Deleted, Writes
<1>4. \A p \in Written(f, pend) : p.rec = r
  BY DEF Written, Writes
<1>5. \A row : row.rec # r => (row \in e.rows <=> row \in d.rows)
  BY <1>1 DEF Writes
<1>6. \A v : v.rec # r => (v \in e.versions <=> v \in d.versions)
  BY <1>1, <1>2, <1>3, <1>4 DEF SameKey
<1>7. \A t : t.rec # r => (t \in e.tombs <=> t \in d.tombs)
  BY <1>1, <1>2, <1>3
<1>8. \/ /\ \E row \in e.rows : row.rec = r
         /\ \E v \in e.versions : v.rec = r
         /\ \A t \in e.tombs : t.rec # r
      \/ /\ \A row \in e.rows : row.rec # r
         /\ Entombed(e, r)
  <2>1. CASE /\ \A p \in pend : p.op = "DELETE"
             /\ \A row \in rows : row.rec # r
    <3>1. r \in Deleted(pend)
      BY <2>1 DEF Deleted, Writes
    <3>2. Entombed(e, r)
      BY <1>1, <1>2, <3>1 DEF Entombed
    <3> QED
      BY <1>1, <2>1, <3>2
  <2>2. CASE /\ \A p \in pend : p.op # "DELETE"
             /\ \E row \in rows : row.rec = r
    <3>1. Deleted(pend) = {}
      BY <2>2 DEF Deleted
    <3>2. e.tombs = d.tombs
      BY <1>1, <3>1
    <3>3. Buried(f, pend) = {t.rec : t \in d.tombs}
      BY <3>1 DEF Buried
    <3>4. CASE r \in {t.rec : t \in d.tombs}
      <4>1. \A row \in e.rows : row.rec # r
        BY <1>1, <3>3, <3>4 DEF Writes
      <4> QED
        BY <3>2, <3>4, <4>1 DEF Entombed
    <3>5. CASE r \notin {t.rec : t \in d.tombs}
      <4>1. PICK p \in pend : p.rec = r
        BY DEF Writes
      <4>2. p \in Written(f, pend)
        BY <2>2, <3>3, <3>5, <4>1 DEF Written
      <4>3. \E v \in e.versions : v.rec = r
        BY <1>1, <1>2, <4>1, <4>2
      <4>4. \E row \in e.rows : row.rec = r
        BY <1>1, <2>2, <3>3, <3>5
      <4> QED
        BY <3>2, <3>5, <4>3, <4>4
    <3> QED
      BY <3>4, <3>5
  <2> QED
    BY <2>1, <2>2 DEF Writes
<1> QED
  BY <1>5, <1>6, <1>7, <1>8

LEMMA ProcessedTracked ==
  ASSUME NEW d, NEW f, NEW r \in Record, NEW rows, NEW pend, NEW n,
         Writes(d, r, rows, pend),
         f.rows = rows, f.versions = d.versions, f.tombs = d.tombs,
         NEW e, e = ProcessPending(f, n, pend),
         NEW q \in Record, Tracked(d, q)
  PROVE  Tracked(e, q)
BY ProcessedRecords DEF Tracked, Entombed

-----------------------------------------------------------------------------
(* What a database and a batch say of the values of versions.              *)

Shown(d) == {[stamp |-> Stamp(v), val |-> WireValue(d.rows, v)] : v \in d.versions}

Told(changes) ==
  {[stamp |-> Stamp(x), val |-> x.val] : x \in {y \in changes : y.col # NoColumn}}

LEMMA ExportTells ==
  ASSUME NEW d \in Database, NEW since, NEW excluded
  PROVE  /\ Told(GetChangesSince(d, since, excluded)) \subseteq Shown(d)
         /\ Texts(GetChangesSince(d, since, excluded))
         /\ \A x \in GetChangesSince(d, since, excluded) :
              x.col = NoColumn => Entombed(d, x.rec)
<1>1. ASSUME NEW x \in GetChangesSince(d, since, excluded)
      PROVE  \/ \E v \in d.versions : /\ x = ColumnChange(d.rows, v)
                                      /\ x.col # NoColumn /\ Stamp(x) = Stamp(v)
                                      /\ x.val = WireValue(d.rows, v)
                                      /\ x.val # Null
             \/ \E t \in d.tombs : x.rec = t.rec /\ x.col = NoColumn
  <2>1. CASE \E v \in d.versions : x = ColumnChange(d.rows, v)
    <3>1. PICK v \in d.versions : x = ColumnChange(d.rows, v)
      BY <2>1
    <3>2. v \in VersionRow /\ d.rows \in SUBSET Row
      BY DEF Database
    <3>3. v.col \in Column /\ v.col # NoColumn
      BY <3>2, ColumnAssumption DEF VersionRow
    <3>4. WireValue(d.rows, v) \in Value
      BY <3>2, <3>3, WireValueType
    <3>5. WireValue(d.rows, v) # Null
      BY <3>4, ValueAssumption
    <3> QED
      BY <3>1, <3>3, <3>5 DEF ColumnChange, Stamp
  <2>2. CASE \E t \in d.tombs : x = Deletion(t)
    BY <2>2 DEF Deletion
  <2> QED
    BY <1>1, <2>1, <2>2 DEF GetChangesSince, Fresh
<1> QED
  BY <1>1 DEF Told, Shown, Texts, Entombed

LEMMA MergedSays ==
  ASSUME NEW d \in Database, KeysUnique(d),
         NEW x \in Change, Texts({x}), NEW e, MergedTo(d, x, e), KeysUnique(e),
         NEW f \in Shown(e), ~ Entombed(e, f.stamp.rec), Tracked(d, f.stamp.rec)
  PROVE  f \in Shown(d) \cup Told({x})
<1>0. PICK v \in e.versions : f = [stamp |-> Stamp(v), val |-> WireValue(e.rows, v)]
  BY DEF Shown
<1>1. f.stamp = Stamp(v) /\ f.val = WireValue(e.rows, v) /\ f.stamp.rec = v.rec
  BY <1>0 DEF Stamp
<1>2. /\ \A a, b \in d.rows : a.rec = b.rec => a = b
      /\ \A a, b \in e.rows : a.rec = b.rec => a = b
  BY DEF KeysUnique
<1>3. v \in d.versions /\ WireValue(e.rows, v) = WireValue(d.rows, v)
        => f \in Shown(d)
  BY <1>0 DEF Shown
<1>4. CASE x.col # NoColumn /\ e = ColumnAccepted(d, x)
  <2> DEFINE y == [rec |-> x.rec, col |-> x.col, cv |-> x.cv, dv |-> x.dv,
                   node |-> x.node, local |-> Later(d.clock, x.dv)]
  <2>1. /\ e.tombs = d.tombs
        /\ e.versions = {u \in d.versions : ~ SameKey(u, x)} \cup {y}
        /\ e.rows = ApplyColumn(d.rows, x)
    BY <1>4 DEF ColumnAccepted, WithVersion
  <2>2. Stamp(y) = Stamp(x) /\ y.rec = x.rec /\ y.col = x.col
    BY DEF Stamp
  <2> HIDE DEF y
  <2>3. x.col \in Column /\ x.val # Null
    BY <1>4 DEF Change, Texts
  <2>4. CASE v = y
    <3>1. PICK new \in e.rows : new.rec = x.rec /\ new.cells[x.col] = x.val
      BY <2>1, <2>3, ApplyColumnCells
    <3>2. WireValue(e.rows, v) = x.val
      BY <1>2, <2>2, <2>3, <2>4, <3>1, WireValueIs DEF Text
    <3> QED
      BY <1>0, <1>4, <2>2, <2>4, <3>2 DEF Told
  <2>5. CASE v \in d.versions /\ ~ SameKey(v, x)
    <3>1. CASE v.rec # x.rec
      <4>1. \A row : row.rec = v.rec => (row \in e.rows <=> row \in d.rows)
        BY <2>1, <2>3, <3>1, ApplyColumnCells
      <4> QED
        BY <1>2, <1>3, <2>5, <4>1, SameRowSameValue
    <3>2. CASE v.rec = x.rec
      <4>1. v.col \in Column \ {x.col} /\ v.rec \in Record
        BY <2>5, <3>2 DEF SameKey, Database, VersionRow
      <4>2. ~ Entombed(d, v.rec)
        BY <1>1, <2>1 DEF Entombed
      <4>3. PICK row \in d.rows : row.rec = v.rec
        BY <1>1, <2>5, <4>1, <4>2 DEF Tracked
      <4>4. PICK new \in e.rows :
              new.rec = x.rec /\ new.cells[v.col] = row.cells[v.col]
        BY <2>1, <2>3, <3>2, <4>1, <4>3, ApplyColumnCells
      <4>5. WireValue(e.rows, v) = WireValue(d.rows, v)
        BY <1>2, <3>2, <4>3, <4>4, WireValueIs
      <4> QED
        BY <1>3, <2>5, <4>5
    <3> QED
      BY <3>1, <3>2
  <2> QED
    BY <2>1, <2>4, <2>5
<1>5. CASE x.col = NoColumn /\ e = DeletionAccepted(d, x)
  <2> DEFINE y == [rec |-> x.rec, dv |-> x.dv, node |-> x.node,
                   local |-> Later(d.clock, x.dv)]
  <2>1. /\ e.versions = d.versions
        /\ e.rows = {row \in d.rows : row.rec # x.rec}
        /\ y \in e.tombs
    BY <1>5 DEF DeletionAccepted, WithTombstone, RowsBut
  <2>2. v.rec # x.rec
    BY <1>1, <2>1 DEF Entombed
  <2>3. WireValue(e.rows, v) = WireValue(d.rows, v)
    BY <1>2, <2>1, <2>2, SameRowSameValue
  <2> QED
    BY <1>3, <2>1, <2>3
<1>6. CASE e = Rejected(d, x)
  <2>1. e.rows = d.rows /\ e.versions = d.versions
    BY <1>6 DEF Rejected, Database
  <2> QED
    BY <1>3, <2>1
<1> QED
  BY <1>4, <1>5, <1>6 DEF MergedTo

LEMMA ProcessedSays ==
  ASSUME NEW d \in Database, KeysUnique(d), NEW g, NEW r \in Record,
         NEW rows, NEW pend, NEW n, Writes(d, r, rows, pend),
         g.rows = rows, g.versions = d.versions, g.clock = d.clock,
         NEW e, e = ProcessPending(g, n, pend),
         NEW f \in Shown(e), ~ Entombed(e, f.stamp.rec)
  PROVE  f \in Shown(d) \/ (f.stamp.dv = d.clock + 1 /\ f.stamp.node = n)
<1>0. PICK v \in e.versions : f = [stamp |-> Stamp(v), val |-> WireValue(e.rows, v)]
  BY DEF Shown
<1>1. f.stamp = Stamp(v) /\ f.stamp.rec = v.rec
      /\ f.stamp.dv = v.dv /\ f.stamp.node = v.node
  BY <1>0 DEF Stamp
<1>2. /\ e.rows = {row \in rows : ~ \E p \in pend :
                     p.rec = row.rec /\ p.rec \in Buried(g, pend)}
      /\ e.versions = {u \in d.versions : /\ u.rec \notin Deleted(pend)
                                          /\ \A p \in Written(g, pend) : ~ SameKey(u, p)}
                        \cup {NextVersion(g, n, p) : p \in Written(g, pend)}
      /\ e.tombs = {t \in g.tombs : t.rec \notin Deleted(pend)}
                     \cup {NextTombstone(g, n, q) : q \in Deleted(pend)}
  BY DEF ProcessPending
<1>3. /\ \A p : NextVersion(g, n, p).dv = d.clock + 1 /\ NextVersion(g, n, p).node = n
      /\ \A q : NextTombstone(g, n, q).rec = q
  BY DEF NextVersion, NextTombstone
<1>4. \A q \in Buried(g, pend) : Entombed(e, q)
  BY <1>2, <1>3 DEF Buried, Entombed
<1>5. v.rec \notin Buried(g, pend)
  BY <1>1, <1>4
<1>6. \A row : row.rec = v.rec => (row \in e.rows <=> row \in rows)
  BY <1>2, <1>5
<1>7. /\ \A a, b \in d.rows : a.rec = b.rec => a = b
      /\ \A a, b \in rows : a.rec = b.rec => a = b
      /\ \A a, b \in e.rows : a.rec = b.rec => a = b
  BY <1>2 DEF KeysUnique, Writes
<1>8. WireValue(e.rows, v) = WireValue(rows, v)
  BY <1>6, <1>7, SameRowSameValue
<1>9. ASSUME v \in d.versions, \A p \in Written(g, pend) : ~ SameKey(v, p)
      PROVE  WireValue(rows, v) = WireValue(d.rows, v)
  <2>1. CASE v.rec # r
    <3>1. \A row : row.rec = v.rec => (row \in rows <=> row \in d.rows)
      BY <2>1 DEF Writes
    <3> QED
      BY <1>7, <3>1, SameRowSameValue
  <2>2. CASE v.rec = r
    <3>1. r \notin Deleted(pend)
      BY <1>5, <2>2 DEF Buried
    <3>2. \A p \in pend : p.op # "DELETE" /\ p.rec = r
      BY <3>1 DEF Deleted, Writes
    <3>3. \A p \in pend : p \in Written(g, pend)
      BY <1>5, <2>2, <3>2 DEF Written
    <3>4. \A p \in pend : p.col # v.col
      BY <1>9, <2>2, <3>2, <3>3 DEF SameKey
    <3>5. v.col \in Column
      BY <1>9 DEF Database, VersionRow
    <3>6. PICK old \in d.rows, new \in rows :
            old.rec = r /\ new.rec = r /\ old.cells[v.col] = new.cells[v.col]
      BY <3>2, <3>4, <3>5 DEF Writes
    <3> QED
      BY <1>7, <2>2, <3>6, WireValueIs
  <2> QED
    BY <2>1, <2>2
<1>10. CASE v \in d.versions /\ \A p \in Written(g, pend) : ~ SameKey(v, p)
  <2>1. WireValue(e.rows, v) = WireValue(d.rows, v)
    BY <1>8, <1>9, <1>10
  <2> QED
    BY <1>0, <1>10, <2>1 DEF Shown
<1>11. CASE \E p \in Written(g, pend) : v = NextVersion(g, n, p)
  BY <1>1, <1>3, <1>11
<1> QED
  BY <1>2, <1>10, <1>11
=============================================================================
