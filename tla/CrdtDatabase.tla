---------------------------- MODULE CrdtDatabase ----------------------------
(***************************************************************************)
(* The tables of one crdt-sqlite database file and what the C++ class      *)
(* CRDTSQLite does to them, as operators without state: the comparison of  *)
(* versions, get_changes_since, process_pending_changes and one iteration  *)
(* of the loop of merge_changes.  A table is the set of its rows.          *)
(***************************************************************************)
EXTENDS Integers, FiniteSets

CONSTANTS
  Node,      \* node ids; CrdtNodeId is an integer and breaks ties
  Record,    \* record ids
  Column,    \* columns of the tracked table, the primary key left out
  Value,     \* what a column holds besides NULL, in its text form
  Null,      \* SQL NULL in a row; std::nullopt in a change
  NullText,  \* the text that to_string makes of SQL NULL
  NoColumn   \* the col_name std::nullopt of a deletion

ASSUME NodeAssumption   == Node \subseteq Nat
ASSUME ColumnAssumption == NoColumn \notin Column
ASSUME ValueAssumption  == NullText \in Value /\ Null \notin Value

Cell == Value \cup {Null}

Row == [rec : Record, cells : [Column -> Cell]]

\* A row of _crdt_<table>_versions.  The three numbers of the LWW order are
\* cv (col_version), dv (db_version) and node; local is local_db_version.
VersionRow == [rec : Record, col : Column, cv : Nat, dv : Nat,
               node : Node, local : Nat]

\* A row of _crdt_<table>_tombstones.
TombRow == [rec : Record, dv : Nat, node : Node, local : Nat]

Database == [rows : SUBSET Row, versions : SUBSET VersionRow,
             tombs : SUBSET TombRow, clock : Nat]

\* The primary keys of the three tables.
KeysUnique(d) ==
  /\ \A a, b \in d.rows : a.rec = b.rec => a = b
  /\ \A a, b \in d.versions : a.rec = b.rec /\ a.col = b.col => a = b
  /\ \A a, b \in d.tombs : a.rec = b.rec => a = b

\* The clock is not behind any row of the shadow tables.
Dominated(d) ==
  /\ \A v \in d.versions : v.dv <= d.clock /\ v.local <= d.clock
  /\ \A t \in d.tombs : t.dv <= d.clock /\ t.local <= d.clock

EmptyDatabase == [rows |-> {}, versions |-> {}, tombs |-> {}, clock |-> 0]

\* struct Change; its local_db_version is not modelled, no one but the
\* reader's cursor looks at it.
Change == [rec : Record, col : Column \cup {NoColumn}, val : Cell,
           cv : Nat, dv : Nat, node : Node]

\* A row of _crdt_<table>_pending.
Pending == [op : {"INSERT", "UPDATE", "DELETE"}, rec : Record,
            col : Column \cup {NoColumn}]

-----------------------------------------------------------------------------
(* The orders that decide a merge.                                         *)

SameKey(x, y) == x.rec = y.rec /\ x.col = y.col

\* Faulty variant: the node id does not break a tie.
ScreensOlder(t, x) == t.dv > x.dv

\* merge_changes: tombstone t screens the change x.
Screens(t, x) ==
  \/ t.dv > x.dv
  \/ t.dv = x.dv /\ t.node >= x.node

\* Faulty variant: the lower node id breaks a tie.
LowerNodeWins(x, v) ==
  \/ x.cv > v.cv
  \/ x.cv = v.cv /\ x.dv > v.dv
  \/ x.cv = v.cv /\ x.dv = v.dv /\ x.node <= v.node

\* merge_changes: change x replaces the stored version v.
RemoteWins(x, v) ==
  \/ x.cv > v.cv
  \/ x.cv = v.cv /\ x.dv > v.dv
  \/ x.cv = v.cv /\ x.dv = v.dv /\ x.node >= v.node

IsTombstoned(d, x) == \E t \in d.tombs : t.rec = x.rec /\ Screens(t, x)

-----------------------------------------------------------------------------
(* Reading: get_changes_since and get_changes_since_excluding.             *)

\* The LEFT JOIN with the tracked table followed by to_string: a missing row
\* and a NULL column both travel as the text of NULL.
WireValue(rows, v) ==
  IF \E row \in rows : row.rec = v.rec /\ row.cells[v.col] # Null
    THEN (CHOOSE row \in rows :
            row.rec = v.rec /\ row.cells[v.col] # Null).cells[v.col]
    ELSE NullText

\* Faulty variant: local_db_version is sent as the db_version.
LocalChange(rows, v) ==
  [rec |-> v.rec, col |-> v.col, val |-> WireValue(rows, v),
   cv |-> v.cv, dv |-> v.local, node |-> v.node]

ColumnChange(rows, v) ==
  [rec |-> v.rec, col |-> v.col, val |-> WireValue(rows, v),
   cv |-> v.cv, dv |-> v.dv, node |-> v.node]

Deletion(t) ==
  [rec |-> t.rec, col |-> NoColumn, val |-> Null,
   cv |-> 1, dv |-> t.dv, node |-> t.node]

Fresh(table, since, excluded) ==
  {x \in table : x.local > since /\ x.node \notin excluded}

GetChangesSince(d, since, excluded) ==
  {ColumnChange(d.rows, v) : v \in Fresh(d.versions, since, excluded)}
    \cup {Deletion(t) : t \in Fresh(d.tombs, since, excluded)}

-----------------------------------------------------------------------------
(* Writing: process_pending_changes, run to its end on the pending rows of *)
(* one committed transaction.                                              *)

RowsBut(rows, r) == {row \in rows : row.rec # r}

CvOf(known) == IF known = {} THEN 0 ELSE (CHOOSE v \in known : TRUE).cv

\* version_cache: the stored col_version, 0 if the column has none.
ColVersion(versions, p) == CvOf({v \in versions : SameKey(v, p)})

Deleted(pend) == {p.rec : p \in {q \in pend : q.op = "DELETE"}}

Buried(d, pend) == Deleted(pend) \cup {t.rec : t \in d.tombs}

\* The pending rows that get a version: not those of a tombstoned record.
Written(d, pend) ==
  {p \in pend : p.op # "DELETE" /\ p.rec \notin Buried(d, pend)}

\* Faulty variant: local_db_version is the clock before its increment.
LateVersion(d, n, p) ==
  [rec |-> p.rec, col |-> p.col, cv |-> ColVersion(d.versions, p) + 1,
   dv |-> d.clock + 1, node |-> n, local |-> d.clock]

NextVersion(d, n, p) ==
  [rec |-> p.rec, col |-> p.col, cv |-> ColVersion(d.versions, p) + 1,
   dv |-> d.clock + 1, node |-> n, local |-> d.clock + 1]

NextTombstone(d, n, r) ==
  [rec |-> r, dv |-> d.clock + 1, node |-> n, local |-> d.clock + 1]

ProcessPending(d, n, pend) ==
  [rows     |-> {row \in d.rows : ~ \E p \in pend :
                    p.rec = row.rec /\ p.rec \in Buried(d, pend)},
   versions |-> {v \in d.versions : /\ v.rec \notin Deleted(pend)
                                    /\ \A p \in Written(d, pend) : ~ SameKey(v, p)}
                  \cup {NextVersion(d, n, p) : p \in Written(d, pend)},
   tombs    |-> {t \in d.tombs : t.rec \notin Deleted(pend)}
                  \cup {NextTombstone(d, n, r) : r \in Deleted(pend)},
   clock    |-> d.clock + 1]

-----------------------------------------------------------------------------
(* Merging: one iteration of the loop of merge_changes.  Its current_clock *)
(* is the clock of the transaction's view of the database.                 *)

\* Faulty variant: the clock ignores the db_version of remote changes.
OwnClock(a, b) == a

Later(a, b) == IF a >= b THEN a ELSE b

\* Faulty variants: no INSERT of a missing row, no UPDATE of a present one.
UpdateOnly(rows, x) ==
  {IF row.rec = x.rec THEN [row EXCEPT !.cells[x.col] = x.val] ELSE row :
     row \in rows}

InsertOnly(rows, x) ==
  IF x.val = Null \/ \E row \in rows : row.rec = x.rec
    THEN rows
    ELSE rows \cup
           {[rec |-> x.rec,
             cells |-> [c \in Column |-> IF c = x.col THEN x.val ELSE Null]]}

\* apply_to_sqlite for a column: INSERT or UPDATE of the one column.  A change
\* without a value inserts nothing.
ApplyColumn(rows, x) ==
  IF x.val = Null \/ \E row \in rows : row.rec = x.rec
    THEN {IF row.rec = x.rec THEN [row EXCEPT !.cells[x.col] = x.val]
                             ELSE row : row \in rows}
    ELSE rows \cup
           {[rec |-> x.rec,
             cells |-> [c \in Column |-> IF c = x.col THEN x.val ELSE Null]]}

\* Faulty variant: INSERT instead of INSERT OR REPLACE.
AppendVersion(versions, x, now) ==
  versions \cup {[rec |-> x.rec, col |-> x.col, cv |-> x.cv, dv |-> x.dv,
                 node |-> x.node, local |-> now]}

WithVersion(versions, x, now) ==
  {v \in versions : ~ SameKey(v, x)}
    \cup {[rec |-> x.rec, col |-> x.col, cv |-> x.cv, dv |-> x.dv,
           node |-> x.node, local |-> now]}

WithTombstone(tombs, x, now) ==
  {t \in tombs : t.rec # x.rec}
    \cup {[rec |-> x.rec, dv |-> x.dv, node |-> x.node, local |-> now]}

\* Faulty variant: whatever is not tombstoned is accepted.
AcceptsUntombstoned(d, x) == ~ IsTombstoned(d, x)

Accepts(d, x) ==
  /\ ~ IsTombstoned(d, x)
  /\ \A v \in d.versions : SameKey(v, x) => RemoteWins(x, v)

Rejected(d, x) == [d EXCEPT !.clock = Later(d.clock, x.dv)]

ColumnAccepted(d, x) ==
  LET now == Later(d.clock, x.dv)
  IN  [rows     |-> ApplyColumn(d.rows, x),
       versions |-> WithVersion(d.versions, x, now),
       tombs    |-> d.tombs,
       clock    |-> now]

\* Faulty variant: the row stays in the tracked table.
TombstoneOnly(d, x) ==
  LET now == Later(d.clock, x.dv)
  IN  [rows     |-> d.rows,
       versions |-> d.versions,
       tombs    |-> WithTombstone(d.tombs, x, now),
       clock    |-> now]

DeletionAccepted(d, x) ==
  LET now == Later(d.clock, x.dv)
  IN  [rows     |-> RowsBut(d.rows, x.rec),
       versions |-> d.versions,
       tombs    |-> WithTombstone(d.tombs, x, now),
       clock    |-> now]

\* The whole of merge_changes for the one change x.
Merged(d, x) ==
  LET e == IF x.col = NoColumn
             THEN IF IsTombstoned(d, x) THEN Rejected(d, x)
                                        ELSE DeletionAccepted(d, x)
             ELSE IF Accepts(d, x) THEN ColumnAccepted(d, x)
                                   ELSE Rejected(d, x)
  IN  [e EXCEPT !.clock = @ + 1]

-----------------------------------------------------------------------------
(* What properties say of versions and tombstones.                         *)

Stamp(x) == [rec |-> x.rec, col |-> x.col, cv |-> x.cv,
             dv |-> x.dv, node |-> x.node]

\* The changes that get_changes_since makes: each column carries a text, of
\* NULL too, where the caller of merge_changes could pass std::nullopt.
Texts(changes) == \A x \in changes : x.col # NoColumn => x.val # Null

\* The LWW order of the README: col_version, then db_version, then node id.
AtLeast(v, u) ==
  \/ v.cv > u.cv
  \/ v.cv = u.cv /\ v.dv > u.dv
  \/ v.cv = u.cv /\ v.dv = u.dv /\ v.node >= u.node

\* The order of deletions, which have no col_version.
NotBefore(x, y) == x.dv > y.dv \/ (x.dv = y.dv /\ x.node >= y.node)

\* Every tombstone of d is in e, or a later one of the same record is.
TombsKept(d, e) ==
  \A t \in d.tombs : \E u \in e.tombs : u.rec = t.rec /\ NotBefore(u, t)

\* Every version of d is in e, or a greater one, or the record is buried.
VersionsKept(d, e) ==
  \A v \in d.versions :
    \/ \E u \in e.versions : SameKey(u, v) /\ AtLeast(u, v)
    \/ \E t \in e.tombs : t.rec = v.rec /\ NotBefore(t, v)
=============================================================================
