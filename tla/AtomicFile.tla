----------------------------- MODULE AtomicFile -----------------------------
(***************************************************************************)
(* What a database file promises: a committed transaction and the          *)
(* versions of all it changed appear in one step, and a merge in one step. *)
(* CrdtReplication builds on this; ChangeTracking implements it as long as *)
(* nothing fails and one connection is open.                               *)
(***************************************************************************)
EXTENDS CrdtDatabase

CONSTANTS
  Self,      \* the node id of the file's connections
  Incoming   \* the remote changes that may be merged

VARIABLE db

Entry == {p \in Pending : p.op = "DELETE" <=> p.col = NoColumn}

\* The contents that the tracked table can have.
Contents ==
  UNION {{{[rec |-> r, cells |-> cells[r]] : r \in present} :
            cells \in [present -> [Column -> Cell]]} :
         present \in SUBSET Record}

\* The triggers report every row that went away and every column that came
\* or changed between two contents of the tracked table.
Reports(pend, before, after) ==
  /\ \A row \in before : (~ \E new \in after : new.rec = row.rec) =>
       \E p \in pend : p.op = "DELETE" /\ p.rec = row.rec
  /\ \A row \in after, k \in Column :
       (~ \E old \in before : old.rec = row.rec /\ old.cells[k] = row.cells[k])
         => \E p \in pend : p.rec = row.rec /\ p.col = k

Init == db = EmptyDatabase

Transaction ==
  \E rows \in Contents, pend \in SUBSET Entry :
    /\ pend # {}
    /\ Reports(pend, db.rows, rows)
    /\ db' = ProcessPending([db EXCEPT !.rows = rows], Self, pend)

Merge == \E x \in Incoming : db' = Merged(db, x)

\* Each of them advances the clock.
Next == db'.clock > db.clock /\ (Transaction \/ Merge)

Spec == Init /\ [][Next]_db
=============================================================================
