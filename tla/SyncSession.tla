----------------------------- MODULE SyncSession -----------------------------
(***************************************************************************)
(* The synchronization workflow on top of the library: every replica asks  *)
(* every other for the changes beyond its cursor, leaving out those it     *)
(* made itself, merges the page it gets and then moves the cursor; and now *)
(* and then it compacts its tombstones.                                    *)
(*                                                                         *)
(* The library's calls (get_changes_since_excluding, merge_changes,        *)
(* compact_tombstones) are as in the code.  The loop around them is the    *)
(* application's: the repository describes it and leaves the cursors, the  *)
(* network and the acknowledgements to its user.                           *)
(***************************************************************************)
EXTENDS CrdtDatabase, SequencesExt

CONSTANTS
  UserCell,   \* the cells that users write
  Parsed,     \* the INTEGER and REAL columns, which have no value for "NULL"
  Contract,   \* when compact_tombstones is called: "acknowledged", "settled"
  MaxWrites,  \* bound on the transactions of users
  MaxFaults,  \* bound on lost replies and lost cursors
  MaxClock    \* bound on every clock, beyond what MaxWrites lets it reach

\* A table has columns, finitely many.
ASSUME TableAssumption    == Column # {} /\ IsFiniteSet(Column)
ASSUME UserCellAssumption == UserCell \subseteq Cell
ASSUME ParsedAssumption   == Parsed \subseteq Column
ASSUME ContractAssumption == Contract \in {"acknowledged", "settled"}
ASSUME BoundAssumption    == {MaxWrites, MaxFaults, MaxClock} \subseteq Nat

VARIABLES
  db,       \* db[n]: n's database file
  cursor,   \* cursor[m][n]: the local_db_version of n that m has come to
  page,     \* page[m][n]: n's answer to m, on its way or being merged
  mourned,  \* history: the tombstones that n ever had
  writes,   \* the transactions of users so far
  faults    \* the lost replies and lost cursors so far

vars == <<db, cursor, page, mourned, writes, faults>>

\* A change as get_changes_since returns it, with its local_db_version.
SentChange == [change : Change, local : Nat]

Sent(x, row) == [change |-> x, local |-> row.local]

SentColumns(d, since, excluded) ==
  {Sent(ColumnChange(d.rows, v), v) : v \in Fresh(d.versions, since, excluded)}

SentDeletions(d, since, excluded) ==
  {Sent(Deletion(t), t) : t \in Fresh(d.tombs, since, excluded)}

\* Faulty variant: a full answer leaves the tombstones out.
ColumnPages(d, since, excluded) == SetToSeqs(SentColumns(d, since, excluded))

ColumnsFirst(p) ==
  \A i, j \in DOMAIN p :
    i < j /\ p[i].change.col = NoColumn => p[j].change.col = NoColumn

\* get_changes_since_excluding: the columns in an order of SQLite's choice,
\* then the tombstones.
Pages(d, since, excluded) ==
  {p \in SetToSeqs(SentColumns(d, since, excluded)
                     \cup SentDeletions(d, since, excluded)) : ColumnsFirst(p)}

\* The loop of merge_changes, which leaves the increment of the clock to its
\* end.
MergeOne(d, x) == [Merged(d, x) EXCEPT !.clock = @ - 1]

\* The view of the transaction after the first i changes, for each i.
Views(d, batch) ==
  LET view[i \in 0 .. Len(batch)] ==
        IF i = 0 THEN d ELSE MergeOne(view[i - 1], batch[i].change)
  IN  view

\* merge_changes: the whole batch in one transaction, the clock once.
MergeChanges(d, batch) == [Views(d, batch)[Len(batch)] EXCEPT !.clock = @ + 1]

\* from_string throws on the text of NULL for a number, at any change of the
\* batch that has come to be applied: then merge_changes rolls all of it back.
Refuses(d, batch) ==
  \E i \in DOMAIN batch :
    LET x == batch[i].change
    IN  x.col \in Parsed /\ x.val = NullText /\ Accepts(Views(d, batch)[i - 1], x)

NoPage == << >>

\* The node ids that m leaves out of its questions.
Excluded(m) == {m}

Init ==
  /\ db = [n \in Node |-> EmptyDatabase]
  /\ cursor = [m \in Node |-> [n \in Node |-> 0]]
  /\ page = [m \in Node |-> [n \in Node |-> NoPage]]
  /\ mourned = [n \in Node |-> {}]
  /\ writes = 0
  /\ faults = 0

\* n's file becomes d.
Store(n, d) ==
  /\ db' = [db EXCEPT ![n] = d]
  /\ mourned' = [mourned EXCEPT ![n] = @ \cup
                   {[rec |-> t.rec, dv |-> t.dv, node |-> t.node] : t \in d.tombs}]

-----------------------------------------------------------------------------
(* Transactions of the user and the process_pending_changes after them.    *)

Commit(n, rows, pend) ==
  /\ writes < MaxWrites
  /\ db[n].clock < MaxClock
  /\ writes' = writes + 1
  /\ Store(n, ProcessPending([db[n] EXCEPT !.rows = rows], n, pend))
  /\ UNCHANGED <<cursor, page, faults>>

InsertRow(n) ==
  \E r \in Record, cells \in [Column -> UserCell] :
    Commit(n, RowsBut(db[n].rows, r) \cup {[rec |-> r, cells |-> cells]},
           [op : {"INSERT"}, rec : {r}, col : Column])

UpdateRow(n) ==
  \E row \in db[n].rows, c \in Column, cell \in UserCell :
    /\ row.cells[c] # cell
    /\ Commit(n, RowsBut(db[n].rows, row.rec)
                   \cup {[row EXCEPT !.cells[c] = cell]},
              {[op |-> "UPDATE", rec |-> row.rec, col |-> c]})

DeleteRow(n) ==
  \E row \in db[n].rows :
    Commit(n, db[n].rows \ {row},
           {[op |-> "DELETE", rec |-> row.rec, col |-> NoColumn]})

-----------------------------------------------------------------------------
(* The loop of the application that pulls from n into m.                   *)

Ask(m, n) ==
  /\ m # n
  /\ page[m][n] = NoPage
  /\ \E p \in Pages(db[n], cursor[m][n], Excluded(m)) :
       /\ p # NoPage
       /\ page' = [page EXCEPT ![m][n] = p]
  /\ UNCHANGED <<db, cursor, mourned, writes, faults>>

MergePage(m, n) ==
  /\ page[m][n] # NoPage
  /\ ~ Refuses(db[m], page[m][n])
  /\ db[m].clock < MaxClock
  /\ \E d \in {MergeChanges(db[m], page[m][n])} : Store(m, d)
  /\ page' = [page EXCEPT ![m][n] = NoPage]
  /\ UNCHANGED writes

\* Faulty variant: the cursor is n's clock when the page has been merged.
DeliverAtClock(m, n) ==
  /\ MergePage(m, n)
  /\ cursor' = [cursor EXCEPT ![m][n] = db[n].clock]
  /\ UNCHANGED faults

\* The greatest local_db_version of the page is the next last_db_version.
Deliver(m, n) ==
  /\ MergePage(m, n)
  /\ cursor' = [cursor EXCEPT ![m][n] = Max({x.local : x \in ToSet(page[m][n])})]
  /\ UNCHANGED faults

Fail == faults < MaxFaults /\ faults' = faults + 1

\* The page is merged and the process dies before it keeps the cursor, so
\* that the same changes come again.
DeliverAgain(m, n) ==
  /\ Fail
  /\ MergePage(m, n)
  /\ UNCHANGED cursor

\* merge_changes throws; the application keeps its cursor and asks again.
RefusePage(m, n) ==
  /\ page[m][n] # NoPage
  /\ Refuses(db[m], page[m][n])
  /\ page' = [page EXCEPT ![m][n] = NoPage]
  /\ UNCHANGED <<db, cursor, mourned, writes, faults>>

LosePage(m, n) ==
  /\ Fail
  /\ page[m][n] # NoPage
  /\ page' = [page EXCEPT ![m][n] = NoPage]
  /\ UNCHANGED <<db, cursor, mourned, writes>>

-----------------------------------------------------------------------------
(* compact_tombstones.                                                     *)

NothingToPull(m, n) ==
  /\ page[m][n] = NoPage
  /\ Fresh(db[n].versions, cursor[m][n], Excluded(m)) = {}
  /\ Fresh(db[n].tombs, cursor[m][n], Excluded(m)) = {}

\* Every replica has all that the others would send it.
Synced == \A m, n \in Node : m # n => NothingToPull(m, n)

\* No replica has anything of record r to send to another.
Settled(r) ==
  \A m, n \in Node : m # n =>
    /\ \A x \in ToSet(page[m][n]) : x.change.rec # r
    /\ \A v \in Fresh(db[n].versions, cursor[m][n], Excluded(m)) : v.rec # r
    /\ \A t \in Fresh(db[n].tombs, cursor[m][n], Excluded(m)) : t.rec # r

\* Faulty variant: whenever the tombstones of one's own are sent.
SentFirst(n, version) == \A m \in Node \ {n} : NothingToPull(m, n)

\* What the documentation asks for: every other node has acknowledged the
\* version, its cursor being there.  And what is needed instead: the records
\* whose tombstones go are settled.
MayCompact(n, version) ==
  IF Contract = "settled"
    THEN \A t \in db[n].tombs : t.dv < version => Settled(t.rec)
    ELSE \A m \in Node \ {n} : version <= cursor[m][n]

CompactTombstones(n) ==
  \E version \in {t.dv + 1 : t \in db[n].tombs} :
    /\ MayCompact(n, version)
    /\ db' = [db EXCEPT ![n].tombs = {t \in @ : t.dv >= version}]
    /\ UNCHANGED <<cursor, page, mourned, writes, faults>>

-----------------------------------------------------------------------------
Pull(m, n) ==
  \/ Ask(m, n)
  \/ Deliver(m, n)
  \/ DeliverAgain(m, n)
  \/ RefusePage(m, n)
  \/ LosePage(m, n)

Next ==
  \/ \E n \in Node : \/ InsertRow(n)
                     \/ UpdateRow(n)
                     \/ DeleteRow(n)
                     \/ CompactTombstones(n)
  \/ \E m, n \in Node : Pull(m, n)

Spec == Init /\ [][Next]_vars

\* The loops of the applications.
Loops == \E m, n \in Node : Ask(m, n) \/ Deliver(m, n) \/ RefusePage(m, n)

\* The applications keep asking and merging what they get, somewhere: not
\* even that each of them does is assumed, nor anything of users, compaction
\* and the network.
FairSpec == Spec /\ WF_vars(Loops)

-----------------------------------------------------------------------------
(* Properties.                                                             *)

Mourning == [rec : Record, dv : Nat, node : Node]

\* Every variable has its type, the primary keys hold, and no cursor is ahead
\* of the clock it was read from.
TypeOK ==
  /\ db \in [Node -> Database] /\ \A n \in Node : KeysUnique(db[n])
  /\ cursor \in [Node -> [Node -> Nat]]
  /\ \A m, n \in Node : cursor[m][n] <= db[n].clock
  /\ page \in [Node -> [Node -> Seq(SentChange)]]
  /\ \A m, n \in Node : \A x \in ToSet(page[m][n]) : x.local <= db[n].clock
  /\ mourned \in [Node -> SUBSET Mourning]
  /\ writes \in 0 .. MaxWrites /\ faults \in 0 .. MaxFaults

Mourns(m, t) == \E u \in mourned[m] : u.rec = t.rec /\ NotBefore(u, t)

\* Replica m has v or a greater version, or had the record deleted.
Covers(m, v) ==
  \/ \E u \in db[m].versions : SameKey(u, v) /\ AtLeast(u, v)
  \/ \E u \in mourned[m] : u.rec = v.rec

\* What lies behind a cursor is never asked for again, so the replica that
\* keeps the cursor has it: pages that were lost, that overlap or that came
\* twice leave no gap in what a replica wrote itself.  (What it merged from a
\* third may fall behind the cursor, and comes from the third only.)
CursorsLeaveNoGap ==
  \A m, n \in Node : m # n =>
    /\ \A v \in db[n].versions :
         v.node = n /\ v.local <= cursor[m][n] => Covers(m, v)
    /\ \A t \in db[n].tombs :
         t.node = n /\ t.local <= cursor[m][n] => Mourns(m, t)

NeverDeleted(r) == \A n \in Node : \A t \in mourned[n] : t.rec # r

\* Every other replica has come past what n wrote itself of record r.
OwnPulled(r) ==
  \A m, n \in Node : m # n =>
    \A x \in db[n].versions \cup db[n].tombs :
      x.rec = r /\ x.node = n => x.local <= cursor[m][n]

\* When every replica has come past what the others wrote themselves of a
\* record, whatever they still hand on to each other, all have the same
\* deletions of it behind them and, if it was never deleted, the same
\* versions with the same values.
SyncedReplicasAgree ==
  \A r \in Record : OwnPulled(r) =>
    \A m, n \in Node :
      /\ \A t \in mourned[m] : t.rec = r => Mourns(n, t)
      /\ \A v \in db[m].versions : v.rec = r /\ NeverDeleted(r) =>
           \E u \in db[n].versions :
             /\ Stamp(u) = Stamp(v)
             /\ WireValue(db[n].rows, u) = WireValue(db[m].rows, v)

\* merge_changes throws on the page that m got of n.
Refused(m, n) == page[m][n] # NoPage /\ Refuses(db[m], page[m][n])

\* However often two replicas write, lose pages and lose cursors, they come
\* to a point where nothing is left to pull, or to a page that is refused for
\* ever.  (Three replicas may not, see NoEcho.)
SyncedOrRefused == []<>Synced \/ []<>(\E m, n \in Node : Refused(m, n))

\* "Automatic multi-node synchronization": nothing is refused for ever.  (A
\* number that is updated at one node while its record is deleted at another
\* is.)
EventuallySynced == []<>Synced

\* What n has, whatever the local_db_version it has it at.
Contents(n) ==
  {Stamp(v) : v \in db[n].versions}
    \cup {[rec |-> t.rec, dv |-> t.dv, node |-> t.node] : t \in db[n].tombs}

\* get_changes_since returns the "changes that occurred after
\* last_db_version": who has pulled all that n has is sent nothing again
\* until n has something else.  (From the third replica on a version that a
\* replica has already is accepted again, and sent again.)
NoEcho ==
  [][\A m, n \in Node :
       m # n /\ NothingToPull(m, n) /\ Contents(n)' = Contents(n)
         => NothingToPull(m, n)']_vars

\* The versions that a step adds to n.
Added(n) == {v \in db'[n].versions : \A u \in db[n].versions : Stamp(u) # Stamp(v)}

\* Once a replica has known a deletion, no version that the deletion screens
\* enters its tables, even after compact_tombstones removed the tombstone.
\* Under the contract "settled" this holds; what the documentation asks of
\* the caller before it compacts ("acknowledged") is not enough.
NoResurrection ==
  [][\A n \in Node : \A v \in Added(n) :
       ~ \E t \in mourned[n] : t.rec = v.rec /\ Screens(t, v)]_vars

=============================================================================
