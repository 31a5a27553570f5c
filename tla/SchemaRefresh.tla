---------------------------- MODULE SchemaRefresh ----------------------------
(***************************************************************************)
(* ALTER TABLE ADD COLUMN on the tracked table of one database file.       *)
(* What follows the new column: the triggers, which are in the file, and   *)
(* the cache of the columns and their types, which is in memory.  The      *)
(* authorizer notices the ALTER; execute() refreshes both after the        *)
(* statements it was given, statement by statement.  Transactions,         *)
(* failures, crashes and merges come in between.                           *)
(*                                                                         *)
(* The table has one row whose cells are followed; other rows come and go  *)
(* so that the triggers for them matter.  The values of a merge come from  *)
(* replicas that have the columns in the same types.                       *)
(***************************************************************************)
EXTENDS TypedValues

CONSTANTS
  Column,  \* the columns that the table may come to have
  Types,   \* the declared types in use
  Written, \* the values that users bind to a column
  Faults   \* what may happen: "rollback", "failure", "crash"

ASSUME ColumnAssumption  == "missing" \notin Column
ASSUME TypesAssumption   == Types \subseteq Declared
ASSUME WrittenAssumption == Written \subseteq Stored
ASSUME FaultsAssumption  == Faults \subseteq {"rollback", "failure", "crash"}

VARIABLES
  file,            \* the committed table, cells and triggers
  view,            \* the same as the connection's transaction sees it
  inTransaction,   \* BEGIN was executed
  column_types,    \* column_types_ and cached_columns_, in memory
  pending_refresh, \* pending_schema_refresh_, in memory
  pc,              \* where the connection is
  at,              \* the statement that the refresh has come to
  refused          \* history: the change that a merge has just thrown back

vars == <<file, view, inTransaction, column_types, pending_refresh, pc, at, refused>>

-----------------------------------------------------------------------------
Trigger == {"insert", "update", "delete"}

\* A trigger is the set of the columns it names; Missing if there is none.
Missing == {"missing"}

Places == {"closed", "idle", "executing", "refreshing", "by hand"}

\* origin: history, the value as it was first written.  blind: history, the
\* value was merged while the cache had another type for the column, or none.
Cell == [val : Stored, origin : Stored, blind : BOOLEAN]

SomeColumnsTo(S) == UNION {[columns -> S] : columns \in SUBSET Column}

\* The table maps its columns to their declared types.
Contents == [table : SomeColumnsTo(Types), cells : SomeColumnsTo(Cell),
             triggers : [Trigger -> (SUBSET Column) \cup {Missing}]]

WellFormed(d) == d \in Contents /\ DOMAIN d.cells = DOMAIN d.table

NullCell == [val |-> NullValue, origin |-> NullValue, blind |-> FALSE]

AllTriggers(columns) == [t \in Trigger |-> columns]

TypesOf(table) == [c \in DOMAIN table |-> KnownType(table[c])]

\* After enable_crdt on a table that has its primary key only, which is left
\* out here.
Init ==
  /\ file = [table |-> [c \in {} |-> "TEXT"], cells |-> [c \in {} |-> NullCell],
             triggers |-> AllTriggers({})]
  /\ view = file
  /\ inTransaction = FALSE
  /\ column_types = TypesOf(file.table)
  /\ pending_refresh = FALSE
  /\ pc = "idle"
  /\ at = 0
  /\ refused = {}

\* A statement leaves the database so: it commits at once unless a
\* transaction is open.
Leave(d) ==
  /\ view' = d
  /\ file' = IF inTransaction THEN file ELSE d

memory == <<column_types, pending_refresh>>

-----------------------------------------------------------------------------
(* Statements: those of an execute() that is under way, and those of       *)
(* prepare(), which nothing follows.                                       *)

Accessible == pc \in {"idle", "executing"}

StartExecute ==
  /\ pc = "idle"
  /\ pc' = "executing"
  /\ UNCHANGED <<file, view, inTransaction, memory, at>>

With(f, c, y) == [x \in DOMAIN f \cup {c} |-> IF x = c THEN y ELSE f[x]]

\* ALTER TABLE ADD COLUMN; the authorizer raises the flag.
AlterTable ==
  /\ Accessible
  /\ \E c \in Column \ DOMAIN view.table, d \in Types :
       Leave([table |-> With(view.table, c, d), cells |-> With(view.cells, c, NullCell),
              triggers |-> view.triggers])
  /\ pending_refresh' = TRUE
  /\ UNCHANGED <<inTransaction, column_types, pc, at>>

\* UPDATE.  The trigger compares OLD and NEW of each column it names: one
\* that the table does not have makes every UPDATE fail.
Updatable(d) == d.triggers["update"] # Missing => d.triggers["update"] \subseteq DOMAIN d.table

Update ==
  /\ Accessible
  /\ Updatable(view)
  /\ \E c \in DOMAIN view.table, v \in Written :
       LET stored == Affine(v, view.table[c])
       IN  Leave([view EXCEPT !.cells[c] = [val |-> stored, origin |-> stored,
                                            blind |-> FALSE]])
  /\ UNCHANGED <<inTransaction, memory, pc, at>>

Begin ==
  /\ Accessible
  /\ ~ inTransaction
  /\ inTransaction' = TRUE
  /\ UNCHANGED <<file, view, memory, pc, at>>

Commit ==
  /\ Accessible
  /\ inTransaction
  /\ inTransaction' = FALSE
  /\ file' = view
  /\ UNCHANGED <<view, memory, pc, at>>

\* Faulty variant: the connection goes on with what the transaction had.
KeepView ==
  /\ "rollback" \in Faults
  /\ Accessible
  /\ inTransaction
  /\ inTransaction' = FALSE
  /\ UNCHANGED <<file, view, memory, pc, at>>

\* The tables go back; what is in memory does not.
Rollback ==
  /\ "rollback" \in Faults
  /\ Accessible
  /\ inTransaction
  /\ inTransaction' = FALSE
  /\ view' = file
  /\ UNCHANGED <<file, memory, pc, at>>

\* Faulty variant: the authorizer caches the column before it is there.
FailWithCache ==
  /\ "failure" \in Faults
  /\ pc = "executing"
  /\ pc' = "idle"
  /\ pending_refresh' \in {pending_refresh, TRUE}
  /\ \E c \in Column : column_types' = With(column_types, c, "TEXT")
  /\ UNCHANGED <<file, view, inTransaction, at>>

\* A statement fails and execute() throws: no refresh, now.  An ALTER that
\* failed after it was prepared has raised the flag.
FailStatement ==
  /\ "failure" \in Faults
  /\ pc = "executing"
  /\ pc' = "idle"
  /\ pending_refresh' \in {pending_refresh, TRUE}
  /\ UNCHANGED <<file, view, inTransaction, column_types, at>>

EndExecute ==
  /\ pc = "executing"
  /\ pc' = IF pending_refresh THEN "refreshing" ELSE "idle"
  /\ UNCHANGED <<file, view, inTransaction, memory, at>>

-----------------------------------------------------------------------------
(* refresh_schema.                                                         *)

RefreshByHand ==
  /\ pc = "idle"
  /\ pc' = "by hand"
  /\ UNCHANGED <<file, view, inTransaction, memory, at>>

Refreshing == pc \in {"refreshing", "by hand"}

\* The three DROP TRIGGERs and the three CREATE TRIGGERs.
Order == << "insert", "update", "delete", "insert", "update", "delete" >>

\* cache_column_types.
CacheColumnTypes ==
  /\ Refreshing
  /\ at = 0
  /\ column_types' = TypesOf(view.table)
  /\ at' = 1
  /\ UNCHANGED <<file, view, inTransaction, pending_refresh, pc>>

\* Each DROP TRIGGER and each CREATE TRIGGER is a statement of its own.
\* After the last, execute() takes the flag down; refresh_schema does not.
ReplaceTrigger ==
  /\ Refreshing
  /\ at # 0
  /\ Leave([view EXCEPT !.triggers[Order[at]] =
                IF at <= 3 THEN Missing ELSE DOMAIN column_types])
  /\ at' = IF at = 6 THEN 0 ELSE at + 1
  /\ pc' = IF at = 6 THEN "idle" ELSE pc
  /\ pending_refresh' = (pending_refresh /\ ~ (at = 6 /\ pc = "refreshing"))
  /\ UNCHANGED <<inTransaction, column_types>>

\* Faulty variant: the flag is taken down whatever becomes of the refresh.
FailAndForget ==
  /\ "failure" \in Faults
  /\ Refreshing
  /\ pc' = "idle"
  /\ at' = 0
  /\ pending_refresh' = FALSE
  /\ UNCHANGED <<file, view, inTransaction, column_types>>

\* A statement fails and refresh_schema throws; the flag stays.
FailRefresh ==
  /\ "failure" \in Faults
  /\ Refreshing
  /\ pc' = "idle"
  /\ at' = 0
  /\ UNCHANGED <<file, view, inTransaction, memory>>

-----------------------------------------------------------------------------
(* merge_changes of one column, and the row of apply_to_sqlite.            *)

Offered(c) ==
  {[val |-> Affine(v, view.table[c]), origin |-> Affine(v, view.table[c]),
    blind |-> FALSE] : v \in Written}

\* What a change of column c carries: what a user of another replica wrote,
\* or what a replica like this one has stored.
Arriving(c) == Offered(c) \cup {view.cells[c]}

\* A column that the cache does not know is a TEXT.
MergeType(c) == IF c \in DOMAIN column_types THEN column_types[c] ELSE "TEXT"

Blind(c, x) == x.blind \/ MergeType(c) # KnownType(view.table[c])

\* Faulty variant: the triggers are not restored after the merge.
Unrestored(d) == [d EXCEPT !.triggers = AllTriggers(Missing)]

\* TriggerGuard: the triggers come back with the cached columns.
Restored(d) == [d EXCEPT !.triggers = AllTriggers(DOMAIN column_types)]

MergeColumn ==
  /\ pc = "idle"
  /\ ~ inTransaction
  /\ \E c \in DOMAIN view.table :
       \E x \in Arriving(c) :
         \E v \in FromText(ToText(x.val), MergeType(c)) :
           LET cell == [val |-> Affine(Bind(v), view.table[c]), origin |-> x.origin,
                        blind |-> Blind(c, x)]
           IN  Leave(Restored([view EXCEPT !.cells[c] = cell]))
  /\ UNCHANGED <<inTransaction, memory, pc, at>>

\* A change of another row, a deletion for one.
MergeElsewhere ==
  /\ pc = "idle"
  /\ ~ inTransaction
  /\ Leave(Restored(view))
  /\ UNCHANGED <<inTransaction, memory, pc, at>>

\* from_string throws and the batch goes back.  So it does for a column that
\* the table does not have, which changes nothing at all.
RefuseColumn ==
  /\ pc = "idle"
  /\ ~ inTransaction
  /\ \E c \in DOMAIN view.table :
       \E x \in Arriving(c) :
         /\ FromText(ToText(x.val), MergeType(c)) = {}
         /\ refused' = {[origin |-> x.origin, type |-> view.table[c],
                         blind |-> Blind(c, x)]}
  /\ UNCHANGED <<file, view, inTransaction, column_types, pending_refresh, pc, at>>

-----------------------------------------------------------------------------
Crash ==
  /\ "crash" \in Faults
  /\ pc # "closed"
  /\ pc' = "closed"
  /\ view' = file
  /\ inTransaction' = FALSE
  /\ column_types' = [c \in {} |-> "TEXT"]
  /\ pending_refresh' = FALSE
  /\ at' = 0
  /\ UNCHANGED file

\* enable_crdt: CREATE TRIGGER IF NOT EXISTS.
Open ==
  /\ pc = "closed"
  /\ pc' = "idle"
  /\ column_types' = TypesOf(file.table)
  /\ Leave([file EXCEPT !.triggers = [t \in Trigger |->
              IF @[t] = Missing THEN DOMAIN file.table ELSE @[t]]])
  /\ UNCHANGED <<inTransaction, pending_refresh, at>>

Statement ==
  \/ AlterTable
  \/ Update
  \/ Begin
  \/ Commit
  \/ Rollback

Step ==
  \/ StartExecute
  \/ Statement
  \/ FailStatement
  \/ EndExecute
  \/ RefreshByHand
  \/ CacheColumnTypes
  \/ ReplaceTrigger
  \/ FailRefresh
  \/ MergeColumn
  \/ MergeElsewhere
  \/ Crash
  \/ Open

Next == RefuseColumn \/ (Step /\ refused' = {})

Spec == Init /\ [][Next]_vars

-----------------------------------------------------------------------------
(* Properties.                                                             *)

\* Every variable has its type, and each column of the table has its cell.
TypeOK ==
  /\ WellFormed(file) /\ WellFormed(view)
  /\ ~ inTransaction => view = file
  /\ inTransaction \in BOOLEAN /\ pending_refresh \in BOOLEAN
  /\ column_types \in SomeColumnsTo(Declared)
  /\ pc \in Places
  /\ at \in 0 .. 6 /\ (at # 0 => Refreshing)
  /\ refused \subseteq [origin : Stored, type : Types, blind : BOOLEAN]

\* Every change of the table is reported, or the class knows of work to do.
Informed ==
  \/ pending_refresh
  \/ Refreshing
  \/ \A t \in Trigger :
       view.triggers[t] # Missing /\ DOMAIN view.table \subseteq view.triggers[t]

\* Triggers and table come apart behind the back of the class by nothing but
\* a crash, which loses the flag, a rollback, which takes the triggers of a
\* refresh back, and a refresh_schema that the user called and that failed.
\* ALTERs in and out of transactions, failing statements, failing refreshes
\* and merges in between do not bring it about.
MissesAreKnown ==
  [][Informed => \/ Informed'
                 \/ Crash
                 \/ Rollback
                 \/ FailRefresh /\ pc = "by hand"]_vars

\* The cache that apply_to_sqlite takes the columns and their types from has
\* what the table has, unless a refresh is due.
CacheLagsWhileDue ==
  pc = "closed" \/ pending_refresh
    \/ \A c \in DOMAIN view.table :
         c \in DOMAIN column_types /\ column_types[c] = KnownType(view.table[c])

\* A value that fits the type of its column, not an empty blob or a text with
\* a NUL in it, arrives as it was written, after any number of hops; one that
\* was merged while a refresh was due excepted.
ConformingValuesArrive ==
  \A c \in DOMAIN view.table :
    LET cell == view.cells[c]
    IN  Conforms(cell.origin, view.table[c]) => cell.val = cell.origin \/ cell.blind

\* A merge throws on no value that fits the type of its column, so such a
\* value never stops the changes behind it; one that was merged somewhere while
\* a refresh was due excepted.
ConformingValuesAreTaken ==
  \A x \in refused : Conforms(x.origin, x.type) => x.blind

\* No trigger and no cached column is one that the table does not have.
NoGhosts ==
  /\ Updatable(file) /\ Updatable(view)
  /\ DOMAIN column_types \subseteq DOMAIN view.table

\* A trigger on a column that the table does not have makes every UPDATE
\* fail.  Nothing but the ROLLBACK of an ALTER, which memory does not follow,
\* brings that about: no statement or refresh that fails half way, no crash
\* and no merge that rebuilds the triggers from the cache.
GhostsAreRollbacks == [][NoGhosts => NoGhosts' \/ Rollback]_vars
=============================================================================
