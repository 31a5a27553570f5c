------------------------- MODULE SchemaRefreshProofs -------------------------
(* What holds of SchemaRefresh for every set of columns and of values.     *)
EXTENDS SchemaRefresh, TLAPS

-----------------------------------------------------------------------------
(* Values on their way.                                                    *)

LEMMA AffineType ==
  ASSUME NEW v \in Stored, NEW type \in Declared
  PROVE  Affine(v, type) \in Stored
BY HalfAssumption
DEF Affine, Stored, Text, Declared, IntValue, RealValue, TextValue, Number

LEMMA CStringType ==
  ASSUME NEW t \in Text
  PROVE  CString(t) \in Text /\ CString(t).form # "nul"
BY DEF CString, Text

LEMMA ToTextType ==
  ASSUME NEW v \in Stored
  PROVE  ToText(v) \in Text
BY HalfAssumption, WordAssumption, CStringType
DEF ToText, Stored, Text, Number, NullWord

LEMMA BindType ==
  ASSUME NEW v \in Stored
  PROVE  Bind(v) \in Stored
BY CStringType DEF Bind, Stored, TextValue, NullValue

LEMMA WholePartType ==
  ASSUME NEW h \in Half
  PROVE  WholePart(h) \in Half /\ WholePart(h) % 2 = 0
<1>1. h \in Int /\ WholePart(h) \in Half
  BY HalfAssumption
<1>2. WholePart(h) % 2 = 0
  BY <1>1 DEF WholePart
<1> QED
  BY <1>1, <1>2

LEMMA FromTextType ==
  ASSUME NEW t \in Text, NEW type \in Declared, type # "blob"
  PROVE  FromText(t, type) \in SUBSET Stored
<1>1. CASE type = "INTEGER"
  <2>1. Numeric(t) => t.half \in Half
    BY DEF Numeric, Text
  <2> QED
    BY <1>1, <2>1, WholePartType DEF FromText, Stored, IntValue
<1>2. CASE type = "REAL"
  BY <1>2 DEF FromText, Numeric, Text, Stored, RealValue
<1>3. CASE type = "TEXT"
  BY <1>3 DEF FromText, Stored, TextValue
<1>4. CASE type = "BLOB"
  <2>1. (IF t.form = "hex" THEN t.bytes ELSE Empty) \in Bytes
    BY BytesAssumption DEF Text
  <2> QED
    BY <1>4, <2>1 DEF FromText, Stored, BlobValue
<1> QED
  BY <1>1, <1>2, <1>3, <1>4 DEF Declared

\* A value that fits the declared type passes through to_string, from_string
\* and the affinity of the column unharmed, and none of them refuses it.
LEMMA RoundTrip ==
  ASSUME NEW v \in Stored, NEW type \in Declared, Conforms(v, type)
  PROVE  /\ FromText(ToText(v), KnownType(type)) # {}
         /\ \A w \in FromText(ToText(v), KnownType(type)) :
              Affine(Bind(w), type) = v
<1>1. CASE type = "INTEGER"
  <2>1. PICK h \in Half : h % 2 = 0 /\ v = IntValue(h)
    BY <1>1 DEF Conforms, Stored, IntValue
  <2>2. WholePart(h) = h
    BY <2>1, HalfAssumption DEF WholePart
  <2>3. FromText(ToText(v), KnownType(type)) = {IntValue(h)}
    BY <1>1, <2>1, <2>2 DEF ToText, FromText, KnownType, Numeric, Number, IntValue
  <2> QED
    BY <1>1, <2>1, <2>3 DEF Affine, Bind, IntValue
<1>2. CASE type = "REAL"
  <2>1. PICK h \in Half : v = RealValue(h)
    BY <1>2 DEF Conforms, Stored, RealValue
  <2>2. FromText(ToText(v), KnownType(type)) = {RealValue(h)}
    BY <1>2, <2>1 DEF ToText, FromText, KnownType, Numeric, Number, RealValue
  <2> QED
    BY <1>2, <2>1, <2>2 DEF Affine, Bind, RealValue
<1>3. CASE type = "TEXT"
  <2>1. PICK t \in Text : t.form # "nul" /\ v = TextValue(t)
    BY <1>3 DEF Conforms, Stored, TextValue
  <2>2. CString(t) = t /\ Bind(v) = v
    BY <2>1 DEF Bind, CString, TextValue
  <2>3. FromText(ToText(v), KnownType(type)) = {v}
    BY <1>3, <2>1, <2>2 DEF ToText, FromText, KnownType, TextValue
  <2>4. Affine(v, type) = v
    BY <1>3, <2>1 DEF Affine, TextValue, Text, Number
  <2> QED
    BY <2>2, <2>3, <2>4
<1>4. CASE type = "BLOB"
  <2>1. PICK b \in Bytes : b # Empty /\ v = BlobValue(b)
    BY <1>4 DEF Conforms, Stored, BlobValue
  <2>2. FromText(ToText(v), KnownType(type)) = {v}
    BY <1>4, <2>1 DEF ToText, FromText, KnownType, BlobValue
  <2> QED
    BY <1>4, <2>1, <2>2 DEF Affine, Bind, BlobValue
<1> QED
  BY <1>1, <1>2, <1>3, <1>4 DEF Conforms

LEMMA KnownTypeType ==
  ASSUME NEW type \in Declared
  PROVE  KnownType(type) \in Declared \ {"blob"}
BY DEF KnownType, Declared

-----------------------------------------------------------------------------
(* The parts of the invariant.                                             *)

\* The class knows no type that it cannot parse.
KnownTypes == \A c \in DOMAIN column_types : column_types[c] # "blob"

\* The cache has the columns and the types of the table.
CacheFits(table) ==
  \A c \in DOMAIN table :
    c \in DOMAIN column_types /\ column_types[c] = KnownType(table[c])

\* What is cached is true of the committed table too: a transaction only adds
\* columns.
TableGrows ==
  \A c \in DOMAIN file.table :
    c \in DOMAIN view.table /\ view.table[c] = file.table[c]

\* The triggers that a refresh has created name what is cached.
TriggersMade ==
  \A i \in 4 .. 6 : i < at => view.triggers[Order[i]] = DOMAIN column_types

RefreshInv ==
  /\ TypeOK
  /\ KnownTypes
  /\ TableGrows
  /\ pc = "closed" => ~ pending_refresh /\ ~ inTransaction
  /\ pc = "refreshing" => pending_refresh
  /\ at # 0 => CacheFits(view.table) /\ TriggersMade
  /\ CacheLagsWhileDue

LEMMA TypesOfType ==
  ASSUME NEW table \in SomeColumnsTo(Types)
  PROVE  /\ TypesOf(table) \in SomeColumnsTo(Declared)
         /\ \A c \in DOMAIN TypesOf(table) : TypesOf(table)[c] # "blob"
         /\ \A c \in DOMAIN table : c \in DOMAIN TypesOf(table)
                                    /\ TypesOf(table)[c] = KnownType(table[c])
<1>1. PICK columns \in SUBSET Column : table \in [columns -> Types]
  BY DEF SomeColumnsTo
<1>2. TypesOf(table) \in [columns -> Declared]
  BY <1>1, KnownTypeType, TypesAssumption DEF TypesOf
<1> QED
  BY <1>1, <1>2, KnownTypeType, TypesAssumption DEF TypesOf, SomeColumnsTo

LEMMA WithType ==
  ASSUME NEW S, NEW f \in SomeColumnsTo(S), NEW c \in Column, NEW y \in S
  PROVE  /\ With(f, c, y) \in SomeColumnsTo(S)
         /\ DOMAIN With(f, c, y) = DOMAIN f \cup {c}
         /\ \A x \in DOMAIN f : x # c => With(f, c, y)[x] = f[x]
<1>1. PICK columns \in SUBSET Column : f \in [columns -> S]
  BY DEF SomeColumnsTo
<1>2. With(f, c, y) \in [columns \cup {c} -> S]
  BY <1>1 DEF With
<1> QED
  BY <1>1, <1>2 DEF SomeColumnsTo, With

LEMMA ExceptType ==
  ASSUME NEW S, NEW f \in SomeColumnsTo(S), NEW c \in DOMAIN f, NEW y \in S
  PROVE  /\ [f EXCEPT ![c] = y] \in SomeColumnsTo(S)
         /\ DOMAIN [f EXCEPT ![c] = y] = DOMAIN f
<1>1. PICK columns \in SUBSET Column : f \in [columns -> S]
  BY DEF SomeColumnsTo
<1>2. [f EXCEPT ![c] = y] \in [columns -> S]
  BY <1>1
<1> QED
  BY <1>1, <1>2 DEF SomeColumnsTo

LEMMA DomainType ==
  ASSUME NEW S, NEW f \in SomeColumnsTo(S)
  PROVE  DOMAIN f \in SUBSET Column /\ \A c \in DOMAIN f : f[c] \in S
BY DEF SomeColumnsTo

LEMMA RefreshInit ==
  ASSUME Init
  PROVE  RefreshInv
<1>1. /\ [c \in {} |-> "TEXT"] \in SomeColumnsTo(Types)
      /\ [c \in {} |-> NullCell] \in SomeColumnsTo(Cell)
  BY DEF SomeColumnsTo
<1>2. AllTriggers({}) \in [Trigger -> (SUBSET Column) \cup {Missing}]
  BY DEF AllTriggers
<1>3. file \in Contents /\ DOMAIN file.cells = DOMAIN file.table
  BY <1>1, <1>2 DEF Init, Contents
<1>4. file.table \in SomeColumnsTo(Types)
  BY <1>3 DEF Contents
<1>5. column_types \in SomeColumnsTo(Declared) /\ KnownTypes /\ CacheLagsWhileDue
  BY <1>4, TypesOfType DEF Init, KnownTypes, CacheLagsWhileDue
<1>6. /\ view = file /\ inTransaction = FALSE /\ pending_refresh = FALSE
      /\ pc = "idle" /\ at = 0 /\ refused = {}
  BY DEF Init
<1>7. TypeOK
  <2>1. WellFormed(file) /\ WellFormed(view)
    BY <1>3, <1>6 DEF WellFormed
  <2>2. at \in 0 .. 6 /\ pc \in Places
    BY <1>6 DEF Places
  <2>3. column_types \in SomeColumnsTo(Declared)
    BY <1>5
  <2> QED
    BY <1>6, <2>1, <2>2, <2>3 DEF TypeOK
<1>8. TableGrows
  BY <1>6 DEF TableGrows
<1> QED
  BY <1>5, <1>6, <1>7, <1>8 DEF RefreshInv

\* An ALTER adds a column to the view of the connection.
LEMMA AlterStep ==
  ASSUME RefreshInv, AlterTable, refused' = {}
  PROVE  RefreshInv'
<1>1. PICK c \in Column \ DOMAIN view.table, d \in Types :
        Leave([table |-> With(view.table, c, d), cells |-> With(view.cells, c, NullCell),
               triggers |-> view.triggers])
  BY DEF AlterTable
<1> DEFINE table == With(view.table, c, d)
           cells == With(view.cells, c, NullCell)
           e == [table |-> table, cells |-> cells, triggers |-> view.triggers]
<1>2. /\ view.table \in SomeColumnsTo(Types) /\ view.cells \in SomeColumnsTo(Cell)
      /\ view.triggers \in [Trigger -> (SUBSET Column) \cup {Missing}]
      /\ DOMAIN view.cells = DOMAIN view.table
  BY DEF RefreshInv, TypeOK, WellFormed, Contents
<1>3. NullCell \in Cell
  BY DEF NullCell, Cell, Stored, NullValue
<1>4. /\ table \in SomeColumnsTo(Types) /\ DOMAIN table = DOMAIN view.table \cup {c}
      /\ \A x \in DOMAIN view.table : table[x] = view.table[x]
  BY <1>2, WithType
<1>5. cells \in SomeColumnsTo(Cell) /\ DOMAIN cells = DOMAIN view.table \cup {c}
  <2>1. cells \in SomeColumnsTo(Cell)
    BY <1>2, <1>3, WithType
  <2>2. DOMAIN cells = DOMAIN view.cells \cup {c}
    BY DEF With
  <2> QED
    BY <1>2, <2>1, <2>2
<1>6. e.table = table
  OBVIOUS
<1> HIDE DEF table, cells
<1>7. WellFormed(e)
  BY <1>2, <1>4, <1>5 DEF WellFormed, Contents
<1> HIDE DEF e
<1>8. /\ view' = e
      /\ file' = IF inTransaction THEN file ELSE e
      /\ pending_refresh' = TRUE
      /\ pc \in {"idle", "executing"}
      /\ UNCHANGED <<inTransaction, column_types, pc, at>>
  BY <1>1 DEF e, table, cells, Leave, AlterTable, Accessible
<1>9. at = 0
  BY <1>8 DEF RefreshInv, TypeOK, Refreshing
<1>10. TypeOK'
  BY <1>7, <1>8, <1>9 DEF RefreshInv, TypeOK, Refreshing
<1>11. TableGrows'
  BY <1>4, <1>6, <1>8 DEF RefreshInv, TableGrows
<1> QED
  BY <1>8, <1>9, <1>10, <1>11 DEF RefreshInv, KnownTypes, CacheLagsWhileDue

\* A step that leaves the columns of the table where they are, and whatever
\* is in memory.
SameColumns ==
  /\ view'.table = view.table
  /\ file' = IF inTransaction THEN file ELSE view'
  /\ UNCHANGED <<inTransaction, column_types, pending_refresh, pc, at>>

LEMMA SameColumnsStep ==
  ASSUME RefreshInv, SameColumns, WellFormed(view)', at = 0,
         refused' \subseteq [origin : Stored, type : Types, blind : BOOLEAN]
  PROVE  RefreshInv'
<1>1. TypeOK'
  BY DEF SameColumns, RefreshInv, TypeOK, Refreshing
<1>2. TableGrows'
  BY DEF SameColumns, RefreshInv, TableGrows
<1> QED
  BY <1>1, <1>2
  DEF SameColumns, RefreshInv, KnownTypes, CacheLagsWhileDue, CacheFits

LEMMA CellStored ==
  ASSUME NEW d, WellFormed(d), NEW c \in DOMAIN d.table, NEW y \in Cell
  PROVE  LET e == [d EXCEPT !.cells[c] = y]
         IN  /\ WellFormed(e) /\ e.table = d.table /\ e.triggers = d.triggers
             /\ e.cells[c] = y
             /\ \A x \in DOMAIN d.table : x # c => e.cells[x] = d.cells[x]
<1> DEFINE cells == [d.cells EXCEPT ![c] = y]
<1>1. /\ d.table \in SomeColumnsTo(Types) /\ d.cells \in SomeColumnsTo(Cell)
      /\ d.triggers \in [Trigger -> (SUBSET Column) \cup {Missing}]
      /\ d = [table |-> d.table, cells |-> d.cells, triggers |-> d.triggers]
      /\ DOMAIN d.cells = DOMAIN d.table
  BY DEF WellFormed, Contents
<1>2. cells \in SomeColumnsTo(Cell) /\ DOMAIN cells = DOMAIN d.table
  BY <1>1, ExceptType
<1>3. /\ cells[c] = y
      /\ \A x \in DOMAIN d.table : x # c => cells[x] = d.cells[x]
  BY <1>1 DEF SomeColumnsTo
<1>4. [d EXCEPT !.cells[c] = y]
        = [table |-> d.table, cells |-> cells, triggers |-> d.triggers]
  BY <1>1
<1> HIDE DEF cells
<1> QED
  BY <1>1, <1>2, <1>3, <1>4 DEF WellFormed, Contents

LEMMA TriggersStored ==
  ASSUME NEW d, WellFormed(d),
         NEW triggers \in [Trigger -> (SUBSET Column) \cup {Missing}]
  PROVE  LET e == [d EXCEPT !.triggers = triggers]
         IN  /\ WellFormed(e) /\ e.table = d.table /\ e.cells = d.cells
             /\ e.triggers = triggers
BY DEF WellFormed, Contents

LEMMA RestoredType ==
  ASSUME RefreshInv, NEW d, WellFormed(d)
  PROVE  LET e == Restored(d)
         IN  /\ WellFormed(e) /\ e.table = d.table /\ e.cells = d.cells
             /\ e.triggers = AllTriggers(DOMAIN column_types)
<1>1. DOMAIN column_types \in SUBSET Column
  BY DomainType DEF RefreshInv, TypeOK
<1>2. AllTriggers(DOMAIN column_types) \in [Trigger -> (SUBSET Column) \cup {Missing}]
  BY <1>1 DEF AllTriggers
<1> QED
  BY <1>2, TriggersStored DEF Restored

\* What a merge reads and stores.
LEMMA MergeTypes ==
  ASSUME RefreshInv, NEW c \in DOMAIN view.table, NEW x \in Arriving(c)
  PROVE  /\ view.table[c] \in Types /\ view.table[c] \in Declared
         /\ MergeType(c) \in Declared \ {"blob"}
         /\ x.val \in Stored /\ x.origin \in Stored
         /\ Blind(c, x) \in BOOLEAN
         /\ \A v \in FromText(ToText(x.val), MergeType(c)) :
              Affine(Bind(v), view.table[c]) \in Stored
<1>1. WellFormed(view) /\ column_types \in SomeColumnsTo(Declared) /\ KnownTypes
  BY DEF RefreshInv, TypeOK
<1>2. view.table[c] \in Types /\ view.table[c] \in Declared
  BY <1>1, DomainType, TypesAssumption DEF WellFormed, Contents
<1>3. MergeType(c) \in Declared \ {"blob"}
  BY <1>1, DomainType DEF MergeType, KnownTypes, Declared
<1>4. view.cells[c] \in Cell
  BY <1>1, DomainType DEF WellFormed, Contents
<1>5. x.val \in Stored /\ x.origin \in Stored /\ x.blind \in BOOLEAN
  <2>1. CASE x \in Offered(c)
    <3>1. PICK v \in Written : x = [val |-> Affine(v, view.table[c]),
                                   origin |-> Affine(v, view.table[c]),
                                   blind |-> FALSE]
      BY <2>1 DEF Offered
    <3>2. Affine(v, view.table[c]) \in Stored
      BY <1>2, AffineType, WrittenAssumption
    <3> QED
      BY <3>1, <3>2
  <2>2. CASE x = view.cells[c]
    BY <1>4, <2>2 DEF Cell
  <2> QED
    BY <2>1, <2>2 DEF Arriving
<1>6. Blind(c, x) \in BOOLEAN
  BY <1>5 DEF Blind
<1> QED
  BY <1>2, <1>3, <1>5, <1>6, ToTextType, FromTextType, BindType, AffineType

LEMMA TriggerStep ==
  ASSUME RefreshInv, ReplaceTrigger, refused' = {}
  PROVE  RefreshInv'
<1>1. /\ WellFormed(view) /\ at \in 1 .. 6 /\ Refreshing /\ pc # "closed"
      /\ CacheFits(view.table)
      /\ DOMAIN column_types \in SUBSET Column
  <2>1. /\ WellFormed(view) /\ at \in 0 .. 6 /\ Refreshing /\ at # 0
        /\ column_types \in SomeColumnsTo(Declared) /\ CacheFits(view.table)
    BY DEF ReplaceTrigger, RefreshInv, TypeOK
  <2>2. DOMAIN column_types \in SUBSET Column
    BY <2>1, DomainType
  <2>3. at \in 1 .. 6
    BY <2>1
  <2>4. pc # "closed"
    BY <2>1 DEF Refreshing
  <2> QED
    BY <2>1, <2>2, <2>3, <2>4
<1> DEFINE columns == IF at <= 3 THEN Missing ELSE DOMAIN column_types
           triggers == [view.triggers EXCEPT ![Order[at]] = columns]
           e == [view EXCEPT !.triggers = triggers]
<1>2. Order[at] \in Trigger
  BY <1>1 DEF Order, Trigger
<1>3. triggers \in [Trigger -> (SUBSET Column) \cup {Missing}]
  BY <1>1, <1>2 DEF WellFormed, Contents
<1>4. WellFormed(e) /\ e.table = view.table /\ e.triggers = triggers
  BY <1>1, <1>3, TriggersStored
<1>5. e = [view EXCEPT !.triggers[Order[at]] = columns]
  BY <1>1 DEF WellFormed, Contents
<1>6. /\ view' = e
      /\ file' = IF inTransaction THEN file ELSE e
      /\ at' = IF at = 6 THEN 0 ELSE at + 1
      /\ pc' = IF at = 6 THEN "idle" ELSE pc
      /\ pending_refresh' = (pending_refresh /\ ~ (at = 6 /\ pc = "refreshing"))
      /\ UNCHANGED <<inTransaction, column_types>>
  BY <1>5 DEF ReplaceTrigger, Leave
<1>7. at' # 0 => TriggersMade'
  <2> SUFFICES ASSUME at' # 0, NEW i \in 4 .. 6, i < at'
               PROVE  view'.triggers[Order[i]] = DOMAIN column_types
    BY <1>6 DEF TriggersMade
  <2>1. at \in 1 .. 5 /\ at' = at + 1
    BY <1>1, <1>6
  <2>2. view.triggers \in [Trigger -> (SUBSET Column) \cup {Missing}]
    BY <1>1 DEF WellFormed, Contents
  <2>3. view'.triggers = [view.triggers EXCEPT ![Order[at]] = columns]
    BY <1>4, <1>6
  <2>4. CASE i < at
    <3>1. view.triggers[Order[i]] = DOMAIN column_types
      BY <1>1, <2>4 DEF RefreshInv, TriggersMade
    <3>2. Order[i] # Order[at] /\ Order[i] \in Trigger
      BY <2>1, <2>4 DEF Order, Trigger
    <3> QED
      BY <2>2, <2>3, <3>1, <3>2
  <2>5. CASE i = at
    BY <1>2, <2>2, <2>3, <2>5
  <2> QED
    BY <2>1, <2>4, <2>5
<1> HIDE DEF e, triggers, columns
<1>8. TypeOK'
  <2>1. WellFormed(file)' /\ WellFormed(view)' /\ (~ inTransaction' => view' = file')
    BY <1>4, <1>6 DEF RefreshInv, TypeOK
  <2>2. at' \in 0 .. 6
    BY <1>1, <1>6
  <2>3. at' # 0 => Refreshing'
    BY <1>1, <1>6 DEF Refreshing
  <2>4. pc' \in Places
    BY <1>1, <1>6 DEF Refreshing, Places
  <2>5. pending_refresh' \in BOOLEAN
    BY <1>6
  <2> QED
    BY <1>6, <2>1, <2>2, <2>3, <2>4, <2>5 DEF RefreshInv, TypeOK
<1>9. TableGrows'
  BY <1>4, <1>6 DEF RefreshInv, TableGrows
<1>10. CacheFits(view.table)'
  BY <1>1, <1>4, <1>6 DEF CacheFits
<1> QED
  BY <1>1, <1>6, <1>7, <1>8, <1>9, <1>10
  DEF RefreshInv, KnownTypes, CacheLagsWhileDue, CacheFits

LEMMA NotRefreshing ==
  ASSUME RefreshInv, ~ Refreshing
  PROVE  at = 0
BY DEF RefreshInv, TypeOK

\* The connection is at a statement of its user or between two calls.
Outside == pc \in {"closed", "idle", "executing"}

LEMMA OutsideStep ==
  ASSUME RefreshInv, Outside, WellFormed(view)', view'.table = view.table,
         file' = (IF inTransaction THEN file ELSE view'),
         UNCHANGED <<inTransaction, column_types, pending_refresh, pc, at>>,
         refused' \subseteq [origin : Stored, type : Types, blind : BOOLEAN]
  PROVE  RefreshInv'
<1>1. at = 0
  BY NotRefreshing DEF Outside, Refreshing
<1> QED
  BY <1>1, SameColumnsStep DEF SameColumns

LEMMA UpdateStep ==
  ASSUME RefreshInv, Update, refused' = {}
  PROVE  RefreshInv'
<1>1. PICK c \in DOMAIN view.table, v \in Written :
        LET stored == Affine(v, view.table[c])
        IN  Leave([view EXCEPT !.cells[c] = [val |-> stored, origin |-> stored,
                                             blind |-> FALSE]])
  BY DEF Update
<1> DEFINE stored == Affine(v, view.table[c])
           y == [val |-> stored, origin |-> stored, blind |-> FALSE]
<1>2. WellFormed(view)
  BY DEF RefreshInv, TypeOK
<1>3. view.table[c] \in Declared
  BY <1>2, DomainType, TypesAssumption DEF WellFormed, Contents
<1>4. stored \in Stored
  BY <1>3, AffineType, WrittenAssumption
<1> HIDE DEF stored
<1>5. y \in Cell
  BY <1>4 DEF Cell
<1> DEFINE e == [view EXCEPT !.cells[c] = y]
<1>6. WellFormed(e) /\ e.table = view.table
  BY <1>2, <1>5, CellStored
<1>7. view' = e /\ file' = IF inTransaction THEN file ELSE e
  BY <1>1 DEF Leave, stored
<1> HIDE DEF e, y
<1>8. UNCHANGED <<inTransaction, column_types, pending_refresh, pc, at>> /\ Outside
  BY DEF Update, memory, Accessible, Outside
<1> QED
  BY <1>6, <1>7, <1>8, OutsideStep

LEMMA MergeColumnStep ==
  ASSUME RefreshInv, MergeColumn, refused' = {}
  PROVE  RefreshInv'
<1>1. PICK c \in DOMAIN view.table :
        \E x \in Arriving(c) : \E v \in FromText(ToText(x.val), MergeType(c)) :
          Leave(Restored([view EXCEPT !.cells[c] =
            [val |-> Affine(Bind(v), view.table[c]), origin |-> x.origin,
             blind |-> Blind(c, x)]]))
  BY DEF MergeColumn
<1>2. PICK x \in Arriving(c) : \E v \in FromText(ToText(x.val), MergeType(c)) :
        Leave(Restored([view EXCEPT !.cells[c] =
          [val |-> Affine(Bind(v), view.table[c]), origin |-> x.origin,
           blind |-> Blind(c, x)]]))
  BY <1>1
<1>3. PICK v \in FromText(ToText(x.val), MergeType(c)) :
        LET cell == [val |-> Affine(Bind(v), view.table[c]), origin |-> x.origin,
                     blind |-> Blind(c, x)]
        IN  Leave(Restored([view EXCEPT !.cells[c] = cell]))
  BY <1>2
<1> DEFINE y == [val |-> Affine(Bind(v), view.table[c]), origin |-> x.origin,
                 blind |-> Blind(c, x)]
           d == [view EXCEPT !.cells[c] = y]
           e == Restored(d)
<1>4. WellFormed(view)
  BY DEF RefreshInv, TypeOK
<1>5. y \in Cell
  BY MergeTypes DEF Cell
<1>6. view' = e /\ file' = IF inTransaction THEN file ELSE e
  BY <1>3 DEF Leave
<1> HIDE DEF y
<1>7. WellFormed(d) /\ d.table = view.table
  BY <1>4, <1>5, CellStored
<1> HIDE DEF d
<1>8. WellFormed(e) /\ e.table = d.table
  BY <1>7, RestoredType
<1> HIDE DEF e
<1>9. UNCHANGED <<inTransaction, column_types, pending_refresh, pc, at>> /\ Outside
  BY DEF MergeColumn, memory, Outside
<1> QED
  BY <1>6, <1>7, <1>8, <1>9, OutsideStep

LEMMA MergeElsewhereStep ==
  ASSUME RefreshInv, MergeElsewhere, refused' = {}
  PROVE  RefreshInv'
<1> DEFINE e == Restored(view)
<1>1. WellFormed(e) /\ e.table = view.table
  BY RestoredType DEF RefreshInv, TypeOK
<1>2. view' = e /\ file' = IF inTransaction THEN file ELSE e
  BY DEF MergeElsewhere, Leave
<1> HIDE DEF e
<1>3. UNCHANGED <<inTransaction, column_types, pending_refresh, pc, at>> /\ Outside
  BY DEF MergeElsewhere, memory, Outside
<1> QED
  BY <1>1, <1>2, <1>3, OutsideStep

LEMMA RefuseStep ==
  ASSUME RefreshInv, RefuseColumn
  PROVE  RefreshInv'
<1>1. PICK c \in DOMAIN view.table : \E x \in Arriving(c) :
        refused' = {[origin |-> x.origin, type |-> view.table[c],
                     blind |-> Blind(c, x)]}
  BY DEF RefuseColumn
<1>2. refused' \subseteq [origin : Stored, type : Types, blind : BOOLEAN]
  BY <1>1, MergeTypes
<1>3. /\ UNCHANGED <<view, file, inTransaction, column_types, pending_refresh, pc, at>>
      /\ Outside /\ ~ inTransaction
  BY DEF RefuseColumn, Outside
<1>4. WellFormed(view)' /\ file' = IF inTransaction THEN file ELSE view'
  BY <1>3 DEF RefreshInv, TypeOK
<1> QED
  BY <1>2, <1>3, <1>4, OutsideStep

LEMMA OpenStep ==
  ASSUME RefreshInv, Open, refused' = {}
  PROVE  RefreshInv'
<1> DEFINE triggers == [t \in Trigger |-> IF file.triggers[t] = Missing
                                           THEN DOMAIN file.table
                                           ELSE file.triggers[t]]
           e == [file EXCEPT !.triggers = triggers]
<1>1. /\ WellFormed(file) /\ ~ inTransaction /\ pending_refresh = FALSE
      /\ at = 0 /\ pc = "closed"
  BY NotRefreshing DEF Open, RefreshInv, TypeOK, Refreshing
<1>2. file.table \in SomeColumnsTo(Types)
  BY <1>1 DEF WellFormed, Contents
<1>3. DOMAIN file.table \in SUBSET Column
  BY <1>2, DomainType
<1>4. triggers \in [Trigger -> (SUBSET Column) \cup {Missing}]
  BY <1>1, <1>3 DEF WellFormed, Contents
<1>5. [file EXCEPT !.triggers = [t \in Trigger |->
          IF @[t] = Missing THEN DOMAIN file.table ELSE @[t]]] = e
  BY <1>1 DEF WellFormed, Contents
<1>6. view' = e /\ file' = e
  BY <1>1, <1>5 DEF Open, Leave
<1> HIDE DEF triggers
<1>7. WellFormed(e) /\ e.table = file.table
  BY <1>1, <1>4, TriggersStored
<1> HIDE DEF e
<1>8. /\ pc' = "idle" /\ column_types' = TypesOf(file.table)
      /\ inTransaction' = FALSE /\ pending_refresh' = FALSE /\ at' = 0
  BY <1>1 DEF Open, RefreshInv, TypeOK
<1>9. TypeOK'
  <2>1. WellFormed(file)' /\ WellFormed(view)' /\ view' = file'
    BY <1>6, <1>7
  <2>2. column_types' \in SomeColumnsTo(Declared)
    BY <1>2, <1>8, TypesOfType
  <2>3. at' \in 0 .. 6 /\ at' = 0
    BY <1>8
  <2> QED
    BY <1>8, <2>1, <2>2, <2>3 DEF TypeOK, Places
<1>10. KnownTypes' /\ CacheLagsWhileDue'
  BY <1>2, <1>6, <1>7, <1>8, TypesOfType DEF KnownTypes, CacheLagsWhileDue
<1>11. TableGrows'
  BY <1>6 DEF TableGrows
<1> QED
  BY <1>8, <1>9, <1>10, <1>11 DEF RefreshInv

LEMMA CacheStep ==
  ASSUME RefreshInv, CacheColumnTypes, refused' = {}
  PROVE  RefreshInv'
<1>1. view.table \in SomeColumnsTo(Types)
  BY DEF RefreshInv, TypeOK, WellFormed, Contents
<1>2. /\ column_types' = TypesOf(view.table) /\ at' = 1 /\ Refreshing
      /\ UNCHANGED <<file, view, inTransaction, pending_refresh, pc>>
  BY DEF CacheColumnTypes
<1>3. KnownTypes' /\ CacheFits(view.table)'
  BY <1>1, <1>2, TypesOfType DEF KnownTypes, CacheFits
<1>4. at' \in 0 .. 6 /\ TriggersMade'
  BY <1>2 DEF TriggersMade
<1>5. column_types' \in SomeColumnsTo(Declared) /\ Refreshing'
  BY <1>1, <1>2, TypesOfType DEF Refreshing
<1>6. TypeOK'
  BY <1>2, <1>4, <1>5 DEF RefreshInv, TypeOK
<1>7. TableGrows'
  BY <1>2 DEF RefreshInv, TableGrows
<1> QED
  BY <1>2, <1>3, <1>4, <1>6, <1>7
  DEF RefreshInv, CacheLagsWhileDue, CacheFits

LEMMA RefreshStep ==
  ASSUME RefreshInv, [Next]_vars
  PROVE  RefreshInv'
<1>1. CASE UNCHANGED vars
  BY <1>1 DEF vars, RefreshInv, TypeOK, KnownTypes, TableGrows, CacheFits,
              TriggersMade, CacheLagsWhileDue, Refreshing
<1>2. CASE RefuseColumn
  BY <1>2, RefuseStep
<1>3. CASE Step /\ refused' = {}
  <2>1. CASE StartExecute \/ EndExecute \/ RefreshByHand
    <3>1. at = 0 /\ pc # "closed" /\ pc' # "closed"
      BY <2>1, NotRefreshing DEF StartExecute, EndExecute, RefreshByHand, Refreshing
    <3>2. UNCHANGED <<file, view, inTransaction, column_types, pending_refresh, at>>
      BY <2>1 DEF StartExecute, EndExecute, RefreshByHand, memory
    <3>3. pc' \in Places /\ (pc' = "refreshing" => pending_refresh)
      BY <2>1 DEF StartExecute, EndExecute, RefreshByHand, Places
    <3>4. TypeOK'
      BY <1>3, <3>1, <3>2, <3>3 DEF RefreshInv, TypeOK
    <3>5. TableGrows' /\ KnownTypes'
      BY <3>2 DEF RefreshInv, TableGrows, KnownTypes
    <3> QED
      BY <3>1, <3>2, <3>3, <3>4, <3>5 DEF RefreshInv, CacheLagsWhileDue
  <2>2. CASE Begin \/ Commit
    <3>1. at = 0 /\ pc \in {"idle", "executing"}
      BY <2>2, NotRefreshing DEF Begin, Commit, Accessible, Refreshing
    <3>2. /\ UNCHANGED <<view, column_types, pending_refresh, pc, at>>
          /\ file' = file \/ file' = view
      BY <2>2 DEF Begin, Commit, memory
    <3>3. inTransaction' \in BOOLEAN /\ (~ inTransaction' => view' = file')
      BY <2>2 DEF Begin, Commit
    <3>4. TypeOK'
      BY <1>3, <3>1, <3>2, <3>3 DEF RefreshInv, TypeOK
    <3>5. TableGrows' /\ KnownTypes'
      BY <3>2 DEF RefreshInv, TableGrows, KnownTypes
    <3> QED
      BY <3>1, <3>2, <3>4, <3>5 DEF RefreshInv, CacheLagsWhileDue
  <2>3. CASE Rollback
    <3>1. at = 0 /\ pc \in {"idle", "executing"}
      BY <2>3, NotRefreshing DEF Rollback, Accessible, Refreshing
    <3>2. /\ view' = file /\ inTransaction' = FALSE
          /\ UNCHANGED <<file, column_types, pending_refresh, pc, at>>
      BY <2>3 DEF Rollback, memory
    <3>3. TypeOK'
      BY <1>3, <3>1, <3>2 DEF RefreshInv, TypeOK
    <3>4. TableGrows' /\ KnownTypes'
      BY <3>2 DEF RefreshInv, TableGrows, KnownTypes
    <3>5. CacheLagsWhileDue'
      BY <3>2 DEF RefreshInv, TableGrows, CacheLagsWhileDue
    <3> QED
      BY <3>1, <3>2, <3>3, <3>4, <3>5 DEF RefreshInv
  <2>4. CASE FailStatement \/ FailRefresh
    <3>1. /\ pc \notin {"closed"} /\ pc' = "idle" /\ at' = 0
          /\ pending_refresh' \in {pending_refresh, TRUE}
          /\ UNCHANGED <<file, view, inTransaction, column_types>>
      BY <2>4, NotRefreshing DEF FailStatement, FailRefresh, Refreshing, memory
    <3>2. TypeOK'
      <4>1. at' \in 0 .. 6 /\ pc' \in Places
        BY <3>1 DEF Places
      <4> QED
        BY <1>3, <3>1, <4>1 DEF RefreshInv, TypeOK
    <3>3. TableGrows' /\ KnownTypes'
      BY <3>1 DEF RefreshInv, TableGrows, KnownTypes
    <3>4. CacheLagsWhileDue'
      <4>1. CASE pending_refresh
        BY <3>1, <4>1 DEF CacheLagsWhileDue
      <4>2. CASE ~ pending_refresh
        BY <3>1, <4>2 DEF RefreshInv, CacheLagsWhileDue
      <4> QED
        BY <4>1, <4>2
    <3> QED
      BY <3>1, <3>2, <3>3, <3>4 DEF RefreshInv
  <2>5. CASE Crash
    <3>1. /\ pc' = "closed" /\ view' = file /\ inTransaction' = FALSE
          /\ column_types' = [c \in {} |-> "TEXT"] /\ pending_refresh' = FALSE
          /\ at' = 0 /\ file' = file
      BY <2>5 DEF Crash
    <3>2. column_types' \in SomeColumnsTo(Declared) /\ KnownTypes'
      BY <3>1 DEF SomeColumnsTo, KnownTypes
    <3>3. TypeOK'
      <4>1. at' \in 0 .. 6 /\ pc' \in Places
        BY <3>1 DEF Places
      <4> QED
        BY <1>3, <3>1, <3>2, <4>1 DEF RefreshInv, TypeOK
    <3>4. TableGrows' /\ CacheLagsWhileDue'
      BY <3>1 DEF TableGrows, CacheLagsWhileDue
    <3> QED
      BY <3>1, <3>2, <3>3, <3>4 DEF RefreshInv
  <2> QED
    BY <1>3, <2>1, <2>2, <2>3, <2>4, <2>5, AlterStep, UpdateStep, CacheStep,
       TriggerStep, MergeColumnStep, MergeElsewhereStep, OpenStep
    DEF Step, Statement
<1> QED
  BY <1>1, <1>2, <1>3 DEF Next

LEMMA RefreshInvariant == Spec => []RefreshInv
<1>1. Init => RefreshInv
  BY RefreshInit
<1>2. RefreshInv /\ [Next]_vars => RefreshInv'
  BY RefreshStep
<1> QED
  BY <1>1, <1>2, PTL DEF Spec

\* The type invariant: statements, refreshes, merges, failures, rollbacks and
\* crashes leave tables of the schema's columns and places that exist.
THEOREM TypeCorrect == Spec => []TypeOK
<1>1. RefreshInv => TypeOK
  BY DEF RefreshInv
<1> QED
  BY <1>1, RefreshInvariant, PTL

\* What apply_to_sqlite takes from its cache is what the table has, whatever
\* failed, rolled back or crashed before, unless the flag says that a refresh
\* is due.
THEOREM CacheCorrect == Spec => []CacheLagsWhileDue
<1>1. RefreshInv => CacheLagsWhileDue
  BY DEF RefreshInv
<1> QED
  BY <1>1, RefreshInvariant, PTL

-----------------------------------------------------------------------------
(* Triggers and table come apart only in ways that MissesAreKnown names.   *)

KnownMisses ==
  Informed => \/ Informed'
              \/ Crash
              \/ Rollback
              \/ FailRefresh /\ pc = "by hand"

\* The triggers are there and name every column of the table.
Covered(d) ==
  \A t \in Trigger : d.triggers[t] # Missing /\ DOMAIN d.table \subseteq d.triggers[t]

LEMMA ColumnsNotMissing ==
  ASSUME NEW columns \in SUBSET Column
  PROVE  columns # Missing
BY ColumnAssumption DEF Missing

\* Triggers with the columns of a cache that fits cover the table.
LEMMA FitCovers ==
  ASSUME NEW d, CacheFits(d.table), column_types \in SomeColumnsTo(Declared),
         d.triggers = AllTriggers(DOMAIN column_types)
  PROVE  Covered(d)
<1>1. DOMAIN column_types # Missing
  BY DomainType, ColumnsNotMissing
<1> QED
  BY <1>1 DEF CacheFits, Covered, AllTriggers

LEMMA KnownMissesStep ==
  ASSUME RefreshInv, [Next]_vars
  PROVE  KnownMisses
<1> SUFFICES ASSUME Informed
             PROVE  \/ Informed' \/ Crash \/ Rollback
                    \/ FailRefresh /\ pc = "by hand"
  BY DEF KnownMisses
<1>0. Informed <=> pending_refresh \/ Refreshing \/ Covered(view)
  BY DEF Informed, Covered
<1>00. Informed' <=> pending_refresh' \/ Refreshing' \/ Covered(view)'
  BY DEF Informed, Covered
<1>1. CASE UNCHANGED <<view, pending_refresh, pc>>
  BY <1>1 DEF Informed, Refreshing
<1>2. CASE StartExecute \/ EndExecute \/ RefreshByHand
  BY <1>2 DEF Informed, Refreshing, StartExecute, EndExecute, RefreshByHand, memory
<1>3. CASE AlterTable
  BY <1>3 DEF Informed, AlterTable
<1>4. CASE Update
  <2>1. PICK c \in DOMAIN view.table : \E y : Leave([view EXCEPT !.cells[c] = y])
    BY <1>4 DEF Update
  <2>2. view'.table = view.table /\ view'.triggers = view.triggers
    BY <2>1 DEF Leave, RefreshInv, TypeOK, WellFormed, Contents
  <2>3. UNCHANGED <<pending_refresh, pc>>
    BY <1>4 DEF Update, memory
  <2> QED
    BY <1>0, <1>00, <2>2, <2>3 DEF Covered, Refreshing
<1>5. CASE Begin \/ Commit \/ CacheColumnTypes
  <2>1. UNCHANGED <<view, pending_refresh, pc>>
    BY <1>5 DEF Begin, Commit, CacheColumnTypes, memory
  <2> QED
    BY <1>1, <2>1
<1>6. CASE FailStatement
  <2>1. view' = view /\ pending_refresh' \in {pending_refresh, TRUE} /\ ~ Refreshing
    BY <1>6 DEF FailStatement, Refreshing
  <2>2. pending_refresh => pending_refresh'
    BY <2>1
  <2>3. Covered(view) => Covered(view)'
    BY <2>1 DEF Covered
  <2> QED
    BY <1>0, <1>00, <2>1, <2>2, <2>3
<1>7. CASE ReplaceTrigger
  <2>1. CASE at # 6
    BY <1>00, <1>7, <2>1 DEF ReplaceTrigger, Refreshing
  <2>2. CASE at = 6
    <3> DEFINE columns == DOMAIN column_types
               e == [view EXCEPT !.triggers[Order[at]] = columns]
    <3>1. /\ WellFormed(view) /\ column_types \in SomeColumnsTo(Declared)
          /\ CacheFits(view.table) /\ TriggersMade
      BY <2>2 DEF RefreshInv, TypeOK
    <3>2. /\ view.triggers["insert"] = columns
          /\ view.triggers["update"] = columns
      BY <2>2, <3>1 DEF TriggersMade, Order
    <3>3. view' = e
      BY <1>7, <2>2 DEF ReplaceTrigger, Leave
    <3>4. /\ e.table = view.table
          /\ e.triggers = [view.triggers EXCEPT !["delete"] = columns]
      BY <2>2, <3>1 DEF WellFormed, Contents, Order
    <3>5. e.triggers = AllTriggers(columns)
      BY <3>1, <3>2, <3>4 DEF WellFormed, Contents, AllTriggers, Trigger
    <3>6. CacheFits(e.table)
      BY <3>1, <3>4
    <3> HIDE DEF e
    <3>7. Covered(e)
      BY <3>1, <3>5, <3>6, FitCovers
    <3> QED
      BY <1>00, <3>3, <3>7 DEF Covered
  <2> QED
    BY <2>1, <2>2
<1>8. CASE FailRefresh
  <2>1. CASE pc = "by hand"
    BY <1>8, <2>1
  <2>2. CASE pc = "refreshing"
    <3>1. pending_refresh
      BY <2>2 DEF RefreshInv
    <3>2. pending_refresh' = pending_refresh
      BY <1>8 DEF FailRefresh, memory
    <3> QED
      BY <1>00, <3>1, <3>2
  <2> QED
    BY <1>8, <2>1, <2>2 DEF FailRefresh, Refreshing
<1>9. CASE MergeColumn \/ MergeElsewhere
  <2>1. PICK d : /\ WellFormed(d) /\ d.table = view.table
                 /\ view' = Restored(d)
    <3>1. WellFormed(view)
      BY DEF RefreshInv, TypeOK
    <3>2. CASE MergeColumn
      <4>1. PICK c \in DOMAIN view.table : \E x \in Arriving(c) :
              \E v \in FromText(ToText(x.val), MergeType(c)) :
                view' = Restored([view EXCEPT !.cells[c] =
                  [val |-> Affine(Bind(v), view.table[c]), origin |-> x.origin,
                   blind |-> Blind(c, x)]])
        BY <3>2 DEF MergeColumn, Leave
      <4>2. PICK x \in Arriving(c) : \E v \in FromText(ToText(x.val), MergeType(c)) :
              view' = Restored([view EXCEPT !.cells[c] =
                [val |-> Affine(Bind(v), view.table[c]), origin |-> x.origin,
                 blind |-> Blind(c, x)]])
        BY <4>1
      <4>3. PICK y \in Cell : view' = Restored([view EXCEPT !.cells[c] = y])
        BY <4>2, MergeTypes DEF Cell
      <4> QED
        BY <3>1, <4>3, CellStored
    <3>3. CASE MergeElsewhere
      BY <3>1, <3>3 DEF MergeElsewhere, Leave
    <3> QED
      BY <1>9, <3>2, <3>3
  <2>2. /\ view'.table = view.table
        /\ view'.triggers = AllTriggers(DOMAIN column_types)
    BY <2>1, RestoredType
  <2>3. UNCHANGED <<pending_refresh, pc, column_types>> /\ pc = "idle"
    BY <1>9 DEF MergeColumn, MergeElsewhere, memory
  <2>4. CASE pending_refresh
    BY <1>00, <2>3, <2>4
  <2>5. CASE ~ pending_refresh
    <3>1. CacheFits(view'.table) /\ column_types \in SomeColumnsTo(Declared)
      BY <2>2, <2>3, <2>5 DEF RefreshInv, TypeOK, CacheLagsWhileDue, CacheFits
    <3>2. Covered(view')
      BY <2>2, <3>1, FitCovers
    <3> QED
      BY <1>00, <3>2 DEF Covered
  <2> QED
    BY <2>4, <2>5
<1>10. CASE Open
  <2>1. /\ pc = "closed" /\ ~ pending_refresh /\ view = file /\ ~ inTransaction
        /\ WellFormed(file)
    BY <1>10 DEF Open, RefreshInv, TypeOK
  <2>2. Covered(file)
    BY <1>0, <2>1 DEF Refreshing
  <2>3. view' = [file EXCEPT !.triggers = [t \in Trigger |->
                   IF @[t] = Missing THEN DOMAIN file.table ELSE @[t]]]
    BY <1>10 DEF Open, Leave
  <2>4. view'.table = file.table /\ \A t \in Trigger : view'.triggers[t] = file.triggers[t]
    BY <2>1, <2>2, <2>3 DEF WellFormed, Contents, Covered
  <2> QED
    BY <1>00, <2>2, <2>4 DEF Covered
<1>11. CASE UNCHANGED vars \/ RefuseColumn
  <2>1. UNCHANGED <<view, pending_refresh, pc>>
    BY <1>11 DEF RefuseColumn, vars
  <2> QED
    BY <1>1, <2>1
<1> QED
  <2>1. Step => \/ StartExecute \/ EndExecute \/ RefreshByHand
                \/ AlterTable \/ Update
                \/ Begin \/ Commit \/ CacheColumnTypes
                \/ FailStatement \/ ReplaceTrigger \/ FailRefresh
                \/ MergeColumn \/ MergeElsewhere \/ Open
                \/ Rollback \/ Crash
    BY DEF Step, Statement
  <2> QED
    BY <2>1, <1>2, <1>3, <1>4, <1>5, <1>6, <1>7, <1>8, <1>9, <1>10, <1>11 DEF Next

\* Nothing but a crash, a rollback or a failed refresh_schema of the user
\* leaves changes unreported without the class knowing of it.
THEOREM MissesCorrect == Spec => MissesAreKnown
<1>1. Init => RefreshInv
  BY RefreshInit
<1>2. RefreshInv /\ [Next]_vars => RefreshInv' /\ [KnownMisses]_vars
  BY RefreshStep, KnownMissesStep
<1> QED
  BY <1>1, <1>2, PTL DEF Spec, MissesAreKnown, KnownMisses

-----------------------------------------------------------------------------
(* Triggers and cache name no column that the table does not have.         *)

KnownGhosts == NoGhosts => NoGhosts' \/ Rollback

LEMMA KnownGhostsStep ==
  ASSUME RefreshInv, [Next]_vars
  PROVE  KnownGhosts
<1> SUFFICES ASSUME NoGhosts
             PROVE  NoGhosts' \/ Rollback
  BY DEF KnownGhosts
<1> DEFINE Sound(d) == Updatable(d) /\ DOMAIN column_types' \subseteq DOMAIN d.table
<1>0. /\ WellFormed(view) /\ WellFormed(file)
      /\ Updatable(file) /\ Updatable(view)
      /\ DOMAIN column_types \subseteq DOMAIN view.table
  BY DEF NoGhosts, RefreshInv, TypeOK
<1>a. ASSUME file' \in {file, view, view'}, Sound(view')
      PROVE  NoGhosts'
  BY <1>a, <1>0 DEF NoGhosts, Updatable
<1>b. ASSUME UNCHANGED <<view, column_types>>
      PROVE  Sound(view')
  BY <1>b, <1>0
<1>1. CASE UNCHANGED <<view, column_types>> /\ file' \in {file, view}
  BY <1>1, <1>a, <1>b
<1>2. CASE \/ StartExecute \/ EndExecute \/ RefreshByHand \/ Begin \/ Commit
           \/ FailStatement \/ FailRefresh \/ RefuseColumn \/ UNCHANGED vars
  <2>0. CASE RefreshByHand
    <3>1. UNCHANGED <<file, view, column_types>>
      BY <2>0 DEF RefreshByHand, memory
    <3> QED
      BY <1>1, <3>1
  <2>1. CASE StartExecute \/ EndExecute \/ Begin \/ Commit
    BY <1>1, <2>1 DEF StartExecute, EndExecute, Begin, Commit, memory
  <2>2. CASE FailStatement \/ FailRefresh
    BY <1>1, <2>2 DEF FailStatement, FailRefresh, memory
  <2>3. CASE RefuseColumn \/ UNCHANGED vars
    BY <1>1, <2>3 DEF RefuseColumn, vars
  <2> QED
    BY <1>2, <2>0, <2>1, <2>2, <2>3
<1>3. CASE AlterTable
  <2>1. PICK c \in Column, d \in Types :
          Leave([table |-> With(view.table, c, d), cells |-> With(view.cells, c, NullCell),
                 triggers |-> view.triggers])
    BY <1>3 DEF AlterTable
  <2>2. /\ view'.triggers = view.triggers /\ view'.table = With(view.table, c, d)
        /\ file' \in {file, view'}
    BY <2>1 DEF Leave
  <2>3. DOMAIN view.table \subseteq DOMAIN view'.table
    BY <2>2 DEF With
  <2>4. column_types' = column_types
    BY <1>3 DEF AlterTable
  <2>5. Sound(view')
    BY <1>0, <2>2, <2>3, <2>4 DEF Updatable
  <2> QED
    BY <1>a, <2>2, <2>5
<1>4. CASE Update
  <2>1. PICK c \in DOMAIN view.table : \E y : Leave([view EXCEPT !.cells[c] = y])
    BY <1>4 DEF Update
  <2>2. /\ view'.table = view.table /\ view'.triggers = view.triggers
        /\ file' \in {file, view'}
    BY <1>0, <2>1 DEF Leave, WellFormed, Contents
  <2>3. column_types' = column_types
    BY <1>4 DEF Update, memory
  <2>4. Sound(view')
    BY <1>0, <2>2, <2>3 DEF Updatable
  <2> QED
    BY <1>a, <2>2, <2>4
<1>5. CASE CacheColumnTypes
  <2>1. UNCHANGED <<file, view>> /\ column_types' = TypesOf(view.table)
    BY <1>5 DEF CacheColumnTypes
  <2>2. Sound(view')
    BY <1>0, <2>1 DEF TypesOf, Updatable
  <2> QED
    BY <1>a, <2>1, <2>2
<1>6. CASE ReplaceTrigger
  <2> DEFINE new == IF at <= 3 THEN Missing ELSE DOMAIN column_types
  <2>1. /\ view' = [view EXCEPT !.triggers[Order[at]] = new]
        /\ file' \in {file, view'} /\ column_types' = column_types
    BY <1>6 DEF ReplaceTrigger, Leave
  <2>2. /\ view'.table = view.table
        /\ view'.triggers["update"] \in {view.triggers["update"], new}
    BY <1>0, <2>1 DEF WellFormed, Contents, Trigger
  <2>3. Sound(view')
    BY <1>0, <2>1, <2>2 DEF Updatable
  <2> QED
    BY <1>a, <2>1, <2>3
<1>7. CASE MergeColumn \/ MergeElsewhere
  <2>1. PICK d : /\ d.table = view.table
                 /\ view' = [d EXCEPT !.triggers = AllTriggers(DOMAIN column_types)]
                 /\ view'.table = d.table
                 /\ view'.triggers = AllTriggers(DOMAIN column_types)
                 /\ file' \in {file, view'}
    <3>1. CASE MergeColumn
      <4>1. PICK c, y : LET d == [view EXCEPT !.cells[c] = y] IN Leave(Restored(d))
        BY <1>7, <3>1 DEF MergeColumn
      <4> DEFINE d == [view EXCEPT !.cells[c] = y]
      <4>2. d.table = view.table /\ "triggers" \in DOMAIN d
            /\ d = [table |-> d.table, cells |-> d.cells, triggers |-> d.triggers]
        BY <1>0 DEF WellFormed, Contents
      <4>3. Leave(Restored(d))
        BY <4>1
      <4> HIDE DEF d
      <4> QED
        BY <4>2, <4>3 DEF Leave, Restored
    <3>2. CASE MergeElsewhere
      BY <1>0, <3>2 DEF MergeElsewhere, Leave, Restored, WellFormed, Contents
    <3> QED
      BY <1>7, <3>1, <3>2
  <2>2. column_types' = column_types
    BY <1>7 DEF MergeColumn, MergeElsewhere, memory
  <2>3. Sound(view')
    BY <1>0, <2>1, <2>2 DEF Updatable, AllTriggers, Trigger
  <2> QED
    BY <1>a, <2>1, <2>3
<1>8. CASE Crash
  <2>1. view' = file /\ file' = file /\ column_types' = [c \in {} |-> "TEXT"]
    BY <1>8 DEF Crash
  <2>2. Sound(view')
    BY <1>0, <2>1
  <2> QED
    BY <1>a, <2>1, <2>2
<1>9. CASE Open
  <2>1. view' = [file EXCEPT !.triggers = [t \in Trigger |->
                   IF @[t] = Missing THEN DOMAIN file.table ELSE @[t]]]
        /\ file' \in {file, view'} /\ column_types' = TypesOf(file.table)
    BY <1>9 DEF Open, Leave
  <2>2. /\ view'.table = file.table
        /\ view'.triggers["update"] = IF file.triggers["update"] = Missing
                                        THEN DOMAIN file.table
                                        ELSE file.triggers["update"]
    BY <1>0, <2>1 DEF WellFormed, Contents, Trigger
  <2>3. Sound(view')
    BY <1>0, <2>1, <2>2 DEF Updatable, TypesOf
  <2> QED
    BY <1>a, <2>1, <2>3
<1> QED
  <2>1. Step => \/ StartExecute \/ EndExecute \/ RefreshByHand
                \/ AlterTable \/ Update
                \/ Begin \/ Commit \/ CacheColumnTypes
                \/ FailStatement \/ ReplaceTrigger \/ FailRefresh
                \/ MergeColumn \/ MergeElsewhere \/ Open
                \/ Rollback \/ Crash
    BY DEF Step, Statement
  <2> QED
    BY <2>1, <1>2, <1>3, <1>4, <1>5, <1>6, <1>7, <1>8, <1>9 DEF Next

\* Nothing but a rollback brings a column into the triggers or the cache that
\* the table does not have, so that nothing else can stop every UPDATE.
THEOREM GhostsCorrect == Spec => GhostsAreRollbacks
<1>1. Init => RefreshInv
  BY RefreshInit
<1>2. RefreshInv /\ [Next]_vars => RefreshInv' /\ [KnownGhosts]_vars
  BY RefreshStep, KnownGhostsStep
<1> QED
  BY <1>1, <1>2, PTL DEF Spec, GhostsAreRollbacks, KnownGhosts

-----------------------------------------------------------------------------
(* Values that fit their columns arrive, and are taken.                    *)

\* x was written as a value that fits the type: then it is still that value,
\* or has been merged blindly somewhere.
Kept(x, type) == Conforms(x.origin, type) => x.val = x.origin \/ x.blind

CellsKept(d) == \A c \in DOMAIN d.table : Kept(d.cells[c], d.table[c])

ValuesInv ==
  /\ CellsKept(file) /\ CellsKept(view)
  /\ ConformingValuesAreTaken

LEMMA ArrivingKept ==
  ASSUME RefreshInv, CellsKept(view), NEW c \in DOMAIN view.table,
         NEW x \in Arriving(c)
  PROVE  Kept(x, view.table[c])
BY DEF Arriving, Offered, Kept, CellsKept

\* One hop.
LEMMA MergeKeeps ==
  ASSUME RefreshInv, CellsKept(view), NEW c \in DOMAIN view.table,
         NEW x \in Arriving(c), NEW v \in FromText(ToText(x.val), MergeType(c))
  PROVE  Kept([val |-> Affine(Bind(v), view.table[c]), origin |-> x.origin,
               blind |-> Blind(c, x)], view.table[c])
<1> SUFFICES ASSUME Conforms(x.origin, view.table[c]), ~ Blind(c, x)
             PROVE  Affine(Bind(v), view.table[c]) = x.origin
  BY DEF Kept
<1>1. x.val = x.origin
  BY ArrivingKept DEF Kept, Blind
<1>2. MergeType(c) = KnownType(view.table[c])
  BY DEF Blind
<1> QED
  BY <1>1, <1>2, MergeTypes, RoundTrip

LEMMA RefusalKeeps ==
  ASSUME RefreshInv, CellsKept(view), NEW c \in DOMAIN view.table,
         NEW x \in Arriving(c), FromText(ToText(x.val), MergeType(c)) = {},
         Conforms(x.origin, view.table[c])
  PROVE  Blind(c, x)
<1> SUFFICES ASSUME ~ Blind(c, x)
             PROVE  FALSE
  BY MergeTypes
<1>1. x.val = x.origin
  BY ArrivingKept DEF Kept, Blind
<1>2. MergeType(c) = KnownType(view.table[c])
  BY DEF Blind
<1> QED
  BY <1>1, <1>2, MergeTypes, RoundTrip

\* A step that stores e.
LEMMA LeaveKeeps ==
  ASSUME ValuesInv, NEW e, Leave(e), CellsKept(e)
  PROVE  CellsKept(file)' /\ CellsKept(view)'
BY DEF ValuesInv, Leave, CellsKept

\* A step that stores one cell.
LEMMA StoredKept ==
  ASSUME NEW d, WellFormed(d), CellsKept(d), NEW c \in DOMAIN d.table,
         NEW y \in Cell, Kept(y, d.table[c])
  PROVE  CellsKept([d EXCEPT !.cells[c] = y])
BY CellStored DEF CellsKept

LEMMA ValuesStep ==
  ASSUME RefreshInv, ValuesInv, [Next]_vars
  PROVE  ValuesInv'
<1> DEFINE Goal == CellsKept(file)' /\ CellsKept(view)'
<1>0. WellFormed(file) /\ WellFormed(view) /\ CellsKept(file) /\ CellsKept(view)
  BY DEF RefreshInv, TypeOK, ValuesInv
<1>1. CASE UNCHANGED vars
  BY <1>1 DEF vars, ValuesInv, CellsKept, ConformingValuesAreTaken
<1>2. CASE RefuseColumn
  <2>1. PICK c \in DOMAIN view.table : \E x \in Arriving(c) :
          /\ FromText(ToText(x.val), MergeType(c)) = {}
          /\ refused' = {[origin |-> x.origin, type |-> view.table[c],
                          blind |-> Blind(c, x)]}
    BY <1>2 DEF RefuseColumn
  <2>2. ConformingValuesAreTaken'
    BY <1>0, <2>1, RefusalKeeps DEF ConformingValuesAreTaken
  <2>3. UNCHANGED <<file, view>>
    BY <1>2 DEF RefuseColumn
  <2> QED
    BY <1>0, <2>2, <2>3 DEF ValuesInv, CellsKept
<1>3. CASE Step /\ refused' = {}
  <2>1. ConformingValuesAreTaken'
    BY <1>3 DEF ConformingValuesAreTaken
  <2>2. ASSUME UNCHANGED <<file, view>>
       PROVE  Goal
    BY <1>0, <2>2 DEF CellsKept
  <2>3. ASSUME file' \in {file, view} /\ view' \in {file, view}
       PROVE  Goal
    BY <1>0, <2>3 DEF CellsKept
  <2>4. ASSUME AlterTable
       PROVE  Goal
    <3>1. PICK c \in Column \ DOMAIN view.table, d \in Types :
            Leave([table |-> With(view.table, c, d),
                   cells |-> With(view.cells, c, NullCell),
                   triggers |-> view.triggers])
      BY <2>4 DEF AlterTable
    <3>2. DOMAIN view.cells = DOMAIN view.table
      BY <1>0 DEF WellFormed
    <3>3. Kept(NullCell, d)
      BY DEF Kept, NullCell
    <3>4. \A x \in DOMAIN With(view.table, c, d) :
            Kept(With(view.cells, c, NullCell)[x], With(view.table, c, d)[x])
      BY <1>0, <3>2, <3>3 DEF CellsKept, With
    <3> QED
      BY <3>1, <3>4, LeaveKeeps DEF CellsKept
  <2>5. ASSUME Update
       PROVE  Goal
    <3>1. PICK c \in DOMAIN view.table, v \in Written :
            LET stored == Affine(v, view.table[c])
            IN  Leave([view EXCEPT !.cells[c] = [val |-> stored, origin |-> stored,
                                                 blind |-> FALSE]])
      BY <2>5 DEF Update
    <3> DEFINE y == [val |-> Affine(v, view.table[c]),
                     origin |-> Affine(v, view.table[c]), blind |-> FALSE]
    <3>2. view.table[c] \in Declared
      BY <1>0, DomainType, TypesAssumption DEF WellFormed, Contents
    <3>3. Affine(v, view.table[c]) \in Stored
      BY <3>2, AffineType, WrittenAssumption
    <3>4. y \in Cell /\ Kept(y, view.table[c])
      BY <3>3 DEF Cell, Kept
    <3>5. Leave([view EXCEPT !.cells[c] = y])
      BY <3>1
    <3> HIDE DEF y
    <3> QED
      BY <1>0, <3>4, <3>5, StoredKept, LeaveKeeps
  <2>6. ASSUME ReplaceTrigger
       PROVE  Goal
    <3>1. PICK x : Leave([view EXCEPT !.triggers[Order[at]] = x])
      BY <2>6 DEF ReplaceTrigger
    <3> DEFINE e == [view EXCEPT !.triggers[Order[at]] = x]
    <3>2. e.table = view.table /\ e.cells = view.cells
      BY <1>0 DEF WellFormed, Contents
    <3>3. CellsKept(e)
      BY <1>0, <3>2 DEF CellsKept
    <3> QED
      BY <3>1, <3>3, LeaveKeeps
  <2>7. ASSUME MergeColumn
       PROVE  Goal
    <3>1. PICK c \in DOMAIN view.table : \E x \in Arriving(c) :
            \E v \in FromText(ToText(x.val), MergeType(c)) :
              Leave(Restored([view EXCEPT !.cells[c] =
                [val |-> Affine(Bind(v), view.table[c]), origin |-> x.origin,
                 blind |-> Blind(c, x)]]))
      BY <2>7 DEF MergeColumn
    <3>2. PICK x \in Arriving(c) : \E v \in FromText(ToText(x.val), MergeType(c)) :
            Leave(Restored([view EXCEPT !.cells[c] =
              [val |-> Affine(Bind(v), view.table[c]), origin |-> x.origin,
               blind |-> Blind(c, x)]]))
      BY <3>1
    <3>3. PICK v \in FromText(ToText(x.val), MergeType(c)) :
            Leave(Restored([view EXCEPT !.cells[c] =
              [val |-> Affine(Bind(v), view.table[c]), origin |-> x.origin,
               blind |-> Blind(c, x)]]))
      BY <3>2
    <3> DEFINE y == [val |-> Affine(Bind(v), view.table[c]), origin |-> x.origin,
                     blind |-> Blind(c, x)]
               d == [view EXCEPT !.cells[c] = y]
    <3>4. y \in Cell
      BY MergeTypes DEF Cell
    <3>5. Kept(y, view.table[c])
      BY <1>0, MergeKeeps
    <3>6. Leave(Restored(d))
      BY <3>3
    <3> HIDE DEF y
    <3>7. WellFormed(d) /\ CellsKept(d)
      BY <1>0, <3>4, <3>5, CellStored, StoredKept
    <3> HIDE DEF d
    <3>8. CellsKept(Restored(d))
      BY <3>7, RestoredType DEF CellsKept
    <3> QED
      BY <3>6, <3>8, LeaveKeeps
  <2>8. ASSUME MergeElsewhere
       PROVE  Goal
    <3>1. CellsKept(Restored(view))
      BY <1>0, RestoredType DEF CellsKept
    <3> QED
      BY <2>8, <3>1, LeaveKeeps DEF MergeElsewhere
  <2>9. ASSUME Open
       PROVE  Goal
    <3>1. PICK triggers : Leave([file EXCEPT !.triggers = triggers])
      BY <2>9 DEF Open
    <3>2. CellsKept([file EXCEPT !.triggers = triggers])
      BY <1>0 DEF CellsKept, WellFormed, Contents
    <3> QED
      BY <3>1, <3>2, LeaveKeeps
  <2>10. Goal
    BY <1>3, <2>2, <2>3, <2>4, <2>5, <2>6, <2>7, <2>8, <2>9
    DEF Step, Statement, StartExecute, EndExecute, RefreshByHand, Begin, Commit,
        Rollback, FailStatement, FailRefresh, CacheColumnTypes, Crash
  <2> QED
    BY <2>1, <2>10 DEF ValuesInv
<1> QED
  BY <1>1, <1>2, <1>3 DEF Next

LEMMA ValuesInvariant == Spec => []ValuesInv
<1>1. Init => ValuesInv
  BY DEF Init, ValuesInv, CellsKept, ConformingValuesAreTaken
<1>2. RefreshInv /\ ValuesInv /\ [Next]_vars => ValuesInv'
  BY ValuesStep
<1> QED
  BY <1>1, <1>2, RefreshInvariant, PTL DEF Spec

\* A value that fits the declared type of its column arrives as it was
\* written, over any number of hops: whatever the values, the columns and the
\* faults.
THEOREM ValuesCorrect == Spec => []ConformingValuesArrive
<1>1. ValuesInv => ConformingValuesArrive
  BY DEF ValuesInv, CellsKept, Kept, ConformingValuesArrive
<1> QED
  BY <1>1, ValuesInvariant, PTL

\* No merge throws on such a value.
THEOREM TakenCorrect == Spec => []ConformingValuesAreTaken
<1>1. ValuesInv => ConformingValuesAreTaken
  BY DEF ValuesInv
<1> QED
  BY <1>1, ValuesInvariant, PTL
=============================================================================
