----------------------------- MODULE TypedValues -----------------------------
(***************************************************************************)
(* What a value of the tracked table becomes on its way to another         *)
(* replica: to_string makes a text of it, from_string a value of the type  *)
(* that cache_column_types found for the column, and SQLite stores that    *)
(* under the affinity of the declared type.                                *)
(*                                                                         *)
(* Numbers are counted in halves, so that 3 is 1.5; those so small that    *)
(* std::stod throws are not among them.  A text is told apart by what the  *)
(* parsers see in it: a number, a number followed by letters, the          *)
(* hexadecimal form of a blob, that form torn, or none of these; and a     *)
(* word may have a NUL behind it and more.                                 *)
(***************************************************************************)
EXTENDS Integers

CONSTANTS
  Half,  \* the numbers, in halves
  Bytes, \* the contents of blobs
  Word   \* the other texts; what to_string makes of NULL is one of them

\* std::stoll stops at the decimal point, and at what follows a number.
WholePart(h) == IF h >= 0 THEN h - (h % 2) ELSE h + (h % 2)

Empty == "no bytes"
NullWord == "NULL"

ASSUME HalfAssumption  == Half \subseteq Int /\ \A h \in Half : WholePart(h) \in Half
ASSUME BytesAssumption == Empty \in Bytes
ASSUME WordAssumption  == NullWord \in Word

\* The declared types.  cache_column_types looks for the names in capitals;
\* SQLite does not mind, and "blob" is a BLOB to it.
Declared == {"INTEGER", "REAL", "TEXT", "BLOB", "blob"}

Text == [form : {"number", "prefix"}, half : Half]
          \cup [form : {"hex"}, bytes : Bytes]
          \cup [form : {"word", "torn", "nul"}, word : Word]

Stored == [class : {"null"}] \cup [class : {"int"}, half : {h \in Half : h % 2 = 0}]
            \cup [class : {"real"}, half : Half] \cup [class : {"text"}, text : Text]
            \cup [class : {"blob"}, bytes : Bytes]

NullValue   == [class |-> "null"]
IntValue(h)  == [class |-> "int", half |-> h]
RealValue(h) == [class |-> "real", half |-> h]
TextValue(t) == [class |-> "text", text |-> t]
BlobValue(b) == [class |-> "blob", bytes |-> b]

Number(h) == [form |-> "number", half |-> h]

\* Faulty variant: every type but REAL and BLOB is taken for INTEGER.
IntegerByDefault(declared) ==
  IF declared \in {"REAL", "BLOB"} THEN declared ELSE "INTEGER"

\* cache_column_types: the type that the class takes a column to have.
KnownType(declared) == IF declared = "blob" THEN "TEXT" ELSE declared

\* A C string ends at the first NUL.
CString(t) == IF t.form = "nul" THEN [form |-> "word", word |-> t.word] ELSE t

\* Faulty variant: a number is written without its fraction.
WholeNumbers(v) ==
  CASE v.class = "null" -> [form |-> "word", word |-> NullWord]
    [] v.class \in {"int", "real"} -> Number(WholePart(v.half))
    [] v.class = "text" -> CString(v.text)
    [] v.class = "blob" -> [form |-> "hex", bytes |-> v.bytes]

\* SQLiteValue::from_sqlite, which reads a text as a C string, and to_string.
ToText(v) ==
  CASE v.class = "null" -> [form |-> "word", word |-> NullWord]
    [] v.class \in {"int", "real"} -> Number(v.half)
    [] v.class = "text" -> CString(v.text)
    [] v.class = "blob" -> [form |-> "hex", bytes |-> v.bytes]

Numeric(t) == t.form \in {"number", "prefix"}

\* SQLiteValue::from_string: the values it may return, none where it throws.
FromText(t, type) ==
  CASE type = "INTEGER" -> IF Numeric(t) THEN {IntValue(WholePart(t.half))} ELSE {}
    [] type = "REAL" -> IF Numeric(t) THEN {RealValue(t.half)} ELSE {}
    [] type = "TEXT" -> {TextValue(t)}
    [] type = "BLOB" ->
         IF t.form = "torn" THEN {}
                            ELSE {BlobValue(IF t.form = "hex" THEN t.bytes ELSE Empty)}

\* apply_to_sqlite binds a text as a C string, and no bytes as the data() of an
\* empty vector: a null pointer, which SQLite takes for NULL.
Bind(v) ==
  CASE v.class = "text" -> TextValue(CString(v.text))
    [] v.class = "blob" /\ v.bytes = Empty -> NullValue
    [] OTHER -> v

\* The affinity of the column, applied by SQLite to what is stored in it.
Affine(v, declared) ==
  LET isText == v.class = "text"
      number == v.class \in {"int", "real"} \/ (isText /\ v.text.form = "number")
      half   == IF isText THEN v.text.half ELSE v.half
  IN  CASE declared = "INTEGER" /\ number ->
             IF half % 2 = 0 THEN IntValue(half) ELSE RealValue(half)
        [] declared = "REAL" /\ number -> RealValue(half)
        [] declared = "TEXT" /\ number -> TextValue(Number(half))
        [] OTHER -> v

\* The value is one that the declared type is meant for and that crosses the
\* wire: the empty blob arrives as NULL, and a text up to its first NUL.
Conforms(v, declared) ==
  \/ declared = "INTEGER" /\ v.class = "int"
  \/ declared = "REAL" /\ v.class = "real"
  \/ declared = "TEXT" /\ v.class = "text" /\ v.text.form # "nul"
  \/ declared = "BLOB" /\ v.class = "blob" /\ v.bytes # Empty
=============================================================================
