------------------------------ MODULE MCSchema ------------------------------
(* Values for the runs of SchemaRefresh.                       *)
EXTENDS SchemaRefresh

Halves == -3 .. 3

\* An integer, a number that is none, two blobs and NULL; of texts, a word, a
\* number with letters behind it, a blob's text torn, and a word with a NUL.
ValuesWritten ==
  {IntValue(2), RealValue(-3), BlobValue("bytes"), BlobValue(Empty), NullValue,
   TextValue([form |-> "word", word |-> "word"]),
   TextValue([form |-> "torn", word |-> "word"]),
   TextValue([form |-> "nul", word |-> "word"]),
   TextValue([form |-> "prefix", half |-> 2])}
=============================================================================
