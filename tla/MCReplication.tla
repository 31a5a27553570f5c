---------------------------- MODULE MCReplication ----------------------------
(* Model values for the runs of CrdtReplication.                           *)
EXTENDS CrdtReplication

CONSTANTS c1, v1

OneColumn == {c1}
ValuesSeen == {v1, NullText}
CellsWritten == {v1, Null}
=============================================================================
