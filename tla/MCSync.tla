------------------------------- MODULE MCSync -------------------------------
(* Model values for the runs of SyncSession.                               *)
EXTENDS SyncSession

CONSTANTS c1, c2, v1, v2

OneColumn == {c1}
TwoColumns == {c1, c2}
NumberColumn == {c2}
ValuesSeen == {v1, v2, NullText}
CellsWritten == {v1, v2}
=============================================================================
