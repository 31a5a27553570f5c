----------------------------- MODULE MCTracking -----------------------------
(* Model values, remote changes and symmetry for the runs of ChangeTracking. *)
EXTENDS ChangeTracking, TLC

CONSTANTS r1, c1, c2, v1, v2, k1, k2

OneColumn == {c1}
TwoColumns == {c1, c2}
ValuesSeen == {v1, v2, NullText}
CellsWritten == {v1, v2}

\* Node 2 wrote the column once or twice, or deleted the record.
RemoteColumn(version, time) ==
  [rec |-> r1, col |-> c1, val |-> v2, cv |-> version, dv |-> time, node |-> 2]

RemoteDeletion(time) ==
  [rec |-> r1, col |-> NoColumn, val |-> Null, cv |-> 1, dv |-> time, node |-> 2]

\* What a caller of merge_changes may pass: the column without a value.
RemoteAbsence(version, time) == [RemoteColumn(version, time) EXCEPT !.val = Null]

ChangesPassed == {RemoteColumn(1, 1), RemoteAbsence(2, 2), RemoteDeletion(2)}

RemoteChanges == {RemoteColumn(1, 1), RemoteColumn(2, 2), RemoteDeletion(2)}

TwoConnections == {k1, k2}
ConnectionSymmetry == Permutations(TwoConnections)
=============================================================================
