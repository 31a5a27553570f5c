---------------------------- MODULE ChangeExport ----------------------------
(***************************************************************************)
(* What get_changes_since hands to the peers of a database file while      *)
(* ChangeTracking goes on: it reads whatever is committed, processed or    *)
(* not.                                                                    *)
(***************************************************************************)
EXTENDS ChangeTracking

VARIABLE
  sent   \* history: the changes of live records that were returned

exportVars == <<vars, sent>>

ExportInit == Init /\ sent = {}

\* The caller asks for everything, outside a transaction.  (Of a tombstoned
\* record the old versions are still returned, without their values.)
GetChanges(c) ==
  /\ pc[c] = "idle"
  /\ sent' = sent \cup {x \in GetChangesSince(file, 0, {}) :
                          ~ HasTombstone(file, x.rec)}
  /\ UNCHANGED vars

Track == Next /\ UNCHANGED sent

ExportNext == Track \/ \E c \in Connection : GetChanges(c)

ExportSpec == ExportInit /\ [][ExportNext]_exportVars

\* wal_callback runs in the thread that committed, before COMMIT returns:
\* once begun, it goes on to its end.
Processes(c) == ProcessPendingChanges(c) /\ UNCHANGED sent

FairExportSpec == ExportSpec /\ \A c \in Connection : WF_exportVars(Processes(c))

-----------------------------------------------------------------------------
\* The stamp of a change identifies it: get_changes_since never returns two
\* values of a column under the same version, so that peers that compare
\* versions compare values.
StampNamesOneValue ==
  \A x, y \in sent : Stamp(x) = Stamp(y) => x.val = y.val
=============================================================================
