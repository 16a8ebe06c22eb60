--------------------------- MODULE DeletionStatus ---------------------------
(***************************************************************************)
(* What deletions, one at a time, do to table backups, processes and       *)
(* storage left out: the statuses that a row goes through.  BackupDelete   *)
(* implements it, and the commands that run beside a deletion see no more  *)
(* of it.                                                                  *)
(***************************************************************************)
EXTENDS HistoryDB

VARIABLES
  backups,  \* table backups
  forced    \* does the command at work have --force?  Read only

Init == \A t \in DOMAIN backups : backups[t] \in Row

\* The statuses of a deletion that has begun and has no date yet.  It may go on
\* from a failure, when errors are ignored.
Begun == {DateDeletedInProgress, DateDeletedPluginFailed, DateDeletedLocalFailed}

Set(t, dateDeleted) == backups' = UpdateDeleteStatus(t, dateDeleted, backups)

Begin(t) ==
  /\ CheckBackupCanBeUsed(forced, ~IsLocal(backups[t]), backups[t]) = "use"
  /\ Set(t, DateDeletedInProgress)

Fail(t) ==
  /\ backups[t].dateDeleted \in Begun
  /\ Set(t, IF IsLocal(backups[t]) THEN DateDeletedLocalFailed
            ELSE DateDeletedPluginFailed)

Finish(t) ==
  /\ backups[t].dateDeleted \in Begun
  /\ Set(t, "date")

Next == \E t \in DOMAIN backups : Begin(t) \/ Fail(t) \/ Finish(t)

Spec == Init /\ [][Next]_backups
=============================================================================
